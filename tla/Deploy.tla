------------------------------- MODULE Deploy -------------------------------
(***************************************************************************)
(* What happens to a row after the integration lane has landed it: the     *)
(* daemon's agents cargo-install, schema-migrate and cleanup-worktree      *)
(* (flow/builtins), dispatched by module Dispatch on the row's transitions *)
(* and on its post_integration_step, with `tasks reconcile-accepted` and   *)
(* `cleanup-worktrees`, which an operator runs beside the daemon without   *)
(* any lock.  A binary is the set of the rows whose code it contains.      *)
(***************************************************************************)
EXTENDS Dispatch

CONSTANTS
    Install, Migrate, Cleanup,  \* the agents
    Enter,                      \* integrating -> integrated
    Stay,                       \* integrated -> integrated, a step written
    Operator,                   \* people who run reconcile-accepted
    MaxTroubles                 \* bound: builtins that fail, and people who step in

ASSUME DeployAssumption ==
    /\ Agent = {Install, Migrate, Cleanup}
    /\ {Enter, Stay} \subseteq Edge
    /\ Operator \cap Daemon = {} /\ MaxTroubles \in Nat

VARIABLES
    row,        \* status, post_integration_step, and whether the worktree exists
    binary,     \* the private daemon binary
    job,        \* the builtin each process is in, with its locals
    troubles,   \* how many there were
    overlap     \* history variable: have two installs overlapped?

deploy == <<row, binary, job, troubles, overlap>>
all    == <<vars, deploy>>
work   == <<lock, daemon, ghost, used>>

Process == Daemon \cup Operator
Landed  == {r \in Row : <<r, Enter>> \in history}

Troubled == troubles < MaxTroubles /\ troubles' = troubles + 1

-----------------------------------------------------------------------------
(* post_integration_step, which the predicates of the agents read *)

Passes(a, step) ==
    IF /\ a = Migrate => step = "cargo_installed"
       /\ a = Cleanup => step = "schema_migrated"
    THEN "pass" ELSE "false"

Mutant_WriteStep(r, step) ==            \* without its history row
    /\ row' = [row EXCEPT ![r].step = step]
    /\ gate' = [w \in Work |-> IF w[1] = r THEN Passes(w[2], step) ELSE gate[w]]
    /\ UNCHANGED history

\* A step is written with a history row, while the status stays integrated.
WriteStep(r, step) ==
    /\ row' = [row EXCEPT ![r].step = step]
    /\ history' = history \cup {<<r, Stay>>}
    /\ gate' = [w \in Work |-> IF w[1] = r THEN Passes(w[2], step) ELSE gate[w]]

Goes(p, pc) == job' = [job EXCEPT ![p].pc = pc]
Idle == [pc |-> "idle", row |-> Nothing, built |-> {}, code |-> 0]
Ends(p, code) ==
    job' = [job EXCEPT ![p].pc = "done", ![p].built = {}, ![p].code = code]

\* fire_framework_transition: refused unless the row is integrated
Marks(p, step, allowed) ==
    LET r == job[p].row IN
    IF row[r].status = "integrated" /\ allowed
      THEN WriteStep(r, step) /\ Ends(p, 0)
      ELSE Ends(p, 1) /\ UNCHANGED <<row, world>>

-----------------------------------------------------------------------------
(* builtin:cargo-install *)

Mutant_Builds(p) ==                     \* from the row's own worktree
    /\ job[p].pc = "build"
    /\ job' = [job EXCEPT ![p].pc = "promote", ![p].built = {job[p].row}]
    /\ overlap' = (overlap \/ \E q \in Process \ {p} : job[q].pc = "promote")
    /\ UNCHANGED <<row, binary, troubles, world, work>>

\* cargo install of the main repository, as it is now, into a private root
Builds(p) ==
    /\ job[p].pc = "build"
    /\ job' = [job EXCEPT ![p].pc = "promote", ![p].built = Landed]
    /\ overlap' = (overlap \/ \E q \in Process \ {p} : job[q].pc = "promote")
    /\ UNCHANGED <<row, binary, troubles, world, work>>

\* The build or the candidate's validation fails: the row is blocked, and
\* the builtin returns 0.
BuildFails(p) ==
    /\ job[p].pc = "build" /\ Troubled
    /\ Marks(p, "deploy_blocked", TRUE)
    /\ UNCHANGED <<overlap, binary, work>>

\* copy and rename to paths::ensure_daemon_binary_parent
Promote(p) ==
    /\ job[p].pc = "promote"
    /\ binary' = job[p].built
    /\ job' = [job EXCEPT ![p].pc = "mark_installed", ![p].built = {}]
    /\ UNCHANGED <<overlap, row, troubles, world, work>>

Mutant_MarkInstalled(p) ==              \* marked before it is promoted
    /\ job[p].pc \in {"build", "mark_installed"}
    /\ Marks(p, "cargo_installed", TRUE)
    /\ UNCHANGED <<overlap, binary, troubles, work>>
MarkInstalled(p) ==
    /\ job[p].pc = "mark_installed"
    /\ Marks(p, "cargo_installed", TRUE)
    /\ UNCHANGED <<overlap, binary, troubles, work>>

(* builtin:schema-migrate *)

\* `stores migrate --apply` in the row's worktree
Migrates(p) ==
    /\ job[p].pc = "migrate" /\ row[job[p].row].tree
    /\ Goes(p, "mark_migrated")
    /\ UNCHANGED <<overlap, row, binary, troubles, world, work>>

MigrationFails(p) ==
    /\ job[p].pc = "migrate"
    /\ \/ Troubled
       \/ ~row[job[p].row].tree /\ UNCHANGED troubles
    /\ Marks(p, "deploy_blocked", TRUE)
    /\ UNCHANGED <<overlap, binary, work>>

MarkMigrated(p) ==
    /\ job[p].pc = "mark_migrated"
    /\ Marks(p, "schema_migrated", row[job[p].row].step = "cargo_installed")
    /\ UNCHANGED <<overlap, binary, troubles, work>>

(* builtin:cleanup-worktree, and any builtin that returns an error *)

\* A dirty, unmerged or busy worktree is left in place.
Cleans(p) ==
    /\ job[p].pc = "clean"
    /\ \/ row' = [row EXCEPT ![job[p].row].tree = FALSE]
       \/ UNCHANGED row
    /\ Ends(p, 0)
    /\ UNCHANGED <<overlap, binary, troubles, world, work>>

Bails(p) ==
    /\ job[p].pc \in {"build", "promote", "clean"} /\ Troubled
    /\ Ends(p, 1)
    /\ UNCHANGED <<overlap, row, binary, world, work>>

Builtin(p) ==
    \/ Builds(p) \/ BuildFails(p) \/ Promote(p) \/ MarkInstalled(p)
    \/ Migrates(p) \/ MigrationFails(p) \/ MarkMigrated(p)
    \/ Cleans(p) \/ Bails(p)

-----------------------------------------------------------------------------
(* The daemon around its builtins *)

FirstStep(a) == CASE a = Install -> "build" [] a = Migrate -> "migrate" [] OTHER -> "clean"

Begin(d) ==
    /\ daemon[d].pc = "run" /\ job[d].pc = "idle"
    /\ job' = [job EXCEPT ![d].pc = FirstStep(daemon[d].at[2]), ![d].row = daemon[d].at[1]]
    /\ UNCHANGED <<overlap, row, binary, troubles, world, work>>

\* The postconditions cargo_installed_state and schema_migrated_state
Postcondition(w) ==
    CASE w[2] = Install -> row[w[1]].step = "cargo_installed"
      [] w[2] = Migrate -> row[w[1]].step = "schema_migrated"
      [] OTHER -> row[w[1]].status \in {"integrated", "closed"}

\* A failure is routed after the lock is finished.
Leaves(d) ==
    job' = [job EXCEPT ![d] = IF @.code = 0 THEN Idle ELSE [@ EXCEPT !.pc = "route"]]

Returns(d) ==
    /\ job[d].pc = "done"
    /\ Finish(d, IF job[d].code = 0 /\ Postcondition(daemon[d].at) THEN "ok" ELSE "failed")
    /\ Leaves(d)
    /\ UNCHANGED <<overlap, row, binary, troubles>>

ReturnsUnnoticed(d) ==
    /\ job[d].pc = "done" /\ FinishLost(d) /\ Leaves(d)
    /\ UNCHANGED <<overlap, row, binary, troubles>>

\* route_failure_to_deploy_blocked: the subscription of each of the agents
\* ends in integrated.
Route(d) ==
    /\ job[d].pc = "route" /\ job' = [job EXCEPT ![d] = Idle]
    /\ IF row[job[d].row].status = "integrated"
         THEN WriteStep(job[d].row, "deploy_blocked")
         ELSE UNCHANGED <<row, world>>
    /\ UNCHANGED <<overlap, binary, troubles, work>>

Dies(d) ==
    /\ Crash(d) /\ job' = [job EXCEPT ![d] = Idle]
    /\ UNCHANGED <<overlap, row, binary, troubles>>

-----------------------------------------------------------------------------
(* People, and the lane *)

\* reconcile-accepted reads the status, runs cargo-install, and then
\* schema-migrate if the row asks for it.
Reconcile(p, r) ==
    /\ job[p].pc = "idle" /\ row[r].status = "integrated" /\ Troubled
    /\ job' = [job EXCEPT ![p].pc = "build", ![p].row = r]
    /\ UNCHANGED <<overlap, row, binary, world, work>>

ReconcileGoesOn(p) ==
    /\ job[p].pc = "done"
    /\ job' = [job EXCEPT ![p] =
                 IF /\ @.code = 0 /\ row[@.row].status = "integrated"
                    /\ row[@.row].step = "cargo_installed"
                 THEN [@ EXCEPT !.pc = "migrate"] ELSE Idle]
    /\ UNCHANGED <<overlap, row, binary, troubles, world, work>>

\* The lane's mark-integrated, with the row's code on main
Lands(r) ==
    /\ row[r].status = "integrating"
    /\ Transition(r, Enter)
    /\ row' = [row EXCEPT ![r].status = "integrated"]
    /\ UNCHANGED <<overlap, binary, job, troubles>>

\* abandon or close-out-of-band
Close(r) ==
    /\ row[r].status = "integrated" /\ Troubled
    /\ row' = [row EXCEPT ![r].status = "closed"]
    /\ UNCHANGED <<overlap, binary, job, world, work>>

\* cleanup-worktrees: any integrated row is eligible, whatever its step.
RemovesTree(r) ==
    /\ row[r].status \in {"integrated", "closed"} /\ row[r].tree /\ Troubled
    /\ row' = [row EXCEPT ![r].tree = FALSE]
    /\ UNCHANGED <<overlap, binary, job, world, work>>

-----------------------------------------------------------------------------
DeployInit ==
    /\ history = {}
    /\ gate = [w \in Work |-> Passes(w[2], "none")]
    /\ NothingClaimed
    /\ row = [r \in Row |-> [status |-> "integrating", step |-> "none", tree |-> TRUE]]
    /\ binary = {} /\ troubles = 0 /\ overlap = FALSE
    /\ job = [p \in Process |-> Idle]

DaemonProceeds(d) ==
    \/ job[d].pc = "idle" /\ Bookkeeps(d) /\ UNCHANGED deploy
    \/ Begin(d) \/ Builtin(d) \/ Returns(d) \/ Route(d)

DaemonBoots(d) == job[d].pc = "idle" /\ Boot(d) /\ UNCHANGED deploy
DaemonPolls(d) == job[d].pc = "idle" /\ Polling(d) /\ UNCHANGED deploy

OperatorNext(p) == Builtin(p) \/ ReconcileGoesOn(p) \/ \E r \in Row : Reconcile(p, r)

DeployNext ==
    \/ \E d \in Daemon :
         \/ DaemonBoots(d) \/ DaemonProceeds(d) \/ DaemonPolls(d)
         \/ ReturnsUnnoticed(d) \/ Dies(d)
    \/ \E p \in Operator : OperatorNext(p)
    \/ \E w \in Work : CoolsDown(w) /\ UNCHANGED deploy
    \/ \E r \in Row : Lands(r) \/ Close(r) \/ RemovesTree(r)

DeploySpec == DeployInit /\ [][DeployNext]_all

\* As in Dispatch; builtins end, by themselves or by their liveness limits.
DeployFairness ==
    /\ \A d \in Daemon : WF_all(DaemonProceeds(d) \/ DaemonPolls(d))
    /\ \A w \in Work : WF_all(CoolsDown(w) /\ UNCHANGED deploy)

FairDeploySpec == DeploySpec /\ DeployFairness

-----------------------------------------------------------------------------
(* Properties *)

JobState == {"idle", "build", "promote", "mark_installed", "migrate", "mark_migrated",
             "clean", "done", "route"}

\* Every variable stays in its domain; a step stands on a landed row, and
\* left the history row its subscribers are dispatched on.
DeployTypeOK ==
    /\ row \in [Row -> [status : {"integrating", "integrated", "closed"},
                        step : {"none", "cargo_installed", "schema_migrated", "deploy_blocked"},
                        tree : BOOLEAN]]
    /\ \A r \in Row : row[r].step # "none" => {<<r, Enter>>, <<r, Stay>>} \subseteq history
    /\ binary \subseteq Landed /\ overlap \in BOOLEAN /\ troubles \in Nat
    /\ job \in [Process -> [pc : JobState, row : Row \cup {Nothing},
                             built : SUBSET Landed, code : {0, 1}]]

\* As long as no two installs overlap, the binary the daemon restarts into
\* never goes back: what one build brought in, a later one does not take out.
NeverOlder == [][~overlap => binary \subseteq binary']_all

\* As long as no two installs overlap, a row that says cargo_installed or
\* schema_migrated is right: the promoted binary contains its code, though
\* building, promoting and marking are separate steps of processes that may
\* die, fail or be closed over.
BinaryHasLanded ==
    ~overlap => \A r \in Row : row[r].step \in {"cargo_installed", "schema_migrated"}
                                => r \in binary

Missed(r) == \E a \in Agent : lock[<<r, a>>].state = "historical"

\* While no daemon dies, a landed row is deployed or says that it is not:
\* no failure, no loss of the worktree and no other row's trouble strands it
\* silently.  (What happened before an agent's starting line is not looked
\* at.)
DeploysSettle ==
    \A r \in Row :
        row[r].status = "integrated" /\ row[r].step = "none"
            ~> \/ row[r].step \in {"schema_migrated", "deploy_blocked"}
               \/ row[r].status = "closed" \/ Missed(r) \/ AllOff \/ used["crashes"] > 0
=============================================================================
