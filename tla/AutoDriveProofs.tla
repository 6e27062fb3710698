--------------------------- MODULE AutoDriveProofs ---------------------------
(***************************************************************************)
(* Theorems about AutoDrive, for any rows, processes and bounds: whichever *)
(* way a row comes by its drives, no two of them work on it at once, and   *)
(* no watchdog blocks a resumed row before it was driven again.            *)
(***************************************************************************)
EXTENDS AutoDrive, TLAPS

-----------------------------------------------------------------------------
(* Typing, with what the daemon knows of the launch it is in *)

TaskRow ==
    [status : Status, pid : Pid \cup {None}, starting : BOOLEAN,
     review : {"none", "open", "recent"}, wrapped : BOOLEAN]
Ages == 0..2
LockRow ==
    [state : LockState, pid : Pid \cup {None}, age : Ages,
     beat : {"none", "recent", "old"}, before : BOOLEAN]
DriveRow ==
    [pc : DrivePc, row : Row \cup {None}, saw : {"none", "work", "in_review"},
     wrapped : BOOLEAN, closed : BOOLEAN, disowned : BOOLEAN]
LaunchRow ==
    [row : Row \cup {None}, pid : Pid \cup {None}, status : Status \cup {"none"},
     pass : {"none", "forward", "sweep", "handoff"}, child : Pid \cup {None}]

Launching == {"launch", "record", "result"}
Passes    == {"forward", "sweep", "handoff", "zombies", "runner"}
DaemonRow ==
    [pc : {"off"} \cup Launching \cup Passes, todo : SUBSET Row, handled : SUBSET Row,
     launch : LaunchRow]

TasksTyped == task \in [Row -> TaskRow]
LocksTyped == lock \in [Row -> LockRow]
DrivesTyped ==
    drive \in [Pid -> DriveRow] /\ \A p \in Pid : drive[p].pc # "dead" => drive[p].row \in Row
DaemonTyped ==
    /\ daemon \in DaemonRow
    /\ daemon.pc \in Launching => daemon.launch.row \in Row /\ daemon.launch.pass # "none"
    /\ daemon.pc = "record" => daemon.launch.child \in Pid
    /\ daemon.pc \notin Launching => daemon.launch.row = None
RestTyped ==
    /\ marker \in [Row -> BOOLEAN] /\ excused \in BOOLEAN
    /\ stint \in [Row -> {"add", "resume", "early", "revise", "amend", "driven"}]

Typed == TasksTyped /\ LocksTyped /\ DrivesTyped /\ DaemonTyped /\ RestTyped

LEMMA TypedImplies == Typed => TypeOK
BY DEF Typed, TypeOK, TasksTyped, LocksTyped, DrivesTyped, DaemonTyped, RestTyped,
       TaskRow, LockRow, Ages, DriveRow

LEMMA Aging == 0 \in Ages /\ \A a \in Ages : a < 2 => a + 1 \in Ages
BY DEF Ages

LEMMA InitTyped == Init => Typed
<1> SUFFICES ASSUME Init PROVE Typed
  OBVIOUS
<1>1. TasksTyped
  BY DEF Init, TasksTyped, TaskRow, Status
<1>2. LocksTyped
  BY Aging DEF Init, LocksTyped, LockRow, NoLock, LockState
<1>3. DrivesTyped
  BY DEF Init, DrivesTyped, DriveRow, Dead, DrivePc
<1>4. DaemonTyped
  BY DEF Init, DaemonTyped, DaemonRow, LaunchRow, Off, NoLaunch, Launching
<1>5. RestTyped
  BY DEF Init, RestTyped
<1> QED  BY <1>1, <1>2, <1>3, <1>4, <1>5 DEF Typed

\* What the steps write to a row of each kind is of that kind.
LEMMA TaskWrites ==
    ASSUME TasksTyped, NEW r \in Row
    PROVE  /\ \A p \in Pid \cup {None} : Owner(r, p) \in [Row -> TaskRow]
           /\ Blocked(r) \in [Row -> TaskRow]
           /\ \A s \in Status : [task EXCEPT ![r].status = s] \in [Row -> TaskRow]
           /\ \A v \in {"none", "recent"} : [task EXCEPT ![r].review = v] \in [Row -> TaskRow]
           /\ [task EXCEPT ![r].starting = FALSE] \in [Row -> TaskRow]
<1>0. task \in [Row -> TaskRow] /\ task[r] \in TaskRow
  BY DEF TasksTyped
<1>1. \A p \in Pid \cup {None} : Owner(r, p) \in [Row -> TaskRow]
  BY <1>0 DEF TaskRow, Owner
<1>2. \A s \in Status : [task EXCEPT ![r].status = s] \in [Row -> TaskRow]
  BY <1>0 DEF TaskRow
<1>3. Blocked(r) \in [Row -> TaskRow]
  BY <1>2 DEF Blocked, Status
<1>4. \A v \in {"none", "recent"} : [task EXCEPT ![r].review = v] \in [Row -> TaskRow]
  BY <1>0 DEF TaskRow
<1>5. [task EXCEPT ![r].starting = FALSE] \in [Row -> TaskRow]
  BY <1>0 DEF TaskRow
<1> QED  BY <1>1, <1>2, <1>3, <1>4, <1>5

LEMMA LockWrites ==
    ASSUME LocksTyped, NEW r \in Row
    PROVE  /\ \A p \in Pid \cup {None} : HandedOff(r, p) \in [Row -> LockRow]
           /\ \A s \in LockState : Closed(r, s) \in [Row -> LockRow]
           /\ \A s \in LockState : Ended(r, s) \in [Row -> LockRow]
           /\ \A b \in {"recent", "old"} : [lock EXCEPT ![r].beat = b] \in [Row -> LockRow]
           /\ [lock EXCEPT ![r] = NoLock] \in [Row -> LockRow]
           /\ [lock EXCEPT ![r] = [NoLock EXCEPT !.state = "open"]] \in [Row -> LockRow]
           /\ lock[r].age < 2 => [lock EXCEPT ![r].age = @ + 1] \in [Row -> LockRow]
<1>0. lock \in [Row -> LockRow] /\ lock[r] \in LockRow
  BY DEF LocksTyped
<1>1. ASSUME NEW p \in Pid \cup {None} PROVE HandedOff(r, p) \in [Row -> LockRow]
  <2> DEFINE x == [lock[r] EXCEPT !.state = "open", !.pid = p, !.age = 0, !.before = FALSE]
  <2>1. x \in LockRow
    BY <1>0, Aging DEF LockRow, LockState
  <2>2. HandedOff(r, p) = [lock EXCEPT ![r] = x]
    BY <1>0 DEF HandedOff, LockRow
  <2> QED  BY <1>0, <2>1, <2>2
<1>2. ASSUME NEW s \in LockState PROVE Closed(r, s) \in [Row -> LockRow]
  <2> DEFINE x == [lock[r] EXCEPT !.state = s, !.age = 0, !.before = FALSE]
  <2>1. x \in LockRow
    BY <1>0, Aging DEF LockRow
  <2>2. Closed(r, s) \in {[lock EXCEPT ![r] = x], lock}
    BY <1>0 DEF Closed, LockRow
  <2> QED  BY <1>0, <2>1, <2>2
<1>3. ASSUME NEW s \in LockState PROVE Ended(r, s) \in [Row -> LockRow]
  BY <1>0 DEF Ended, LockRow
<1>4. \A b \in {"recent", "old"} : [lock EXCEPT ![r].beat = b] \in [Row -> LockRow]
  BY <1>0 DEF LockRow
<1>5. /\ [lock EXCEPT ![r] = NoLock] \in [Row -> LockRow]
      /\ [lock EXCEPT ![r] = [NoLock EXCEPT !.state = "open"]] \in [Row -> LockRow]
  <2>1. NoLock \in LockRow /\ [NoLock EXCEPT !.state = "open"] \in LockRow
    BY Aging DEF NoLock, LockRow, LockState
  <2> QED  BY <1>0, <2>1
<1>6. ASSUME lock[r].age < 2 PROVE [lock EXCEPT ![r].age = @ + 1] \in [Row -> LockRow]
  <2>1. [lock[r] EXCEPT !.age = lock[r].age + 1] \in LockRow
    BY <1>0, <1>6, Aging DEF LockRow
  <2> QED  BY <1>0, <2>1
<1> QED  BY <1>1, <1>2, <1>3, <1>4, <1>5, <1>6

LEMMA DriveWritten ==
    ASSUME DrivesTyped, NEW p \in Pid, NEW x \in DriveRow, x.pc # "dead" => x.row \in Row,
           drive' = [drive EXCEPT ![p] = x]
    PROVE  DrivesTyped'
BY DEF DrivesTyped

LEMMA DriveWrites ==
    ASSUME DrivesTyped, NEW p \in Pid
    PROVE  /\ Exits(p) => DrivesTyped'
           /\ \A r \in Row, pc \in DrivePc : Spawned(p, r, pc) => DrivesTyped'
           /\ \A pc \in DrivePc : drive[p].pc # "dead" /\ At(p, pc) => DrivesTyped'
           /\ \A r \in Row : Disown(r) => DrivesTyped'
<1>0. drive \in [Pid -> DriveRow] /\ drive[p] \in DriveRow
      /\ \A q \in Pid : drive[q].pc # "dead" => drive[q].row \in Row
  BY DEF DrivesTyped
<1>1. Dead \in DriveRow /\ Dead.pc = "dead"
  BY DEF Dead, DriveRow, DrivePc
<1>2. Exits(p) => DrivesTyped'
  BY <1>1, DriveWritten DEF Exits
<1>3. ASSUME NEW r \in Row, NEW pc \in DrivePc, Spawned(p, r, pc) PROVE DrivesTyped'
  <2>1. [Dead EXCEPT !.pc = pc, !.row = r] \in DriveRow
        /\ [Dead EXCEPT !.pc = pc, !.row = r].row = r
    BY DEF Dead, DriveRow
  <2> QED  BY <1>3, <2>1, DriveWritten DEF Spawned
<1>4. ASSUME NEW pc \in DrivePc, drive[p].pc # "dead", At(p, pc) PROVE DrivesTyped'
  <2> DEFINE x == [drive[p] EXCEPT !.pc = pc]
  <2>1. x \in DriveRow /\ x.row = drive[p].row
    BY <1>0 DEF DriveRow
  <2>2. drive' = [drive EXCEPT ![p] = x]
    BY <1>0, <1>4 DEF At, DriveRow
  <2> HIDE DEF x
  <2> QED  BY <1>0, <1>4, <2>1, <2>2, DriveWritten
<1>5. ASSUME NEW r \in Row, Disown(r) PROVE DrivesTyped'
  <2>1. \A q \in Pid : /\ drive'[q] \in DriveRow
                       /\ drive'[q].pc = drive[q].pc /\ drive'[q].row = drive[q].row
    <3> TAKE q \in Pid
    <3>1. drive[q] \in DriveRow
      BY <1>0
    <3>2. drive'[q] = [drive[q] EXCEPT !.disowned = drive[q].disowned \/ (Alive(q) /\ drive[q].row = r)]
      BY <1>5 DEF Disown
    <3>3. (drive[q].disowned \/ (Alive(q) /\ drive[q].row = r)) \in BOOLEAN
      BY <3>1 DEF DriveRow
    <3> QED  BY <3>1, <3>2, <3>3 DEF DriveRow
  <2>2. drive' = [q \in Pid |-> drive'[q]]
    BY <1>5 DEF Disown
  <2> QED  BY <1>0, <2>1, <2>2 DEF DrivesTyped
<1> QED  BY <1>2, <1>3, <1>4, <1>5

LEMMA DaemonWrites ==
    ASSUME DaemonTyped, TasksTyped, NEW r \in Row
    PROVE  /\ daemon.pc \in Passes /\ (Passed(r) \/ Handled(r)) => DaemonTyped'
           /\ \A pass \in {"forward", "sweep", "handoff"} :
                Daemon("launch", Launch(r, pass)) =>
                  /\ DaemonTyped' /\ daemon'.pc = "launch" /\ daemon'.launch.row = r
                  /\ daemon'.launch.pid = task[r].pid
<1>0. daemon \in DaemonRow /\ task[r] \in TaskRow
  BY DEF DaemonTyped, TasksTyped
<1>1. ASSUME daemon.pc \in Passes, Passed(r) \/ Handled(r) PROVE DaemonTyped'
  <2>1. daemon' \in DaemonRow /\ daemon'.pc = daemon.pc /\ daemon'.launch = daemon.launch
    BY <1>0, <1>1 DEF Passed, Handled, DaemonRow
  <2> QED  BY <2>1, <1>1 DEF DaemonTyped
<1>2. ASSUME NEW pass \in {"forward", "sweep", "handoff"}, Daemon("launch", Launch(r, pass))
      PROVE  /\ DaemonTyped' /\ daemon'.pc = "launch" /\ daemon'.launch.row = r
             /\ daemon'.launch.pid = task[r].pid
  <2> DEFINE l == Launch(r, pass)
  <2>1. /\ l \in LaunchRow /\ l.row = r /\ l.pass = pass /\ l.pid = task[r].pid
    BY <1>0 DEF Launch, LaunchRow, TaskRow
  <2> HIDE DEF l
  <2>2. daemon' = [daemon EXCEPT !.pc = "launch", !.launch = l, !.todo = @ \ {l.row}]
    BY <1>2 DEF Daemon, l
  <2>3. daemon' \in DaemonRow /\ daemon'.pc = "launch" /\ daemon'.launch = l
    BY <1>0, <2>1, <2>2 DEF DaemonRow, Launching
  <2> QED  BY <2>1, <2>3 DEF DaemonTyped, Launching
<1> QED  BY <1>1, <1>2

-----------------------------------------------------------------------------
(* Every step keeps the types.                                             *)

LEMMA DriveStepTyped ==
    ASSUME Typed, NEW p \in Pid, DriveStep(p) \/ Dies(p)
    PROVE  Typed'
<1> DEFINE r == drive[p].row
<1>0. /\ drive \in [Pid -> DriveRow] /\ drive[p] \in DriveRow
      /\ task \in [Row -> TaskRow] /\ lock \in [Row -> LockRow]
      /\ marker \in [Row -> BOOLEAN] /\ excused \in BOOLEAN
      /\ TasksTyped /\ LocksTyped /\ DrivesTyped /\ DaemonTyped /\ RestTyped
  BY DEF Typed, TasksTyped, LocksTyped, DrivesTyped, RestTyped
<1>1. drive[p].pc # "dead" /\ r \in Row
  BY <1>0, AutoDriveAssumption
  DEF DriveStep, CheckOwner, RecordOwner, StartsAgent, Leaves, Submits, Refused, ClosesLock,
      RunnerFails, Dies, Alive, DrivesTyped
<1>2. daemon' = daemon /\ stint' = stint
  BY DEF DriveStep, CheckOwner, RecordOwner, StartsAgent, Leaves, Submits, Refused, ClosesLock,
         RunnerFails, Dies
<1>3. DaemonTyped'
  BY <1>0, <1>2 DEF DaemonTyped
<1>4. marker' \in [Row -> BOOLEAN]
  BY <1>0, <1>1
  DEF DriveStep, CheckOwner, RecordOwner, StartsAgent, Leaves, Submits, Refused, ClosesLock,
      RunnerFails, Dies, Unmarks
<1>5. excused' \in BOOLEAN
  BY <1>0
  DEF DriveStep, CheckOwner, RecordOwner, StartsAgent, Leaves, Submits, Refused, ClosesLock,
      RunnerFails, Dies
<1>6. RestTyped'
  BY <1>0, <1>2, <1>4, <1>5 DEF RestTyped
<1> HIDE DEF r
<1>7. TasksTyped'
  <2>1. CASE RecordOwner(p)
    BY <1>0, <1>1, <2>1, TaskWrites DEF RecordOwner, TasksTyped, r
  <2>2. CASE Submits(p)
    <3>1. ASSUME NEW v \in {"none", "open"}, task' = [task EXCEPT ![r].wrapped = TRUE, ![r].review = v]
          PROVE  TasksTyped'
      <4> DEFINE x == [task[r] EXCEPT !.wrapped = TRUE, !.review = v]
      <4>1. x \in TaskRow
        BY <1>0, <1>1 DEF TaskRow
      <4>2. task' = [task EXCEPT ![r] = x]
        BY <1>0, <1>1, <3>1 DEF TaskRow
      <4> HIDE DEF x
      <4> QED  BY <1>0, <1>1, <4>1, <4>2 DEF TasksTyped
    <3>2. ASSUME NEW s \in {"work", "in_review"}, task' = [task EXCEPT ![r].status = s]
          PROVE  TasksTyped'
      BY <1>0, <1>1, <3>2, TaskWrites DEF TasksTyped, Status
    <3>3. ASSUME task' = Blocked(r) PROVE TasksTyped'
      BY <1>0, <1>1, <3>3, TaskWrites DEF TasksTyped
    <3> QED  BY <2>2, <3>1, <3>2, <3>3 DEF Submits, r
  <2>3. CASE RunnerFails(p)
    <3>1. task' = task \/ task' = Blocked(r)
      BY <2>3 DEF RunnerFails, r
    <3>2. Blocked(r) \in [Row -> TaskRow]
      BY <1>0, <1>1, TaskWrites
    <3> QED  BY <1>0, <3>1, <3>2 DEF TasksTyped
  <2>4. CASE ~RecordOwner(p) /\ ~Submits(p) /\ ~RunnerFails(p)
    <3>1. task' = task
      BY <2>4 DEF DriveStep, CheckOwner, StartsAgent, Leaves, Refused, ClosesLock, Dies
    <3> QED  BY <1>0, <3>1 DEF TasksTyped
  <2> QED  BY <2>1, <2>2, <2>3, <2>4
<1>8. LocksTyped'
  <2>1. CASE StartsAgent(p)
    BY <1>0, <1>1, <2>1, LockWrites DEF StartsAgent, LocksTyped, r
  <2>2. CASE Leaves(p) \/ ClosesLock(p) \/ RunnerFails(p)
    <3>1. lock' = lock \/ \E s \in LockState : lock' = Closed(r, s)
      BY <2>2 DEF Leaves, ClosesLock, RunnerFails, LockState, r
    <3>2. \A s \in LockState : Closed(r, s) \in [Row -> LockRow]
      BY <1>0, <1>1, LockWrites
    <3> QED  BY <1>0, <3>1, <3>2 DEF LocksTyped
  <2>3. CASE ~StartsAgent(p) /\ ~Leaves(p) /\ ~ClosesLock(p) /\ ~RunnerFails(p)
    <3>1. lock' = lock
      BY <2>3 DEF DriveStep, CheckOwner, RecordOwner, Submits, Refused, Dies
    <3> QED  BY <1>0, <3>1 DEF LocksTyped
  <2> QED  BY <2>1, <2>2, <2>3
<1>9. DrivesTyped'
  <2>1. CASE CheckOwner(p) \/ RecordOwner(p) \/ Leaves(p) \/ Refused(p) \/ RunnerFails(p) \/ Dies(p)
    <3>1. Exits(p) \/ At(p, "checked") \/ At(p, "loop")
      BY <2>1 DEF CheckOwner, RecordOwner, Leaves, Refused, RunnerFails, Dies
    <3> QED  BY <1>0, <1>1, <3>1, DriveWrites DEF DrivePc
  <2>2. CASE StartsAgent(p)
    <3> DEFINE x == [drive[p] EXCEPT !.pc = "agent", !.saw = task[r].status]
    <3>1. task[r].status \in {"work", "in_review"}
      BY <2>2 DEF StartsAgent, Pending, r
    <3>2. x \in DriveRow /\ x.row = r
      BY <1>0, <3>1 DEF DriveRow, DrivePc, r
    <3>3. drive' = [drive EXCEPT ![p] = x]
      BY <1>0, <2>2 DEF StartsAgent, DriveRow, r
    <3> HIDE DEF x
    <3> QED  BY <1>0, <1>1, <3>2, <3>3, DriveWritten
  <2>3. CASE Submits(p)
    <3> DEFINE x == [drive[p] EXCEPT !.pc = "close", !.saw = "none"]
               y == [drive[p] EXCEPT !.pc = "close", !.saw = "none", !.wrapped = TRUE]
    <3>1. x \in DriveRow /\ x.row = r /\ y \in DriveRow /\ y.row = r
      BY <1>0 DEF DriveRow, DrivePc, r
    <3>2. drive' \in {[drive EXCEPT ![p] = x], [drive EXCEPT ![p] = y]}
      BY <1>0, <2>3 DEF Submits, DriveRow, r
    <3> HIDE DEF x, y
    <3> QED  BY <1>0, <1>1, <3>1, <3>2, DriveWritten
  <2>4. CASE ClosesLock(p)
    <3> DEFINE x == [drive[p] EXCEPT !.pc = "loop", !.closed = @ \/ ~Pending(r)]
    <3>0. (drive[p].closed \/ ~Pending(r)) \in BOOLEAN
      BY <1>0 DEF DriveRow
    <3>1. x \in DriveRow /\ x.row = r
      BY <1>0, <3>0 DEF DriveRow, DrivePc, r
    <3>2. drive' = [drive EXCEPT ![p] = x]
      BY <1>0, <2>4 DEF ClosesLock, DriveRow, r
    <3> HIDE DEF x
    <3> QED  BY <1>0, <1>1, <3>1, <3>2, DriveWritten
  <2> QED  BY <2>1, <2>2, <2>3, <2>4 DEF DriveStep
<1> QED  BY <1>3, <1>6, <1>7, <1>8, <1>9 DEF Typed

LEMMA PeopleTyped ==
    ASSUME Typed, NEW r \in Row, People(r) \/ Time(r)
    PROVE  Typed'
<1>0. /\ TasksTyped /\ LocksTyped /\ DrivesTyped /\ DaemonTyped /\ RestTyped
      /\ task \in [Row -> TaskRow] /\ marker \in [Row -> BOOLEAN] /\ excused \in BOOLEAN
  BY DEF Typed, TasksTyped, RestTyped
<1>1. daemon' = daemon /\ excused' = excused
  BY DEF People, Time, Resume, Revise, Approve, Reject, Amend, Accept, DriveByHand, BeatAges,
         MarkerAges, LockAges, StartAges, VerdictAges
<1>2. DaemonTyped'
  BY <1>0, <1>1 DEF DaemonTyped
<1>3. RestTyped'
  BY <1>0, <1>1 DEF RestTyped, People, Time, Resume, Revise, Approve, Reject, Amend, Accept,
         DriveByHand, BeatAges, MarkerAges, LockAges, StartAges, VerdictAges
<1>4. TasksTyped'
  <2>1. \A x \in TaskRow : [task EXCEPT ![r] = x] \in [Row -> TaskRow]
    BY <1>0
  <2>2. task[r] \in TaskRow
    BY <1>0
  <2>3. CASE Resume(r)
    <3>1. [task[r] EXCEPT !.status = "work", !.pid = None, !.starting = FALSE] \in TaskRow
      BY <2>2 DEF TaskRow, Status
    <3>2. task' = [task EXCEPT ![r] = [task[r] EXCEPT !.status = "work", !.pid = None, !.starting = FALSE]]
      BY <1>0, <2>3 DEF Resume, TaskRow
    <3> QED  BY <2>1, <3>1, <3>2 DEF TasksTyped
  <2>4. CASE Revise(r)
    <3>1. [task[r] EXCEPT !.status = "work", !.review = "recent", !.wrapped = FALSE] \in TaskRow
      BY <2>2 DEF TaskRow, Status
    <3>2. task' = [task EXCEPT ![r] = [task[r] EXCEPT !.status = "work", !.review = "recent", !.wrapped = FALSE]]
      BY <1>0, <2>4 DEF Revise, TaskRow
    <3> QED  BY <2>1, <3>1, <3>2 DEF TasksTyped
  <2>5. CASE Reject(r) \/ Accept(r)
    <3>1. \A s \in {"rejected", "accepted"} :
            [task[r] EXCEPT !.status = s, !.review = "none"] \in TaskRow
      BY <2>2 DEF TaskRow, Status
    <3>2. \E s \in {"rejected", "accepted"} :
            task' = [task EXCEPT ![r] = [task[r] EXCEPT !.status = s, !.review = "none"]]
      BY <1>0, <2>5 DEF Reject, Accept, TaskRow
    <3> QED  BY <2>1, <3>1, <3>2 DEF TasksTyped
  <2>6. CASE Amend(r)
    <3>1. [task[r] EXCEPT !.status = "work", !.wrapped = FALSE] \in TaskRow
      BY <2>2 DEF TaskRow, Status
    <3>2. task' = [task EXCEPT ![r] = [task[r] EXCEPT !.status = "work", !.wrapped = FALSE]]
      BY <1>0, <2>6 DEF Amend, TaskRow
    <3> QED  BY <2>1, <3>1, <3>2 DEF TasksTyped
  <2>7. CASE Approve(r) \/ VerdictAges(r) \/ StartAges(r)
    <3>1. /\ \A v \in {"none", "recent"} : [task EXCEPT ![r].review = v] \in [Row -> TaskRow]
          /\ [task EXCEPT ![r].starting = FALSE] \in [Row -> TaskRow]
      BY <1>0, TaskWrites
    <3> QED  BY <2>7, <3>1 DEF Approve, VerdictAges, StartAges, TasksTyped
  <2>8. CASE DriveByHand(r) \/ BeatAges(r) \/ MarkerAges(r) \/ LockAges(r)
    BY <1>0, <2>8 DEF DriveByHand, BeatAges, MarkerAges, LockAges, TasksTyped
  <2> QED  BY <2>3, <2>4, <2>5, <2>6, <2>7, <2>8 DEF People, Time
<1>5. LocksTyped'
  <2>1. CASE Resume(r) \/ BeatAges(r) \/ LockAges(r)
    <3>1. CASE Resume(r)
      BY <1>0, <3>1, LockWrites DEF Resume, LocksTyped
    <3>2. CASE BeatAges(r)
      BY <1>0, <3>2, LockWrites DEF BeatAges, LocksTyped
    <3>3. CASE LockAges(r)
      <4>1. lock[r].age < 2 /\ lock' = [lock EXCEPT ![r].age = @ + 1]
        BY <3>3 DEF LockAges
      <4>2. lock[r].age < 2 => [lock EXCEPT ![r].age = @ + 1] \in [Row -> LockRow]
        BY <1>0, LockWrites
      <4> QED  BY <4>1, <4>2 DEF LocksTyped
    <3> QED  BY <2>1, <3>1, <3>2, <3>3
  <2>2. CASE ~Resume(r) /\ ~BeatAges(r) /\ ~LockAges(r)
    <3>1. lock' = lock
      BY <2>2 DEF People, Time, Revise, Approve, Reject, Amend, Accept, DriveByHand, MarkerAges,
                  StartAges, VerdictAges
    <3> QED  BY <1>0, <3>1 DEF LocksTyped
  <2> QED  BY <2>1, <2>2
<1>6. DrivesTyped'
  <2>1. CASE DriveByHand(r)
    BY <1>0, <2>1, DriveWrites DEF DriveByHand, DrivePc
  <2>2. CASE Resume(r)
    <3>1. CASE Pid = {}
      BY <1>0, <2>2, <3>1 DEF Resume, Disown, DrivesTyped
    <3> QED  BY <1>0, <2>2, <3>1, DriveWrites DEF Resume
  <2>3. CASE ~DriveByHand(r) /\ ~Resume(r)
    <3>1. drive' = drive
      BY <2>3 DEF People, Time, Revise, Approve, Reject, Amend, Accept, BeatAges, MarkerAges,
                  LockAges, StartAges, VerdictAges
    <3> QED  BY <1>0, <3>1 DEF DrivesTyped
  <2> QED  BY <2>1, <2>2, <2>3
<1> QED  BY <1>2, <1>3, <1>4, <1>5, <1>6 DEF Typed

LEMMA DaemonSteps ==
    ASSUME Typed, DaemonStep \/ Crash \/ Boot \/ \E r \in Row : CrashInRedrive(r)
    PROVE  DaemonTyped'
<1>0. /\ TasksTyped /\ DaemonTyped /\ daemon \in DaemonRow /\ daemon.launch \in LaunchRow
      /\ daemon.todo \subseteq Row
  BY DEF Typed, DaemonTyped, DaemonRow
<1>1. CASE RunSkips \/ RunRecords
  <2>1. /\ daemon' = [daemon EXCEPT !.pc = "result"] /\ daemon.pc \in Launching
    BY <1>1 DEF RunSkips, RunRecords, Launching
  <2>2. daemon' \in DaemonRow /\ daemon'.pc = "result" /\ daemon'.launch = daemon.launch
    BY <1>0, <2>1 DEF DaemonRow, Launching
  <2> QED  BY <1>0, <2>1, <2>2 DEF DaemonTyped, Launching
<1>2. CASE RunSpawns
  <2> PICK p \in Pid : daemon' = [daemon EXCEPT !.pc = "record", !.launch.child = p]
    BY <1>2 DEF RunSpawns
  <2> DEFINE l == [daemon.launch EXCEPT !.child = p]
  <2>1. l \in LaunchRow /\ l.row = daemon.launch.row /\ l.pass = daemon.launch.pass /\ l.child = p
    BY <1>0 DEF LaunchRow
  <2>2. daemon' = [daemon EXCEPT !.pc = "record", !.launch = l]
    BY <1>0 DEF DaemonRow
  <2> HIDE DEF l
  <2>3. daemon' \in DaemonRow /\ daemon'.pc = "record" /\ daemon'.launch = l
    BY <1>0, <2>1, <2>2 DEF DaemonRow, Launching
  <2> QED  BY <1>0, <1>2, <2>1, <2>3 DEF DaemonTyped, Launching, RunSpawns
<1>3. CASE RunResult
  <2> DEFINE l == daemon.launch
             h == IF l.pass = "sweep" \/ l.child # None
                  THEN daemon.handled \cup {l.row} ELSE daemon.handled
  <2>1. l.row \in Row /\ l.pass \in {"forward", "sweep", "handoff"}
    BY <1>0, <1>3 DEF RunResult, DaemonTyped, Launching, LaunchRow
  <2>2. daemon' = [daemon EXCEPT !.pc = l.pass, !.launch = NoLaunch, !.handled = h]
    BY <1>3 DEF RunResult
  <2>3. NoLaunch \in LaunchRow /\ NoLaunch.row = None
    BY DEF NoLaunch, LaunchRow
  <2>4. h \subseteq Row
    BY <1>0, <2>1 DEF DaemonRow
  <2> HIDE DEF h
  <2>5. daemon' \in DaemonRow /\ daemon'.pc = l.pass /\ daemon'.launch = NoLaunch
    BY <1>0, <2>1, <2>2, <2>3, <2>4 DEF DaemonRow, Passes
  <2> QED  BY <2>1, <2>3, <2>5 DEF DaemonTyped, Launching
<1>4. CASE NextPass
  <2>1. Pass(After(daemon.pc)) \subseteq Row /\ After(daemon.pc) \in Passes
        /\ daemon.pc \in Passes
    BY <1>4 DEF NextPass, Pass, After, Passes, Zombies, Actionable
  <2> DEFINE q == After(daemon.pc)
             w == Pass(After(daemon.pc))
             h == IF daemon.pc = "runner" THEN {} ELSE daemon.handled
  <2>2. daemon' = [daemon EXCEPT !.pc = q, !.todo = w, !.handled = h]
    BY <1>4 DEF NextPass
  <2>3. h \subseteq Row
    BY <1>0 DEF DaemonRow
  <2> HIDE DEF q, w, h
  <2>4. q \in Passes /\ w \subseteq Row
    BY <2>1 DEF q, w
  <2>5. daemon' \in DaemonRow /\ daemon'.pc \in Passes /\ daemon'.launch = daemon.launch
    BY <1>0, <2>2, <2>3, <2>4 DEF DaemonRow
  <2> QED  BY <1>0, <2>1, <2>5 DEF DaemonTyped, Launching, Passes
<1>5. ASSUME NEW r \in Row, Claim(r) \/ Sweeps(r) \/ HandsOff(r) \/ Buries(r) \/ Redrives(r)
      PROVE  DaemonTyped'
  <2>1. daemon.pc \in Passes
    BY <1>5 DEF Claim, Sweeps, HandsOff, Buries, Redrives, Passes
  <2>2. \/ Passed(r) \/ Handled(r)
        \/ \E pass \in {"forward", "sweep", "handoff"} : Daemon("launch", Launch(r, pass))
    BY <1>5 DEF Claim, Sweeps, HandsOff, Buries, Redrives, GivesUp
  <2> QED  BY <1>0, <2>1, <2>2, DaemonWrites
<1>6. CASE Crash \/ \E r \in Row : CrashInRedrive(r)
  <2>1. daemon' = Off
    BY <1>6 DEF Crash, CrashInRedrive
  <2> QED  BY <2>1 DEF DaemonTyped, Off, NoLaunch, DaemonRow, LaunchRow, Launching
<1>7. CASE Boot
  <2>1. daemon' = [Off EXCEPT !.pc = "forward", !.todo = Row]
    BY <1>7 DEF Boot
  <2> QED  BY <2>1 DEF DaemonTyped, Off, NoLaunch, DaemonRow, LaunchRow, Launching, Passes
<1> QED  BY <1>1, <1>2, <1>3, <1>4, <1>5, <1>6, <1>7 DEF DaemonStep

LEMMA DaemonStepTyped ==
    ASSUME Typed, DaemonStep \/ Crash \/ Boot \/ \E r \in Row : CrashInRedrive(r)
    PROVE  Typed'
<1>0. /\ TasksTyped /\ LocksTyped /\ DrivesTyped /\ DaemonTyped /\ RestTyped
      /\ task \in [Row -> TaskRow] /\ lock \in [Row -> LockRow]
      /\ marker \in [Row -> BOOLEAN] /\ excused \in BOOLEAN
      /\ daemon.launch \in LaunchRow
      /\ daemon.pc \in Launching => daemon.launch.row \in Row
  BY DEF Typed, TasksTyped, LocksTyped, RestTyped, DaemonTyped, DaemonRow
<1>1. DaemonTyped'
  BY DaemonSteps
<1> DEFINE Rest == TasksTyped' /\ LocksTyped' /\ DrivesTyped' /\ RestTyped'
<1>2. SUFFICES Rest
  BY <1>1 DEF Typed
<1>3. \A r \in Row : [stint EXCEPT ![r] = "driven"] \in
             [Row -> {"add", "resume", "early", "revise", "amend", "driven"}]
  BY <1>0 DEF RestTyped
<1>4. \A r \in Row : Excuses(r) => excused' \in BOOLEAN
  BY <1>0 DEF Excuses
<1>5. CASE RunSkips \/ NextPass
  BY <1>0, <1>5 DEF RunSkips, NextPass, TasksTyped, LocksTyped, DrivesTyped, RestTyped
<1>6. CASE RunSpawns
  <2>1. daemon.launch.row \in Row
    BY <1>0, <1>6 DEF RunSpawns, Launching
  <2>2. DrivesTyped'
    BY <1>0, <1>6, <2>1, DriveWrites DEF RunSpawns, DrivePc
  <2>3. RestTyped'
    BY <1>0, <1>3, <1>4, <1>6, <2>1 DEF RunSpawns, RestTyped
  <2> QED  BY <1>0, <1>6, <2>2, <2>3 DEF RunSpawns, TasksTyped, LocksTyped
<1>7. CASE RunRecords
  <2>1. daemon.launch.row \in Row /\ daemon.launch.child \in Pid \cup {None}
    BY <1>0, <1>7 DEF RunRecords, Launching, LaunchRow
  <2>2. TasksTyped'
    BY <1>0, <1>7, <2>1, TaskWrites DEF RunRecords, TasksTyped
  <2> QED  BY <1>0, <1>7, <2>2 DEF RunRecords, LocksTyped, DrivesTyped, RestTyped
<1>8. CASE RunResult
  <2> DEFINE l == daemon.launch
  <2>1. l.row \in Row /\ l.child \in Pid \cup {None}
    BY <1>0, <1>8 DEF RunResult, Launching, LaunchRow
  <2>2. /\ \A p \in Pid \cup {None} : HandedOff(l.row, p) \in [Row -> LockRow]
        /\ \A s \in LockState : Ended(l.row, s) \in [Row -> LockRow]
    BY <1>0, <2>1, LockWrites
  <2>3. lock' \in {lock, HandedOff(l.row, l.child), Ended(l.row, "open"), Ended(l.row, "ok")}
    BY <1>8 DEF RunResult
  <2>4. LocksTyped'
    BY <1>0, <2>1, <2>2, <2>3 DEF LocksTyped, LockState
  <2> QED  BY <1>0, <1>8, <2>4 DEF RunResult, TasksTyped, DrivesTyped, RestTyped
<1>9. ASSUME NEW r \in Row, Claim(r) \/ HandsOff(r) PROVE Rest
  <2>1. LocksTyped'
    <3>1. [lock EXCEPT ![r] = [NoLock EXCEPT !.state = "open"]] \in [Row -> LockRow]
      BY <1>0, LockWrites
    <3> QED  BY <1>0, <1>9, <3>1 DEF Claim, HandsOff, LocksTyped
  <2> QED  BY <1>0, <1>9, <2>1 DEF Claim, HandsOff, TasksTyped, DrivesTyped, RestTyped
<1>10. ASSUME NEW r \in Row, Sweeps(r) \/ Buries(r) PROVE Rest
  <2>1. CASE GivesUp(r)
    <3>1. TasksTyped'
      BY <1>0, <2>1, TaskWrites DEF GivesUp, TasksTyped
    <3>2. LocksTyped'
      BY <1>0, <2>1, LockWrites DEF GivesUp, LocksTyped, LockState
    <3>3. DrivesTyped'
      <4>1. CASE Pid = {}
        BY <1>0, <2>1, <4>1 DEF GivesUp, Disown, DrivesTyped
      <4> QED  BY <1>0, <2>1, <4>1, DriveWrites DEF GivesUp
    <3>4. RestTyped'
      BY <1>0, <1>10 DEF Sweeps, Buries, RestTyped
    <3> QED  BY <3>1, <3>2, <3>3, <3>4
  <2>2. CASE UNCHANGED <<task, lock, drive>>
    BY <1>0, <1>10, <2>2 DEF Sweeps, Buries, TasksTyped, LocksTyped, DrivesTyped, RestTyped
  <2> QED  BY <1>10, <2>1, <2>2 DEF Sweeps, Buries
<1>11. ASSUME NEW r \in Row, Redrives(r) PROVE Rest
  <2>1. CASE UNCHANGED <<task, lock, drive, stint, excused>>
    BY <1>0, <1>11, <2>1 DEF Redrives, TasksTyped, LocksTyped, DrivesTyped, RestTyped
  <2>2. ASSUME NEW p \in Pid, NEW pc \in {"spawned", "checked"}, Spawned(p, r, pc),
               task' = Owner(r, p), lock' = HandedOff(r, p),
               stint' = [stint EXCEPT ![r] = "driven"], Excuses(r), marker' = marker
        PROVE  Rest
    <3>1. TasksTyped'
      BY <1>0, <2>2, TaskWrites DEF TasksTyped
    <3>2. LocksTyped'
      BY <1>0, <2>2, LockWrites DEF LocksTyped
    <3>3. DrivesTyped'
      BY <1>0, <2>2, DriveWrites DEF DrivePc
    <3>4. RestTyped'
      BY <1>0, <1>3, <1>4, <2>2 DEF RestTyped
    <3> QED  BY <3>1, <3>2, <3>3, <3>4
  <2> QED  BY <1>11, <2>1, <2>2 DEF Redrives
<1>12. CASE Crash
  <2>1. excused' \in BOOLEAN
    BY <1>0, <1>12 DEF Crash
  <2> QED  BY <1>0, <1>12, <2>1 DEF Crash, TasksTyped, LocksTyped, DrivesTyped, RestTyped
<1>13. ASSUME NEW r \in Row, CrashInRedrive(r) PROVE Rest
  <2>1. DrivesTyped'
    BY <1>0, <1>13, DriveWrites DEF CrashInRedrive, DrivePc
  <2>2. RestTyped'
    BY <1>0, <1>3, <1>13 DEF CrashInRedrive, RestTyped
  <2> QED  BY <1>0, <1>13, <2>1, <2>2 DEF CrashInRedrive, TasksTyped, LocksTyped
<1>14. CASE Boot
  <2>1. LocksTyped'
    <3>1. \A r \in Row : [lock[r] EXCEPT !.before = lock[r].state # "absent"] \in LockRow
      BY <1>0 DEF LockRow
    <3> QED  BY <1>14, <3>1 DEF Boot, LocksTyped
  <2> QED  BY <1>0, <1>14, <2>1 DEF Boot, TasksTyped, DrivesTyped, RestTyped
<1> QED
  BY <1>5, <1>6, <1>7, <1>8, <1>9, <1>10, <1>11, <1>12, <1>13, <1>14 DEF DaemonStep

LEMMA TypedStep == Typed /\ [Next]_vars => Typed'
<1>1. Typed /\ UNCHANGED vars => Typed'
  BY DEF vars, Typed, TasksTyped, LocksTyped, DrivesTyped, DaemonTyped, RestTyped
<1> QED  BY <1>1, DriveStepTyped, PeopleTyped, DaemonStepTyped DEF Next

-----------------------------------------------------------------------------
(***************************************************************************)
(* Who drives a row.  Until a start is excused: a drive that is looked     *)
(* after is the one on record; of the processes that start on a row there  *)
(* is one, and none drives beside one that found the row free; the daemon, *)
(* about to start a drive, has read of the one there is, or sees it start; *)
(* about to record one, it knows of no other.                              *)
(***************************************************************************)
Recorded == \A p \in Pid, r \in Row : Drives(p, r) => task[r].pid = p
OneStarts == \A p, q \in Pid, r \in Row : Starting(p, r) /\ Starting(q, r) => p = q
Checked(q, r) == drive[q].row = r /\ drive[q].pc = "checked"
CheckedAlone == \A p, q \in Pid, r \in Row : Checked(q, r) => ~Drives(p, r)

Shows(p, r) == drive[p].pc = "loop" \/ (drive[p].pc = "agent" /\ marker[r])
LaunchSees ==
    daemon.pc = "launch" =>
        \A p \in Pid : Drives(p, daemon.launch.row)
                       => daemon.launch.pid = p \/ Shows(p, daemon.launch.row)
RecordKnows ==
    daemon.pc = "record" =>
        \A p \in Pid : Drives(p, daemon.launch.row) \/ Starting(p, daemon.launch.row)
                       => p = daemon.launch.child

Single == Recorded /\ OneStarts /\ CheckedAlone /\ LaunchSees /\ RecordKnows
Watched == excused \/ Single

LEMMA WatchedStarts == Init => Watched
BY DEF Init, Watched, Single, Recorded, OneStarts, CheckedAlone, LaunchSees, RecordKnows, Drives,
       Starting, Checked, Dead, Off

\* A step after which no drive is new to its row, and the daemon has not gone
\* on, nor any record or marker changed that speaks of a drive.
LEMMA NothingNew ==
    ASSUME Single,
           \A p \in Pid, r \in Row :
              /\ Drives(p, r)' => Drives(p, r) /\ task'[r].pid = task[r].pid
              /\ Starting(p, r)' => Starting(p, r)
              /\ Checked(p, r)' => Checked(p, r),
           daemon'.pc \in {"launch", "record"}
             => /\ daemon'.pc = daemon.pc /\ daemon'.launch = daemon.launch
                /\ daemon.launch.row \in Row,
           \A p \in Pid : daemon'.pc = "launch" /\ Drives(p, daemon.launch.row)'
                            /\ Shows(p, daemon.launch.row)
                              => Shows(p, daemon.launch.row)'
    PROVE  Single'
<1>1. Recorded'
  BY DEF Single, Recorded
<1>2. OneStarts' /\ CheckedAlone'
  BY DEF Single, OneStarts, CheckedAlone
<1>3. LaunchSees'
  BY DEF Single, LaunchSees
<1>4. RecordKnows'
  BY DEF Single, RecordKnows
<1> QED  BY <1>1, <1>2, <1>3, <1>4 DEF Single

LEMMA TypedFacts ==
    ASSUME Typed
    PROVE  /\ task \in [Row -> TaskRow] /\ drive \in [Pid -> DriveRow]
           /\ \A p \in Pid : drive[p].pc # "dead" => drive[p].row \in Row
           /\ \A p \in Pid : p # None /\ (Alive(p) <=> drive[p].pc # "dead")
           /\ marker \in [Row -> BOOLEAN] /\ daemon \in DaemonRow /\ daemon.launch \in LaunchRow
           /\ daemon.pc \in {"launch", "record"} => daemon.launch.row \in Row
           /\ \A r \in Row : r # None
BY AutoDriveAssumption
DEF Typed, TasksTyped, DrivesTyped, RestTyped, DaemonTyped, DaemonRow, Launching, Alive

\* The same, for a step of one process that stays on its row.
LEMMA OneGoesOn ==
    ASSUME Typed, Single, daemon' = daemon, NEW p \in Pid, drive[p].pc # "dead",
           \A q \in Pid \ {p} : drive'[q] = drive[q],
           \A r \in Row : task'[r].pid = task[r].pid,
           \A q \in Pid \ {p}, r \in Row : drive[q].row = r /\ Shows(q, r) => Shows(q, r)',
           \/ drive'[p].pc = "dead"
           \/ /\ drive'[p].row = drive[p].row /\ drive'[p].disowned = drive[p].disowned
              /\ {drive[p].pc, drive'[p].pc} \subseteq {"loop", "agent", "close"}
              /\ Shows(p, drive[p].row)' \/ daemon.launch.row # drive[p].row
    PROVE  Single'
<1>1. \A q \in Pid \ {p}, r \in Row :
        /\ Drives(q, r)' <=> Drives(q, r)
        /\ Starting(q, r)' <=> Starting(q, r)
        /\ Checked(q, r)' <=> Checked(q, r)
  BY DEF Drives, Starting, Checked
<1>2. \A r \in Row : /\ Drives(p, r)' => Drives(p, r)
                      /\ ~Starting(p, r)' /\ ~Checked(p, r)'
  BY DEF Drives, Starting, Checked
<1>3. \A r \in Row : Drives(p, r)' => r = drive[p].row
  BY <1>2 DEF Drives
<1>4. daemon.pc \in {"launch", "record"} => daemon.launch.row \in Row
  BY TypedFacts
<1>5. ASSUME NEW q \in Pid, daemon'.pc = "launch", Drives(q, daemon.launch.row)',
             Shows(q, daemon.launch.row)
      PROVE  Shows(q, daemon.launch.row)'
  <2>1. daemon.launch.row \in Row /\ daemon'.launch.row = daemon.launch.row
    BY <1>4, <1>5
  <2>2. CASE q # p
    <3>1. drive[q].row = daemon.launch.row
      BY <1>1, <1>5, <2>1, <2>2 DEF Drives
    <3> QED  BY <1>5, <2>1, <2>2, <3>1
  <2>3. CASE q = p
    <3>1. daemon.launch.row = drive[p].row /\ drive'[p].pc # "dead"
      BY <1>3, <1>5, <2>1, <2>3 DEF Drives
    <3>2. Shows(p, drive[p].row)'
      BY <3>1
    <3>3. drive'[p].row = drive[p].row
      BY <3>1
    <3> QED  BY <2>1, <2>3, <3>1, <3>2, <3>3 DEF Shows
  <2> QED  BY <2>2, <2>3
<1>6. \A q \in Pid, r \in Row :
        /\ Drives(q, r)' => Drives(q, r) /\ task'[r].pid = task[r].pid
        /\ Starting(q, r)' => Starting(q, r)
        /\ Checked(q, r)' => Checked(q, r)
  <2> TAKE q \in Pid, r \in Row
  <2>1. CASE q # p
    BY <1>1, <2>1
  <2>2. CASE q = p
    BY <1>2, <2>2 DEF Drives, Starting, Checked
  <2> QED  BY <2>1, <2>2
<1> QED  BY <1>4, <1>5, <1>6, NothingNew

\* An agent's exit takes its own marker away, and no other's.
LEMMA UnmarksOwn ==
    ASSUME Typed, NEW p \in Pid, Unmarks(p), \A q \in Pid \ {p} : drive'[q] = drive[q],
           NEW q \in Pid \ {p}, NEW r \in Row, Shows(q, r), drive[q].row = r
    PROVE  Shows(q, r)'
<1>1. marker \in [Row -> BOOLEAN]
  BY TypedFacts
<1>2. CASE drive[q].pc = "loop"
  BY <1>2 DEF Shows
<1>3. CASE drive[q].pc = "agent" /\ drive[p].row = r
  BY <1>1, <1>3 DEF Shows, Unmarks
<1>4. CASE drive[q].pc = "agent" /\ drive[p].row # r
  BY <1>1, <1>4 DEF Shows, Unmarks
<1> QED  BY <1>2, <1>3, <1>4 DEF Shows

LEMMA Leaving ==
    ASSUME Typed, Single, NEW p \in Pid, drive[p].pc # "dead", Exits(p), daemon' = daemon,
           \A r \in Row : task'[r].pid = task[r].pid, marker' = marker \/ Unmarks(p)
    PROVE  Single'
<1>1. drive'[p].pc = "dead" /\ \A q \in Pid \ {p} : drive'[q] = drive[q]
  BY TypedFacts DEF Exits, Dead
<1>2. \A q \in Pid \ {p}, r \in Row : drive[q].row = r /\ Shows(q, r) => Shows(q, r)'
  <2>1. CASE marker' = marker
    BY <1>1, <2>1 DEF Shows
  <2>2. CASE Unmarks(p)
    BY <1>1, <2>2, UnmarksOwn
  <2> QED  BY <2>1, <2>2
<1> QED  BY <1>1, <1>2, OneGoesOn

\* Of those that found the row free, the one that records itself is alone.
LEMMA RecordsItself ==
    ASSUME Typed, Single, NEW p \in Pid, RecordOwner(p)
    PROVE  Single'
<1> DEFINE r == drive[p].row
<1>0. /\ task \in [Row -> TaskRow] /\ drive \in [Pid -> DriveRow] /\ r \in Row
      /\ daemon' = daemon /\ drive[p].pc = "checked" /\ marker' = marker
      /\ daemon.pc \in {"launch", "record"} => daemon.launch.row \in Row
  BY TypedFacts DEF RecordOwner
<1>1. /\ task'[r].pid = p /\ \A s \in Row \ {r} : task'[s].pid = task[s].pid
      /\ drive'[p] = [drive[p] EXCEPT !.pc = "loop"]
      /\ \A q \in Pid \ {p} : drive'[q] = drive[q]
  BY <1>0 DEF RecordOwner, Owner, At, TaskRow
<1>2. drive'[p].pc = "loop" /\ drive'[p].row = r /\ drive'[p].disowned = drive[p].disowned
  BY <1>0, <1>1 DEF DriveRow
<1> HIDE DEF r
<1>3. \A q \in Pid : ~Drives(q, r) /\ (Starting(q, r) => q = p) /\ Starting(p, r)
  BY <1>0 DEF Single, CheckedAlone, OneStarts, Checked, Starting, r
<1>4. \A q \in Pid \ {p}, s \in Row :
        /\ Drives(q, s)' <=> Drives(q, s)
        /\ Starting(q, s)' <=> Starting(q, s)
        /\ Checked(q, s)' <=> Checked(q, s)
        /\ Shows(q, s)' <=> Shows(q, s)
  BY <1>0, <1>1 DEF Drives, Starting, Checked, Shows
<1>5. \A s \in Row : /\ Drives(p, s)' => s = r
                      /\ ~Starting(p, s)' /\ ~Checked(p, s)' /\ Shows(p, s)'
  BY <1>2 DEF Drives, Starting, Checked, Shows
<1>6. Recorded'
  <2> SUFFICES ASSUME NEW q \in Pid, NEW s \in Row, Drives(q, s)' PROVE task'[s].pid = q
    BY DEF Recorded
  <2>1. CASE q = p
    <3>1. s = r
      BY <1>5, <2>1
    <3> QED  BY <1>1, <2>1, <3>1
  <2>2. CASE q # p
    <3>1. Drives(q, s) /\ s # r
      BY <1>3, <1>4, <2>2
    <3> QED  BY <1>1, <3>1 DEF Single, Recorded
  <2> QED  BY <2>1, <2>2
<1>7. OneStarts'
  <2> SUFFICES ASSUME NEW x \in Pid, NEW y \in Pid, NEW s \in Row, Starting(x, s)', Starting(y, s)'
               PROVE  x = y
    BY DEF OneStarts
  <2>1. x # p /\ y # p
    BY <1>2 DEF Starting
  <2> QED  BY <1>4, <2>1 DEF Single, OneStarts
<1>8. CheckedAlone'
  <2> SUFFICES ASSUME NEW x \in Pid, NEW y \in Pid, NEW s \in Row, Checked(y, s)', Drives(x, s)'
               PROVE  FALSE
    BY DEF CheckedAlone
  <2>1. y # p
    BY <1>2 DEF Checked
  <2>2. Checked(y, s) /\ Starting(y, s)
    BY <1>4, <2>1 DEF Checked, Starting
  <2>3. CASE x = p
    <3>1. s = r
      BY <1>5, <2>3
    <3> QED  BY <1>3, <2>1, <2>2, <3>1
  <2>4. CASE x # p
    BY <1>4, <2>2, <2>4 DEF Single, CheckedAlone
  <2> QED  BY <2>3, <2>4
<1>9. LaunchSees'
  <2> SUFFICES ASSUME daemon.pc = "launch", NEW q \in Pid, Drives(q, daemon.launch.row)'
               PROVE  daemon.launch.pid = q \/ Shows(q, daemon.launch.row)'
    BY <1>0 DEF LaunchSees
  <2>1. daemon.launch.row \in Row
    BY <1>0
  <2>2. CASE q = p
    BY <1>2, <2>2 DEF Shows
  <2>3. CASE q # p
    <3>1. Drives(q, daemon.launch.row)
      BY <1>0, <1>1, <2>3 DEF Drives
    <3>2. daemon.launch.pid = q \/ Shows(q, daemon.launch.row)
      BY <3>1 DEF Single, LaunchSees
    <3> QED  BY <1>0, <1>1, <2>3, <3>2 DEF Shows
  <2> QED  BY <2>2, <2>3
<1>10. RecordKnows'
  <2> SUFFICES ASSUME daemon.pc = "record", NEW q \in Pid,
                      Drives(q, daemon.launch.row)' \/ Starting(q, daemon.launch.row)'
               PROVE  q = daemon.launch.child
    BY <1>0 DEF RecordKnows
  <2>1. daemon.launch.row \in Row
    BY <1>0
  <2>2. CASE q = p
    <3>1. drive[p].row = daemon.launch.row
      BY <1>0, <1>2, <2>2 DEF Drives, Starting, r
    <3>2. Starting(p, daemon.launch.row)
      BY <1>0, <3>1 DEF Starting
    <3> QED  BY <2>2, <3>2 DEF Single, RecordKnows
  <2>3. CASE q # p
    <3>1. Drives(q, daemon.launch.row) \/ Starting(q, daemon.launch.row)
      BY <1>0, <1>1, <2>3 DEF Drives, Starting
    <3> QED  BY <3>1 DEF Single, RecordKnows
  <2> QED  BY <2>2, <2>3
<1> QED  BY <1>6, <1>7, <1>8, <1>9, <1>10 DEF Single

\* Who finds no live owner on record, drives beside nobody that is looked after.
LEMMA ChecksOwner ==
    ASSUME Typed, Single, NEW p \in Pid, CheckOwner(p), ~excused'
    PROVE  Single'
<1> DEFINE r == drive[p].row
<1>0. /\ task \in [Row -> TaskRow] /\ drive \in [Pid -> DriveRow] /\ r \in Row
      /\ daemon' = daemon /\ drive[p].pc = "spawned" /\ marker' = marker /\ task' = task
      /\ daemon.pc \in {"launch", "record"} => daemon.launch.row \in Row
  BY TypedFacts DEF CheckOwner
<1>1. CASE OtherOwner(p, r)
  BY <1>0, <1>1, Leaving DEF CheckOwner
<1>2. CASE ~OtherOwner(p, r)
  <2>1. /\ drive'[p] = [drive[p] EXCEPT !.pc = "checked"]
        /\ \A q \in Pid \ {p} : drive'[q] = drive[q]
        /\ \A q \in Pid \ {p} : ~Starting(q, r)
    BY <1>0, <1>2 DEF CheckOwner, At
  <2>2. drive'[p].pc = "checked" /\ drive'[p].row = r
    BY <1>0, <2>1 DEF DriveRow
  <2> HIDE DEF r
  <2>3. \A q \in Pid : ~Drives(q, r)
    <3> SUFFICES ASSUME NEW q \in Pid, Drives(q, r) PROVE FALSE
      OBVIOUS
    <3>1. q # p /\ Alive(q) /\ task[r].pid = q
      BY <1>0, TypedFacts DEF Drives, Single, Recorded, r
    <3> QED  BY <1>2, <3>1 DEF OtherOwner
  <2>4. \A q \in Pid, s \in Row :
          /\ Drives(q, s)' <=> Drives(q, s)
          /\ Starting(q, s)' <=> Starting(q, s)
          /\ Shows(q, s)' <=> Shows(q, s)
    <3> TAKE q \in Pid, s \in Row
    <3>1. CASE q = p
      BY <1>0, <2>2, <3>1 DEF Drives, Starting, Shows, r
    <3>2. CASE q # p
      BY <1>0, <2>1, <3>2 DEF Drives, Starting, Shows
    <3> QED  BY <3>1, <3>2
  <2>5. Recorded' /\ OneStarts'
    BY <1>0, <2>4 DEF Single, Recorded, OneStarts
  <2>6. CheckedAlone'
    <3> SUFFICES ASSUME NEW x \in Pid, NEW y \in Pid, NEW s \in Row, Checked(y, s)', Drives(x, s)'
                 PROVE  FALSE
      BY DEF CheckedAlone
    <3>1. CASE y = p
      <4>1. s = r
        BY <2>2, <3>1 DEF Checked
      <4> QED  BY <2>3, <2>4, <4>1
    <3>2. CASE y # p
      <4>1. Checked(y, s)
        BY <2>1, <3>2 DEF Checked
      <4> QED  BY <2>4, <4>1 DEF Single, CheckedAlone
    <3> QED  BY <3>1, <3>2
  <2>7. LaunchSees'
    <3> SUFFICES ASSUME daemon.pc = "launch", NEW q \in Pid, Drives(q, daemon.launch.row)'
                 PROVE  daemon.launch.pid = q \/ Shows(q, daemon.launch.row)'
      BY <1>0 DEF LaunchSees
    <3> DEFINE s == daemon.launch.row
    <3>1. q # p
      BY <2>2 DEF Drives
    <3>2. Drives(q, s)
      BY <1>0, <2>1, <3>1 DEF Drives
    <3>3. daemon.launch.pid = q \/ Shows(q, s)
      BY <3>2 DEF Single, LaunchSees
    <3> QED  BY <1>0, <2>1, <3>1, <3>3 DEF Shows
  <2>8. RecordKnows'
    <3> SUFFICES ASSUME daemon.pc = "record", NEW q \in Pid,
                        Drives(q, daemon.launch.row)' \/ Starting(q, daemon.launch.row)'
                 PROVE  q = daemon.launch.child
      BY <1>0 DEF RecordKnows
    <3>1. Drives(q, daemon.launch.row) \/ Starting(q, daemon.launch.row)
      <4>1. CASE q = p
        BY <1>0, <2>2, <4>1 DEF Drives, Starting, r
      <4>2. CASE q # p
        BY <1>0, <2>1, <4>2 DEF Drives, Starting
      <4> QED  BY <4>1, <4>2
    <3> QED  BY <3>1 DEF Single, RecordKnows
  <2> QED  BY <2>5, <2>6, <2>7, <2>8 DEF Single
<1> QED  BY <1>1, <1>2

LEMMA DrivesAlone ==
    ASSUME Typed, Single, NEW p \in Pid, DriveStep(p) \/ Dies(p), ~excused'
    PROVE  Single'
<1> DEFINE r == drive[p].row
<1>0. /\ task \in [Row -> TaskRow] /\ drive \in [Pid -> DriveRow] /\ marker \in [Row -> BOOLEAN]
      /\ \A q \in Pid : drive[q].pc # "dead" => drive[q].row \in Row
  BY TypedFacts
<1>1. CASE CheckOwner(p)
  BY <1>1, ChecksOwner
<1>2. CASE RecordOwner(p)
  BY <1>2, RecordsItself
<1>3. CASE Leaves(p) \/ Refused(p) \/ Dies(p)
  BY <1>3, Leaving, TypedFacts DEF Leaves, Refused, Dies
<1>4. CASE RunnerFails(p)
  <2>1. \A s \in Row : task'[s].pid = task[s].pid
    BY <1>0, <1>4 DEF RunnerFails, Blocked, TaskRow
  <2> QED  BY <1>4, <2>1, Leaving DEF RunnerFails
<1>5. CASE StartsAgent(p)
  <2>1. /\ drive'[p].pc = "agent" /\ drive'[p].row = r /\ drive'[p].disowned = drive[p].disowned
        /\ \A q \in Pid \ {p} : drive'[q] = drive[q]
    BY <1>0, <1>5 DEF StartsAgent, DriveRow
  <2>2. drive[p].pc = "loop" /\ r \in Row /\ task' = task /\ daemon' = daemon
    BY <1>0, <1>5 DEF StartsAgent
  <2>3. marker'[r] /\ \A s \in Row : marker[s] => marker'[s]
    BY <1>0, <1>5, <2>2 DEF StartsAgent
  <2>4. \A q \in Pid \ {p}, s \in Row : drive[q].row = s /\ Shows(q, s) => Shows(q, s)'
    BY <2>1, <2>3 DEF Shows
  <2>5. Shows(p, drive[p].row)'
    BY <2>1, <2>3 DEF Shows
  <2> QED  BY <2>1, <2>2, <2>4, <2>5, OneGoesOn
<1>6. CASE Submits(p)
  <2>1. /\ drive'[p].pc = "close" /\ drive'[p].row = r /\ drive'[p].disowned = drive[p].disowned
        /\ \A q \in Pid \ {p} : drive'[q] = drive[q]
    BY <1>0, <1>6 DEF Submits, DriveRow
  <2>2. drive[p].pc = "agent" /\ r \in Row /\ daemon' = daemon /\ daemon.launch.row # r
    BY <1>0, <1>6 DEF Submits
  <2>3. \A s \in Row : task'[s].pid = task[s].pid
    BY <1>0, <1>6, <2>2 DEF Submits, Blocked, TaskRow
  <2>4. \A q \in Pid \ {p}, s \in Row : drive[q].row = s /\ Shows(q, s) => Shows(q, s)'
    BY <1>6, <2>1, UnmarksOwn DEF Submits
  <2> QED  BY <2>1, <2>2, <2>3, <2>4, OneGoesOn
<1>7. CASE ClosesLock(p)
  <2>1. /\ drive'[p].pc = "loop" /\ drive'[p].row = r /\ drive'[p].disowned = drive[p].disowned
        /\ \A q \in Pid \ {p} : drive'[q] = drive[q]
    BY <1>0, <1>7 DEF ClosesLock, DriveRow
  <2>2. /\ drive[p].pc = "close" /\ r \in Row /\ task' = task /\ daemon' = daemon
        /\ marker' = marker
    BY <1>0, <1>7 DEF ClosesLock
  <2>3. \A q \in Pid \ {p}, s \in Row : drive[q].row = s /\ Shows(q, s) => Shows(q, s)'
    BY <2>1, <2>2 DEF Shows
  <2>4. Shows(p, drive[p].row)'
    BY <2>1 DEF Shows
  <2> QED  BY <2>1, <2>2, <2>3, <2>4, OneGoesOn
<1> QED  BY <1>1, <1>2, <1>3, <1>4, <1>5, <1>6, <1>7 DEF DriveStep

\* A drive that starts on a row where nobody else starts, and that was found
\* free if it is not to look itself.
LEMMA Spawning ==
    ASSUME Typed, Single, NEW p \in Pid, NEW r \in Row, NEW pc \in {"spawned", "checked"},
           Free(p), Spawned(p, r, pc), marker' = marker,
           \A q \in Pid : ~Starting(q, r),
           \A s \in Row \ {r} : task'[s].pid = task[s].pid,
           task'[r].pid = task[r].pid \/ \A q \in Pid : ~Drives(q, r),
           pc = "spawned" \/ \A q \in Pid : ~Drives(q, r),
           \/ daemon'.pc \in {"launch", "record"} => daemon' = daemon /\ daemon.launch.row # r
           \/ /\ daemon'.pc = "record" /\ daemon'.launch.row = r /\ daemon'.launch.child = p
              /\ \A q \in Pid : ~Drives(q, r)
    PROVE  Single'
<1>0. /\ drive \in [Pid -> DriveRow] /\ drive[p].pc = "dead"
      /\ daemon.pc \in {"launch", "record"} => daemon.launch.row \in Row
  BY TypedFacts DEF Free
<1>1. /\ drive'[p].pc = pc /\ drive'[p].row = r
      /\ \A q \in Pid \ {p} : drive'[q] = drive[q]
  BY <1>0 DEF Spawned, Dead, DriveRow
<1>2. \A q \in Pid, s \in Row : /\ Drives(q, s)' <=> Drives(q, s)
                                /\ Shows(q, s)' <=> Shows(q, s)
  <2> TAKE q \in Pid, s \in Row
  <2>1. CASE q = p
    BY <1>0, <1>1, <2>1 DEF Drives, Shows
  <2>2. CASE q # p
    BY <1>1, <2>2 DEF Drives, Shows
  <2> QED  BY <2>1, <2>2
<1>3. \A q \in Pid, s \in Row : Starting(q, s)' <=> (IF q = p THEN s = r ELSE Starting(q, s))
  BY <1>1 DEF Starting
<1>4. \A q \in Pid, s \in Row :
        Checked(q, s)' <=> (IF q = p THEN s = r /\ pc = "checked" ELSE Checked(q, s))
  BY <1>1 DEF Checked
<1>5. Recorded'
  <2> SUFFICES ASSUME NEW q \in Pid, NEW s \in Row, Drives(q, s)' PROVE task'[s].pid = q
    BY DEF Recorded
  <2>1. Drives(q, s) /\ task[s].pid = q
    BY <1>2 DEF Single, Recorded
  <2>2. CASE s = r
    BY <2>1, <2>2
  <2>3. CASE s # r
    BY <2>1, <2>3
  <2> QED  BY <2>2, <2>3
<1>6. OneStarts'
  <2> SUFFICES ASSUME NEW x \in Pid, NEW y \in Pid, NEW s \in Row, Starting(x, s)', Starting(y, s)'
               PROVE  x = y
    BY DEF OneStarts
  <2>1. CASE s = r
    BY <1>3, <2>1
  <2>2. CASE s # r
    BY <1>3, <2>2 DEF Single, OneStarts
  <2> QED  BY <2>1, <2>2
<1>7. CheckedAlone'
  <2> SUFFICES ASSUME NEW x \in Pid, NEW y \in Pid, NEW s \in Row, Checked(y, s)', Drives(x, s)'
               PROVE  FALSE
    BY DEF CheckedAlone
  <2>1. Drives(x, s)
    BY <1>2
  <2>2. CASE y = p
    BY <1>4, <2>1, <2>2
  <2>3. CASE y # p
    BY <1>4, <2>1, <2>3 DEF Single, CheckedAlone
  <2> QED  BY <2>2, <2>3
<1>8. CASE daemon'.pc \in {"launch", "record"} => daemon' = daemon /\ daemon.launch.row # r
  <2>1. LaunchSees'
    <3> SUFFICES ASSUME daemon'.pc = "launch", NEW q \in Pid, Drives(q, daemon.launch.row)'
                 PROVE  daemon.launch.pid = q \/ Shows(q, daemon.launch.row)'
      BY <1>8 DEF LaunchSees
    <3>1. daemon' = daemon
      BY <1>8
    <3>2. daemon.launch.row \in Row
      BY <1>0, <3>1
    <3>3. q # p
      BY <1>1 DEF Drives
    <3>4. Drives(q, daemon.launch.row)
      BY <1>1, <3>1, <3>3 DEF Drives
    <3>5. daemon.launch.pid = q \/ Shows(q, daemon.launch.row)
      BY <3>1, <3>4 DEF Single, LaunchSees
    <3> QED  BY <1>1, <3>1, <3>3, <3>5 DEF Shows
  <2>2. RecordKnows'
    <3> SUFFICES ASSUME daemon'.pc = "record", NEW q \in Pid,
                        Drives(q, daemon.launch.row)' \/ Starting(q, daemon.launch.row)'
                 PROVE  q = daemon.launch.child
      BY <1>8 DEF RecordKnows
    <3>1. daemon' = daemon /\ daemon.launch.row # r
      BY <1>8
    <3>2. q # p
      BY <1>1, <3>1 DEF Drives, Starting
    <3>3. Drives(q, daemon.launch.row) \/ Starting(q, daemon.launch.row)
      BY <1>1, <3>1, <3>2 DEF Drives, Starting
    <3> QED  BY <3>1, <3>3 DEF Single, RecordKnows
  <2> QED  BY <1>5, <1>6, <1>7, <2>1, <2>2 DEF Single
<1>9. CASE /\ daemon'.pc = "record" /\ daemon'.launch.row = r /\ daemon'.launch.child = p
           /\ \A q \in Pid : ~Drives(q, r)
  <2>1. \A q \in Pid : Drives(q, r)' \/ Starting(q, r)' => q = p
    BY <1>2, <1>3, <1>9
  <2>2. RecordKnows'
    BY <1>9, <2>1 DEF RecordKnows, Drives, Starting
  <2>3. LaunchSees'
    BY <1>9 DEF LaunchSees
  <2> QED  BY <1>5, <1>6, <1>7, <2>2, <2>3 DEF Single
<1> QED  BY <1>8, <1>9

\* A row that loses its drives to nobody's care: given up, or resumed.
LEMMA Disowning ==
    ASSUME Typed, Single, NEW r \in Row, Disown(r), marker' = marker,
           \A s \in Row \ {r} : task'[s].pid = task[s].pid,
           daemon'.pc \in {"launch", "record"} => daemon' = daemon
    PROVE  Single'
<1>0. /\ drive \in [Pid -> DriveRow]
      /\ daemon.pc \in {"launch", "record"} => daemon.launch.row \in Row
  BY TypedFacts
<1>1. \A q \in Pid :
        /\ drive'[q].pc = drive[q].pc /\ drive'[q].row = drive[q].row
        /\ drive'[q].disowned = (drive[q].disowned \/ (Alive(q) /\ drive[q].row = r))
  <2> TAKE q \in Pid
  <2>1. drive'[q] = [drive[q] EXCEPT !.disowned = drive[q].disowned \/ (Alive(q) /\ drive[q].row = r)]
    BY DEF Disown
  <2> QED  BY <1>0, <2>1 DEF DriveRow
<1>2. \A q \in Pid, s \in Row : Drives(q, s)' => Drives(q, s) /\ s # r
  BY <1>1, TypedFacts DEF Drives
<1>3. \A q \in Pid, s \in Row :
        /\ Starting(q, s)' <=> Starting(q, s)
        /\ Checked(q, s)' <=> Checked(q, s)
  BY <1>1 DEF Starting, Checked
<1>4. ASSUME daemon'.pc = "launch", NEW q \in Pid, Shows(q, daemon.launch.row)
      PROVE  Shows(q, daemon.launch.row)'
  <2>1. daemon' = daemon
    BY <1>4
  <2> QED  BY <1>1, <1>4, <2>1 DEF Shows
<1> QED  BY <1>0, <1>2, <1>3, <1>4, NothingNew

\* A step that leaves the drives, their records and the launch as they are.
LEMMA DrivesStay ==
    ASSUME Typed, Single, drive' = drive, \A r \in Row : task'[r].pid = task[r].pid,
           marker' = marker \/ (daemon'.pc = "launch" =>
                                 marker'[daemon.launch.row] = marker[daemon.launch.row]),
           daemon'.pc \in {"launch", "record"} => daemon' = daemon
    PROVE  Single'
<1>0. daemon.pc \in {"launch", "record"} => daemon.launch.row \in Row
  BY TypedFacts
<1>1. \A q \in Pid, s \in Row :
        /\ Drives(q, s)' <=> Drives(q, s)
        /\ Starting(q, s)' <=> Starting(q, s)
        /\ Checked(q, s)' <=> Checked(q, s)
  BY DEF Drives, Starting, Checked
<1>2. ASSUME daemon'.pc = "launch", NEW q \in Pid, Shows(q, daemon.launch.row)
      PROVE  Shows(q, daemon.launch.row)'
  <2>1. daemon' = daemon
    BY <1>2
  <2> QED  BY <1>2, <2>1 DEF Shows
<1> QED  BY <1>0, <1>1, <1>2, NothingNew

LEMMA PeopleAlone ==
    ASSUME Typed, Single, NEW r \in Row, People(r) \/ Time(r)
    PROVE  Single'
<1>0. /\ task \in [Row -> TaskRow] /\ drive \in [Pid -> DriveRow] /\ marker \in [Row -> BOOLEAN]
      /\ daemon' = daemon
  BY TypedFacts DEF People, Time, Resume, Revise, Approve, Reject, Amend, Accept, DriveByHand,
                    BeatAges, MarkerAges, LockAges, StartAges, VerdictAges
<1>1. CASE Resume(r) /\ People(r)
  <2>1. \A s \in Row \ {r} : task'[s].pid = task[s].pid
    BY <1>0, <1>1 DEF Resume
  <2> QED  BY <1>0, <1>1, <2>1, Disowning DEF Resume
<1>2. CASE DriveByHand(r) /\ People(r)
  <2>1. daemon.launch.row # r /\ \A q \in Pid : ~Starting(q, r)
    BY <1>2 DEF People, Brief, Starting
  <2>2. task' = task /\ marker' = marker
    BY <1>2 DEF DriveByHand
  <2> QED  BY <1>0, <1>2, <2>1, <2>2, Spawning DEF DriveByHand
<1>3. CASE Revise(r) \/ Approve(r) \/ Reject(r) \/ Amend(r) \/ Accept(r) \/ StartAges(r)
           \/ VerdictAges(r) \/ BeatAges(r) \/ LockAges(r)
  <2>1. drive' = drive /\ marker' = marker
    BY <1>3 DEF Revise, Approve, Reject, Amend, Accept, StartAges, VerdictAges, BeatAges, LockAges
  <2>2. \A s \in Row : task'[s].pid = task[s].pid
    BY <1>0, <1>3 DEF Revise, Approve, Reject, Amend, Accept, StartAges, VerdictAges, BeatAges,
                      LockAges, TaskRow
  <2> QED  BY <1>0, <2>1, <2>2, DrivesStay
<1>4. CASE MarkerAges(r)
  <2>1. drive' = drive /\ task' = task /\ \A s \in Row \ {r} : marker'[s] = marker[s]
    BY <1>0, <1>4 DEF MarkerAges
  <2>2. Working(r) => daemon.launch.row # r
    BY <1>4 DEF MarkerAges, Brief
  <2>3. \A q \in Pid, s \in Row :
          /\ Drives(q, s)' <=> Drives(q, s)
          /\ Starting(q, s)' <=> Starting(q, s)
          /\ Checked(q, s)' <=> Checked(q, s)
    BY <2>1 DEF Drives, Starting, Checked
  <2>4. daemon.pc \in {"launch", "record"} => daemon.launch.row \in Row
    BY TypedFacts
  <2>5. ASSUME daemon'.pc = "launch", NEW q \in Pid, Drives(q, daemon.launch.row)',
               Shows(q, daemon.launch.row)
        PROVE  Shows(q, daemon.launch.row)'
    <3>1. drive[q].row = daemon.launch.row /\ daemon.launch.row \in Row
      BY <1>0, <2>1, <2>4, <2>5 DEF Drives
    <3>2. CASE daemon.launch.row # r
      BY <1>0, <2>1, <2>5, <3>1, <3>2 DEF Shows
    <3>3. CASE daemon.launch.row = r
      <4>1. drive[q].pc = "loop"
        BY <2>2, <2>5, <3>1, <3>3 DEF Shows, Working
      <4> QED  BY <2>1, <4>1 DEF Shows
    <3> QED  BY <3>2, <3>3
  <2> QED  BY <1>0, <2>1, <2>3, <2>4, <2>5, NothingNew
<1> QED  BY <1>1, <1>2, <1>3, <1>4 DEF People, Time

\* The daemon reads who is on record when it goes about a launch.
LEMMA Launched ==
    ASSUME Typed, Single, NEW r \in Row, UNCHANGED <<task, drive>>,
           daemon'.pc = "launch", daemon'.launch.row = r, daemon'.launch.pid = task[r].pid
    PROVE  Single'
<1>1. Recorded' /\ OneStarts' /\ CheckedAlone'
  BY DEF Single, Recorded, OneStarts, CheckedAlone, Drives, Starting, Checked
<1>2. LaunchSees'
  BY DEF Single, Recorded, LaunchSees, Drives
<1>3. RecordKnows'
  BY DEF RecordKnows
<1> QED  BY <1>1, <1>2, <1>3 DEF Single

LEMMA DaemonAlone ==
    ASSUME Typed, Single, DaemonStep \/ Crash \/ Boot \/ \E r \in Row : CrashInRedrive(r), ~excused'
    PROVE  Single'
<1>0. /\ task \in [Row -> TaskRow] /\ drive \in [Pid -> DriveRow] /\ marker \in [Row -> BOOLEAN]
      /\ daemon \in DaemonRow /\ daemon.launch \in LaunchRow /\ DaemonTyped /\ TasksTyped
      /\ daemon.pc \in Launching => daemon.launch.row \in Row
      /\ \A p \in Pid : p # None /\ (Alive(p) <=> drive[p].pc # "dead")
  BY TypedFacts DEF Typed, DaemonTyped
<1>1. CASE RunSkips \/ RunResult \/ NextPass \/ Crash \/ Boot
  <2>1. UNCHANGED <<task, drive, marker>>
    BY <1>1 DEF RunSkips, RunResult, NextPass, Crash, Boot
  <2>2. daemon'.pc \notin {"launch", "record"}
    <3>1. CASE RunResult
      <4>1. daemon.launch.pass \in {"none", "forward", "sweep", "handoff"}
        BY <1>0 DEF LaunchRow
      <4> QED  BY <1>0, <3>1, <4>1 DEF RunResult, DaemonRow
    <3>2. CASE RunSkips \/ NextPass
      BY <1>0, <3>2 DEF RunSkips, NextPass, After, DaemonRow
    <3>3. CASE Crash \/ Boot
      <4>1. Off.pc = "off" /\ [Off EXCEPT !.pc = "forward", !.todo = Row].pc = "forward"
        BY DEF Off
      <4> QED  BY <3>3, <4>1 DEF Crash, Boot
    <3> QED  BY <1>1, <3>1, <3>2, <3>3
  <2> QED  BY <2>1, <2>2, DrivesStay
<1>2. CASE RunSpawns
  <2> DEFINE r == daemon.launch.row
  <2>1. daemon.pc = "launch" /\ r \in Row /\ ~Skips(daemon.launch) /\ marker' = marker
        /\ task' = task
    BY <1>0, <1>2 DEF RunSpawns, Launching
  <2>2. \A q \in Pid : ~Starting(q, r) /\ ~(drive[q].pc = "loop" /\ drive[q].row = r)
    BY <1>2 DEF RunSpawns, Excuses
  <2>3. \A q \in Pid : ~Drives(q, r)
    <3> SUFFICES ASSUME NEW q \in Pid, Drives(q, r) PROVE FALSE
      OBVIOUS
    <3>1. Alive(q)
      BY <1>0 DEF Drives
    <3>2. daemon.launch.pid # q /\ ~marker[r]
      BY <2>1, <3>1 DEF Skips
    <3>3. Shows(q, r)
      BY <2>1, <3>2 DEF Single, LaunchSees
    <3> QED  BY <2>2, <3>2, <3>3 DEF Shows, Drives
  <2> PICK p \in Pid : /\ Free(p) /\ Spawned(p, r, "spawned")
                       /\ daemon' = [daemon EXCEPT !.pc = "record", !.launch.child = p]
    BY <1>2 DEF RunSpawns
  <2>4. daemon'.pc = "record" /\ daemon'.launch.row = r /\ daemon'.launch.child = p
    BY <1>0 DEF DaemonRow, LaunchRow
  <2> QED  BY <2>1, <2>2, <2>3, <2>4, Spawning
<1>3. CASE RunRecords
  <2> DEFINE r == daemon.launch.row
  <2>1. /\ daemon.pc = "record" /\ r \in Row /\ drive' = drive /\ daemon'.pc = "result"
        /\ task'[r].pid = daemon.launch.child
        /\ \A s \in Row \ {r} : task'[s].pid = task[s].pid
    BY <1>0, <1>3 DEF RunRecords, Launching, Owner, TaskRow, DaemonRow
  <2>2. Recorded'
    <3> SUFFICES ASSUME NEW q \in Pid, NEW s \in Row, Drives(q, s) PROVE task'[s].pid = q
      BY <2>1 DEF Recorded, Drives
    <3>1. CASE s = r
      BY <2>1, <3>1 DEF Single, RecordKnows
    <3>2. CASE s # r
      BY <2>1, <3>2 DEF Single, Recorded
    <3> QED  BY <3>1, <3>2
  <2>3. OneStarts' /\ CheckedAlone'
    BY <2>1 DEF Single, OneStarts, CheckedAlone, Starting, Checked, Drives
  <2>4. LaunchSees' /\ RecordKnows'
    BY <2>1 DEF LaunchSees, RecordKnows
  <2> QED  BY <2>2, <2>3, <2>4 DEF Single
<1>4. ASSUME NEW r \in Row, Claim(r) \/ Sweeps(r) \/ HandsOff(r) \/ Buries(r) PROVE Single'
  <2>1. marker' = marker /\ daemon.pc \in Passes
    BY <1>4 DEF Claim, Sweeps, HandsOff, Buries, Passes
  <2>2. CASE GivesUp(r)
    <3>1. \A s \in Row \ {r} : task'[s].pid = task[s].pid
      BY <1>0, <2>2 DEF GivesUp, Blocked
    <3>2. daemon'.pc \notin {"launch", "record"}
      BY <1>0, <2>1, <2>2 DEF GivesUp, Handled, DaemonRow, Passes
    <3> QED  BY <2>1, <2>2, <3>1, <3>2, Disowning DEF GivesUp
  <2>3. CASE UNCHANGED <<task, drive>> /\ (Passed(r) \/ Handled(r))
    <3>1. daemon'.pc \notin {"launch", "record"}
      BY <1>0, <2>1, <2>3 DEF Passed, Handled, DaemonRow, Passes
    <3> QED  BY <2>1, <2>3, <3>1, DrivesStay
  <2>4. ASSUME NEW pass \in {"forward", "sweep", "handoff"}, Daemon("launch", Launch(r, pass)),
               UNCHANGED <<task, drive>>
        PROVE  Single'
    BY <1>0, <2>4, DaemonWrites, Launched
  <2> QED  BY <1>4, <2>2, <2>3, <2>4 DEF Claim, Sweeps, HandsOff, Buries
<1>5. ASSUME NEW r \in Row, Redrives(r) PROVE Single'
  <2>1. marker' = marker /\ daemon'.pc \notin {"launch", "record"}
    BY <1>0, <1>5 DEF Redrives, Passed, DaemonRow
  <2>2. CASE UNCHANGED <<task, drive>>
    BY <2>1, <2>2, DrivesStay
  <2>3. ASSUME ~Raced(r), NEW p \in Pid, NEW pc \in {"spawned", "checked"}, Free(p),
               Spawned(p, r, pc), task' = Owner(r, p), Excuses(r)
        PROVE  Single'
    <3>1. \A q \in Pid : ~Starting(q, r)
      BY <2>3 DEF Excuses
    <3>2. \A q \in Pid : ~Drives(q, r)
      BY <1>0, <2>3 DEF Raced, Single, Recorded, Drives
    <3>3. \A s \in Row \ {r} : task'[s].pid = task[s].pid
      BY <1>0, <2>3 DEF Owner
    <3> QED  BY <2>1, <2>3, <3>1, <3>2, <3>3, Spawning
  <2> QED  BY <1>5, <2>2, <2>3 DEF Redrives
<1>6. ASSUME NEW r \in Row, CrashInRedrive(r) PROVE Single'
  BY <1>6 DEF CrashInRedrive
<1> QED  BY <1>1, <1>2, <1>3, <1>4, <1>5, <1>6 DEF DaemonStep

LEMMA ExcusedStays == Typed /\ Next /\ excused => excused'
BY DEF Next, DaemonStep, RunSkips, RunSpawns, RunRecords, RunResult, NextPass, Claim, Sweeps,
       HandsOff, Buries, Redrives, Excuses, Crash, CrashInRedrive, Boot, DriveStep, CheckOwner,
       RecordOwner, StartsAgent, Leaves, Submits, Refused, ClosesLock, RunnerFails, Dies, People,
       Resume, Revise, Approve, Reject, Amend, Accept, DriveByHand, Time, BeatAges, MarkerAges,
       LockAges, StartAges, VerdictAges

LEMMA WatchedStep == Typed /\ Watched /\ [Next]_vars => Watched'
<1> SUFFICES ASSUME Typed, Watched, [Next]_vars, ~excused' PROVE Single'
  BY DEF Watched
<1>1. CASE UNCHANGED vars
  <2>1. Single
    BY <1>1 DEF Watched, vars
  <2> QED  BY <1>1, <2>1, DrivesStay DEF vars
<1>2. CASE Next
  <2>1. Single
    BY <1>2, ExcusedStays DEF Watched
  <2> QED  BY <1>2, <2>1, DrivesAlone, PeopleAlone, DaemonAlone DEF Next
<1> QED  BY <1>1, <1>2

\* Typing: whatever the steps of drives, daemon, people and clocks, in any
\* order, every column and every local of the poll stays in its domain; a
\* process that is alive has a row, and a launch the daemon is in has one
\* (flow/builtins/auto_drive.rs, handlers/drive.rs).
THEOREM TypeCorrect == Spec => []TypeOK
<1>1. Spec => []Typed
  BY InitTyped, TypedStep, PTL DEF Spec
<1> QED  BY <1>1, TypedImplies, PTL

\* One drive per row: for any number of rows, processes, faults and returns,
\* two drives that anybody looks after never work on one row, unless a crash
\* of the daemon left one unrecorded or two starts coincided
\* (enforce_singleton_drive_owner, auto_drive::run,
\* redispatch_orphaned_next_agent).
THEOREM NoTwoDrives == Spec => []OneDrivePerRow
<1>1. Init => Typed /\ Watched
  BY InitTyped, WatchedStarts
<1>2. (Typed /\ Watched) /\ [Next]_vars => (Typed /\ Watched)'
  BY TypedStep, WatchedStep
<1>3. Watched => OneDrivePerRow
  BY DEF Watched, Single, Recorded, OneDrivePerRow
<1> QED  BY <1>1, <1>2, <1>3, PTL DEF Spec

-----------------------------------------------------------------------------
(***************************************************************************)
(* A row resumed in peace, until a drive is started for it: nothing runs   *)
(* on it or is on record for it, no launch has read of a process of it,    *)
(* and a lock of it is one that the silent-zombie pass does not look at,   *)
(* or the forward pass is about to start its drive.                        *)
(***************************************************************************)
Idle(r) == ~Driven(r) /\ ~marker[r] /\ task[r].pid = None
NotLaunched(r) ==
    daemon.launch.row = r => daemon.pc = "launch" /\ daemon.launch.pid = None
Spared(r) ==
    /\ ~(daemon.pc = "zombies" /\ r \in daemon.todo)
    /\ lock[r].state = "absent" \/ lock[r].before \/ daemon.pc = "off" \/ daemon.launch.row = r
Fresh(r) == stint[r] = "resume" => Idle(r) /\ NotLaunched(r) /\ Spared(r)
Resumed == \A r \in Row : Fresh(r)

LEMMA ResumedStarts == Init => Resumed
BY DEF Init, Resumed, Fresh

\* The column, marker and lock of a row that a step does not touch, and the
\* drives on it
SameRow(r) ==
    /\ task'[r].pid = task[r].pid /\ (marker'[r] => marker[r])
    /\ lock'[r].state = lock[r].state /\ lock'[r].before = lock[r].before

LEMMA StillFresh ==
    ASSUME NEW r \in Row, Idle(r), NotLaunched(r), Spared(r), SameRow(r), Driven(r)' => Driven(r),
           daemon'.launch.row = r => daemon' = daemon,
           daemon'.pc = "zombies" => daemon.pc = "zombies" /\ daemon'.todo \subseteq daemon.todo,
           daemon.launch.row = r => daemon' = daemon \/ daemon'.pc = "off",
           daemon.pc = "off" => daemon' = daemon
    PROVE  (Idle(r) /\ NotLaunched(r) /\ Spared(r))'
BY DEF Idle, NotLaunched, Spared, SameRow

LEMMA DrivesElsewhere ==
    ASSUME Typed, Resumed, NEW p \in Pid, DriveStep(p) \/ Dies(p)
    PROVE  Resumed'
<1> DEFINE s == drive[p].row
<1>0. /\ task \in [Row -> TaskRow] /\ drive \in [Pid -> DriveRow] /\ marker \in [Row -> BOOLEAN]
      /\ lock \in [Row -> LockRow] /\ \A q \in Pid : Alive(q) <=> drive[q].pc # "dead"
  BY TypedFacts DEF Typed, LocksTyped
<1>1. drive[p].pc # "dead" /\ s \in Row
  BY <1>0, TypedFacts
  DEF DriveStep, CheckOwner, RecordOwner, StartsAgent, Leaves, Submits, Refused, ClosesLock,
      RunnerFails, Dies
<1>2. daemon' = daemon /\ stint' = stint
  BY DEF DriveStep, CheckOwner, RecordOwner, StartsAgent, Leaves, Submits, Refused, ClosesLock,
         RunnerFails, Dies
<1>3. /\ \A q \in Pid \ {p} : drive'[q] = drive[q]
      /\ drive'[p].row = s \/ drive'[p].pc = "dead"
  BY <1>0
  DEF DriveStep, CheckOwner, RecordOwner, StartsAgent, Leaves, Submits, Refused, ClosesLock,
      RunnerFails, Dies, At, Exits, Dead, DriveRow
<1>4. \A r \in Row \ {s} : marker'[r] = marker[r]
  BY <1>0
  DEF DriveStep, CheckOwner, RecordOwner, StartsAgent, Leaves, Submits, Refused, ClosesLock,
      RunnerFails, Dies, Unmarks
<1>5. \A r \in Row \ {s} : task'[r] = task[r]
  BY <1>0
  DEF DriveStep, CheckOwner, RecordOwner, StartsAgent, Leaves, Submits, Refused, ClosesLock,
      RunnerFails, Dies, Owner, Blocked
<1>6. \A r \in Row \ {s} : lock'[r] = lock[r]
  BY <1>0
  DEF DriveStep, CheckOwner, RecordOwner, StartsAgent, Leaves, Submits, Refused, ClosesLock,
      RunnerFails, Dies, Closed
<1> HIDE DEF s
<1> SUFFICES ASSUME NEW r \in Row, stint[r] = "resume", Idle(r), NotLaunched(r), Spared(r)
               PROVE  (Idle(r) /\ NotLaunched(r) /\ Spared(r))'
  BY <1>2 DEF Resumed, Fresh
<1>8. r # s
  BY <1>0, <1>1 DEF Idle, Driven, s
<1>9. SameRow(r)
  BY <1>4, <1>5, <1>6, <1>8 DEF SameRow
<1>10. Driven(r)' => Driven(r)
  <2> SUFFICES ASSUME NEW q \in Pid, Alive(q)', drive'[q].row = r PROVE Driven(r)
    BY DEF Driven
  <2>1. q # p
    BY <1>3, <1>8 DEF Alive
  <2> QED  BY <1>3, <2>1 DEF Driven, Alive
<1> QED  BY <1>2, <1>9, <1>10, StillFresh

LEMMA NoNewDrive ==
    ASSUME Typed, NEW r \in Row,
           \/ drive' = drive
           \/ \E s \in Row : Disown(s)
           \/ \E p \in Pid, s \in Row \ {r}, pc \in DrivePc : Spawned(p, s, pc)
    PROVE  Driven(r)' => Driven(r)
<1>0. drive \in [Pid -> DriveRow] /\ \A q \in Pid : Alive(q) <=> drive[q].pc # "dead"
  BY TypedFacts
<1> SUFFICES ASSUME NEW q \in Pid, drive'[q].pc # "dead", drive'[q].row = r PROVE Driven(r)
  BY DEF Driven, Alive
<1>1. ASSUME NEW s \in Row, Disown(s) PROVE Driven(r)
  <2>1. drive'[q] = [drive[q] EXCEPT !.disowned = drive[q].disowned \/ (Alive(q) /\ drive[q].row = s)]
    BY <1>1 DEF Disown
  <2> QED  BY <1>0, <2>1 DEF Driven, DriveRow
<1>2. ASSUME NEW p \in Pid, NEW s \in Row \ {r}, NEW pc \in DrivePc, Spawned(p, s, pc)
      PROVE  Driven(r)
  BY <1>0, <1>2 DEF Spawned, Dead, Driven
<1>3. CASE drive' = drive
  BY <1>0, <1>3 DEF Driven
<1> QED  BY <1>1, <1>2, <1>3

LEMMA PeopleElsewhere ==
    ASSUME Typed, Resumed, NEW s \in Row, People(s) \/ Time(s)
    PROVE  Resumed'
<1>0. /\ task \in [Row -> TaskRow] /\ drive \in [Pid -> DriveRow] /\ marker \in [Row -> BOOLEAN]
      /\ lock \in [Row -> LockRow] /\ daemon' = daemon
      /\ \A q \in Pid : Alive(q) <=> drive[q].pc # "dead"
      /\ stint \in [Row -> {"add", "resume", "early", "revise", "amend", "driven"}]
  BY TypedFacts DEF Typed, LocksTyped, RestTyped, People, Time, Resume, Revise, Approve, Reject, Amend,
                    Accept, DriveByHand, BeatAges, MarkerAges, LockAges, StartAges, VerdictAges
<1> SUFFICES ASSUME NEW r \in Row, stint'[r] = "resume"
               PROVE  (Idle(r) /\ NotLaunched(r) /\ Spared(r))'
  BY DEF Resumed, Fresh
<1>2. \A q \in Pid : Alive(q)' <=> drive'[q].pc # "dead"
  BY AutoDriveAssumption DEF Alive
<1>3. CASE Resume(s) /\ People(s) /\ s = r
  <2>1. ~marker[r] /\ ~Driven(r)
    BY <1>0, <1>3 DEF Resume
  <2>2. daemon.launch.row # r /\ ~(daemon.pc = "zombies" /\ r \in daemon.todo)
    BY <1>3 DEF People, Brief
  <2>3. task'[r].pid = None /\ lock'[r].state = "absent" /\ marker' = marker
    BY <1>0, <1>3 DEF Resume, NoLock, TaskRow
  <2>4. \A q \in Pid : drive'[q].row = drive[q].row /\ drive'[q].pc = drive[q].pc
    <3> TAKE q \in Pid
    <3>1. drive'[q] = [drive[q] EXCEPT !.disowned = drive[q].disowned \/ (Alive(q) /\ drive[q].row = r)]
      BY <1>3 DEF Resume, Disown
    <3> QED  BY <1>0, <3>1 DEF DriveRow
  <2>5. ~Driven(r)'
    BY <1>0, <1>2, <2>1, <2>4 DEF Driven
  <2> QED  BY <1>0, <2>1, <2>2, <2>3, <2>5 DEF Idle, NotLaunched, Spared
<1>4. CASE ~(Resume(s) /\ People(s) /\ s = r)
  <2>1. stint[r] = "resume" /\ ~(DriveByHand(s) /\ s = r)
    BY <1>0, <1>4
    DEF People, Time, Resume, Revise, Approve, Reject, Amend, Accept, DriveByHand, BeatAges,
        MarkerAges, LockAges, StartAges, VerdictAges
  <2>2. Idle(r) /\ NotLaunched(r) /\ Spared(r)
    BY <2>1 DEF Resumed, Fresh
  <2>3. task'[r].pid = task[r].pid /\ (marker'[r] => marker[r])
    BY <1>0, <1>4
    DEF People, Time, Resume, Revise, Approve, Reject, Amend, Accept, DriveByHand, BeatAges,
        MarkerAges, LockAges, StartAges, VerdictAges, TaskRow
  <2>4. lock'[r].state = lock[r].state /\ lock'[r].before = lock[r].before
    <3>1. CASE Resume(s) /\ s # r
      BY <1>0, <3>1 DEF Resume
    <3>2. CASE BeatAges(s) \/ LockAges(s)
      BY <1>0, <3>2 DEF BeatAges, LockAges, LockRow
    <3>3. CASE lock' = lock
      BY <3>3
    <3> QED
      BY <1>4, <3>1, <3>2, <3>3 DEF People, Time, Revise, Approve, Reject, Amend, Accept, DriveByHand,
         MarkerAges, StartAges, VerdictAges
  <2>5. Driven(r)' => Driven(r)
    BY <1>4, <2>1, NoNewDrive
    DEF People, Time, Resume, Revise, Approve, Reject, Amend, Accept, DriveByHand, BeatAges,
        MarkerAges, LockAges, StartAges, VerdictAges, DrivePc
  <2> QED  BY <1>0, <2>2, <2>3, <2>4, <2>5, StillFresh DEF SameRow
<1> QED  BY <1>3, <1>4

LEMMA DaemonElsewhere ==
    ASSUME Typed, Resumed, DaemonStep \/ Crash \/ Boot \/ \E s \in Row : CrashInRedrive(s)
    PROVE  Resumed'
<1>0. /\ task \in [Row -> TaskRow] /\ drive \in [Pid -> DriveRow] /\ marker \in [Row -> BOOLEAN]
      /\ lock \in [Row -> LockRow] /\ daemon \in DaemonRow /\ daemon.launch \in LaunchRow
      /\ DaemonTyped /\ TasksTyped
      /\ daemon.pc \in Launching => daemon.launch.row \in Row
      /\ stint \in [Row -> {"add", "resume", "early", "revise", "amend", "driven"}]
  BY TypedFacts DEF Typed, DaemonTyped, LocksTyped, RestTyped
<1> SUFFICES ASSUME NEW r \in Row, stint'[r] = "resume"
             PROVE  (Idle(r) /\ NotLaunched(r) /\ Spared(r))'
  BY DEF Resumed, Fresh
<1>1. stint[r] = "resume" /\ marker' = marker
  BY <1>0
  DEF DaemonStep, RunSkips, RunSpawns, RunRecords, RunResult, NextPass, Claim, Sweeps, HandsOff,
      Buries, Redrives, Crash, CrashInRedrive, Boot
<1>2. Idle(r) /\ NotLaunched(r) /\ Spared(r)
  BY <1>1 DEF Resumed, Fresh
<1>3. r # None /\ ~Alive(None)
  BY TypedFacts DEF Alive
<1>4. CASE RunSkips \/ RunRecords
  <2>1. daemon.launch.row # r
    <3>1. CASE RunSkips
      BY <1>2, <1>3, <3>1 DEF RunSkips, Skips, Idle, NotLaunched
    <3>2. CASE RunRecords
      BY <1>2, <3>2 DEF RunRecords, NotLaunched
    <3> QED  BY <1>4, <3>1, <3>2
  <2>2. SameRow(r) /\ drive' = drive
    BY <1>0, <1>1, <1>4, <2>1 DEF RunSkips, RunRecords, SameRow, Owner
  <2>3. daemon'.launch = daemon.launch /\ daemon'.pc = "result" /\ daemon.pc # "off"
    BY <1>0, <1>4 DEF RunSkips, RunRecords, DaemonRow
  <2> QED  BY <1>2, <2>1, <2>2, <2>3, StillFresh, NoNewDrive
<1>5. CASE RunSpawns
  <2>1. daemon.launch.row \in Row \ {r}
    BY <1>0, <1>1, <1>5 DEF RunSpawns, Launching
  <2>2. SameRow(r) /\ (Driven(r)' => Driven(r))
    BY <1>1, <1>5, <2>1, NoNewDrive DEF RunSpawns, SameRow, DrivePc
  <2>3. daemon'.launch.row = daemon.launch.row /\ daemon'.pc = "record" /\ daemon.pc # "off"
    BY <1>0, <1>5 DEF RunSpawns, DaemonRow, LaunchRow
  <2> QED  BY <1>2, <2>1, <2>2, <2>3, StillFresh
<1>6. CASE RunResult
  <2>1. daemon.launch.row # r
    BY <1>2, <1>6 DEF RunResult, NotLaunched
  <2>2. SameRow(r) /\ drive' = drive
    BY <1>0, <1>1, <1>6, <2>1 DEF RunResult, SameRow, Ended, HandedOff
  <2>3. daemon'.launch.row = None /\ daemon'.pc # "zombies" /\ daemon.pc # "off"
    BY <1>0, <1>6 DEF RunResult, DaemonRow, LaunchRow, NoLaunch
  <2> QED  BY <1>2, <1>3, <2>1, <2>2, <2>3, StillFresh, NoNewDrive
<1>7. CASE NextPass
  <2>1. UNCHANGED <<task, lock, drive>> /\ daemon.launch.row = None /\ daemon.pc # "off"
    BY <1>0, <1>7 DEF NextPass, DaemonTyped, Launching
  <2>2. /\ daemon'.launch = daemon.launch /\ daemon'.pc = After(daemon.pc)
        /\ daemon'.todo = Pass(After(daemon.pc))
    BY <1>0, <1>7 DEF NextPass, DaemonRow
  <2>3. r \notin Zombies
    BY <1>0, <1>2, <1>3, <2>1 DEF Zombies, Idle, Spared
  <2>4. daemon'.pc = "zombies" => r \notin daemon'.todo
    BY <2>2, <2>3 DEF Pass
  <2>5. Idle(r)'
    BY <1>1, <1>2, <2>1, NoNewDrive DEF Idle
  <2> QED  BY <1>2, <1>3, <2>1, <2>2, <2>4, <2>5 DEF NotLaunched, Spared
<1>8. ASSUME NEW s \in Row, Claim(s) \/ Sweeps(s) \/ HandsOff(s) \/ Buries(s)
      PROVE  (Idle(r) /\ NotLaunched(r) /\ Spared(r))'
  <2>1. daemon.pc \in Passes /\ daemon.launch.row = None /\ daemon.pc # "off"
    BY <1>0, <1>8 DEF Claim, Sweeps, HandsOff, Buries, Passes, DaemonTyped, Launching
  <2>2. CASE UNCHANGED <<task, lock, drive>> /\ (Passed(s) \/ Handled(s))
    <3>1. /\ daemon'.pc = daemon.pc /\ daemon'.launch = daemon.launch
          /\ daemon'.todo \subseteq daemon.todo
      BY <1>0, <2>2 DEF Passed, Handled, DaemonRow
    <3> QED  BY <1>1, <1>2, <1>3, <2>1, <2>2, <3>1, StillFresh, NoNewDrive DEF SameRow
  <2>3. CASE GivesUp(s) /\ s # r
    <3>2. SameRow(r) /\ (Driven(r)' => Driven(r))
      BY <1>0, <1>1, <2>3, NoNewDrive DEF GivesUp, SameRow, Blocked, Ended
    <3>3. /\ daemon'.pc = daemon.pc /\ daemon'.launch = daemon.launch
          /\ daemon'.todo \subseteq daemon.todo
      BY <1>0, <2>3 DEF GivesUp, Handled, DaemonRow
    <3> QED  BY <1>2, <1>3, <2>1, <3>2, <3>3, StillFresh
  <2>4. ASSUME NEW pass \in {"forward", "sweep", "handoff"}, Daemon("launch", Launch(s, pass)),
               UNCHANGED <<task, drive>>, s # r, lock'[r] = lock[r]
        PROVE  (Idle(r) /\ NotLaunched(r) /\ Spared(r))'
    <3>1. daemon'.pc = "launch" /\ daemon'.launch.row = s
      BY <1>0, <2>4, DaemonWrites
    <3> QED  BY <1>1, <1>2, <1>3, <2>1, <2>4, <3>1, StillFresh, NoNewDrive DEF SameRow
  <2>5. CASE Claim(s) /\ s = r /\ Daemon("launch", Launch(r, "forward"))
    <3>1. daemon'.pc = "launch" /\ daemon'.launch.row = r /\ daemon'.launch.pid = task[r].pid
      BY <1>0, <2>5, DaemonWrites
    <3>2. UNCHANGED <<task, drive>>
      BY <2>5 DEF Claim
    <3>3. Idle(r)'
      BY <1>1, <1>2, <3>2, NoNewDrive DEF Idle
    <3> QED  BY <1>2, <3>1, <3>3 DEF Idle, NotLaunched, Spared
  <2>6. CASE Claim(s)
    BY <1>0, <2>2, <2>4, <2>5, <2>6 DEF Claim
  <2>7. CASE HandsOff(s)
    BY <1>2, <2>2, <2>4, <2>7 DEF HandsOff, Idle
  <2>8. CASE Sweeps(s)
    <3>1. CASE s = r
      <4>1. ~Alive(task[s].pid) /\ ~Gone(s)
        BY <1>2, <1>3, <3>1 DEF Idle, Gone
      <4> QED  BY <2>2, <2>8, <4>1 DEF Sweeps
    <3>2. CASE s # r
      BY <2>2, <2>3, <2>4, <2>8, <3>2 DEF Sweeps
    <3> QED  BY <3>1, <3>2
  <2>9. CASE Buries(s)
    BY <1>2, <2>2, <2>3, <2>9 DEF Buries, Spared
  <2> QED  BY <1>8, <2>6, <2>7, <2>8, <2>9
<1>9. ASSUME NEW s \in Row, Redrives(s) PROVE (Idle(r) /\ NotLaunched(r) /\ Spared(r))'
  <2>1. daemon.pc = "runner" /\ daemon.launch.row = None
    BY <1>0, <1>9 DEF Redrives, DaemonTyped, Launching
  <2>2. daemon'.pc = daemon.pc /\ daemon'.launch = daemon.launch
    BY <1>0, <1>9 DEF Redrives, Passed, DaemonRow
  <2>3. SameRow(r) /\ (Driven(r)' => Driven(r))
    <3>1. CASE UNCHANGED <<task, lock, drive, stint, excused>>
      BY <1>1, <3>1, NoNewDrive DEF SameRow
    <3>2. ASSUME NEW p \in Pid, NEW pc \in {"spawned", "checked"}, Spawned(p, s, pc),
                 task' = Owner(s, p), lock' = HandedOff(s, p), stint' = [stint EXCEPT ![s] = "driven"]
          PROVE  SameRow(r) /\ (Driven(r)' => Driven(r))
      <4>1. s # r
        BY <1>0, <1>1, <3>2
      <4> QED  BY <1>0, <1>1, <3>2, <4>1, NoNewDrive DEF SameRow, Owner, HandedOff, DrivePc
    <3> QED  BY <1>9, <3>1, <3>2 DEF Redrives
  <2> QED  BY <1>2, <1>3, <2>1, <2>2, <2>3, StillFresh
<1>10. CASE Crash \/ \E s \in Row : CrashInRedrive(s)
  <2>1. daemon' = Off /\ daemon.pc # "off" /\ UNCHANGED <<task, lock>>
    BY <1>10 DEF Crash, CrashInRedrive
  <2>2. Off.pc = "off" /\ Off.launch.row = None
    BY DEF Off, NoLaunch
  <2>3. Driven(r)' => Driven(r)
    BY <1>0, <1>1, <1>10, NoNewDrive DEF Crash, CrashInRedrive, DrivePc
  <2> QED  BY <1>1, <1>2, <1>3, <2>1, <2>2, <2>3, StillFresh DEF SameRow
<1>11. CASE Boot
  <2>1. daemon'.pc = "forward" /\ daemon'.launch.row = None
    BY <1>11 DEF Boot, Off, NoLaunch
  <2>2. lock'[r].state = lock[r].state /\ lock'[r].before = (lock[r].state # "absent")
    <3>1. lock'[r] = [lock[r] EXCEPT !.before = lock[r].state # "absent"]
      BY <1>11 DEF Boot
    <3> QED  BY <1>0, <3>1 DEF LockRow
  <2>3. Idle(r)'
    BY <1>1, <1>2, <1>11, NoNewDrive DEF Idle, Boot
  <2> QED  BY <1>3, <2>1, <2>2, <2>3 DEF NotLaunched, Spared
<1> QED  BY <1>4, <1>5, <1>6, <1>7, <1>8, <1>9, <1>10, <1>11 DEF DaemonStep

LEMMA ResumedStep == Typed /\ Resumed /\ [Next]_vars => Resumed'
<1>1. ASSUME Typed, Resumed, UNCHANGED vars PROVE Resumed'
  <2>1. \A r \in Row : Idle(r) => Idle(r)'
    BY <1>1, NoNewDrive DEF vars, Idle
  <2> QED  BY <1>1, <2>1 DEF vars, Resumed, Fresh, NotLaunched, Spared
<1> QED  BY <1>1, DrivesElsewhere, PeopleElsewhere, DaemonElsewhere DEF Next

\* Nobody gives up on a row that nobody drives.
LEMMA FreshIsNotBlocked ==
    ASSUME Typed, Resumed, [Next]_vars, NEW r \in Row, WatchdogBlocks(r)
    PROVE  stint[r] # "resume"
<1>0. task \in [Row -> TaskRow] /\ daemon' # daemon /\ task'[r].status # task[r].status
  BY TypedFacts DEF WatchdogBlocks
<1>1. DaemonStep \/ Crash \/ Boot \/ \E s \in Row : CrashInRedrive(s)
  BY <1>0
  DEF Next, vars, DriveStep, CheckOwner, RecordOwner, StartsAgent, Leaves, Submits, Refused,
      ClosesLock, RunnerFails, Dies, People, Resume, Revise, Approve, Reject, Amend, Accept,
      DriveByHand, Time, BeatAges, MarkerAges, LockAges, StartAges, VerdictAges
<1>2. \E s \in Row : GivesUp(s) /\ (Sweeps(s) \/ Buries(s))
  <2>1. task' # task /\ \A s, p : task' # Owner(s, p)
    BY <1>0 DEF Owner, TaskRow
  <2>2. \E s \in Row : Sweeps(s) \/ Buries(s)
    BY <1>1, <2>1
    DEF DaemonStep, RunSkips, RunSpawns, RunRecords, RunResult, NextPass, Claim, HandsOff, Redrives,
        Crash, CrashInRedrive, Boot
  <2> QED  BY <2>1, <2>2 DEF Sweeps, Buries
<1>3. GivesUp(r) /\ (Sweeps(r) \/ Buries(r))
  BY <1>0, <1>2 DEF GivesUp, Blocked
<1>4. CASE Sweeps(r)
  <2>1. Alive(task[r].pid) \/ Gone(r)
    BY <1>0, <1>4 DEF Sweeps
  <2>2. task[r].pid # None
    BY <2>1 DEF Gone, Alive
  <2> QED  BY <2>2 DEF Resumed, Fresh, Idle
<1>5. CASE Buries(r)
  BY <1>5 DEF Buries, Resumed, Fresh, Spared
<1> QED  BY <1>3, <1>4, <1>5

\* A resumed row is driven before any watchdog blocks it: for any number of
\* rows, processes, faults and returns, what resume leaves behind is nothing
\* that the watchdog could take for a dead or silent drive
\* (clear_auto_drive_bookkeeping_for_resume, submit.rs).
THEOREM ResumeIsTrusted == Spec => ResumedIsDriven
<1>1. Init => Typed /\ Resumed
  BY InitTyped, ResumedStarts
<1>2. (Typed /\ Resumed) /\ [Next]_vars => (Typed /\ Resumed)'
  BY TypedStep, ResumedStep
<1>3. Typed /\ Resumed /\ [Next]_vars => [\A r \in Row : WatchdogBlocks(r) => stint[r] # "resume"]_vars
  BY FreshIsNotBlocked
<1> QED  BY <1>1, <1>2, <1>3, PTL DEF Spec, ResumedIsDriven
=============================================================================
