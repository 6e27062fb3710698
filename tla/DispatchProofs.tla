--------------------------- MODULE DispatchProofs ---------------------------
(***************************************************************************)
(* Theorems about Dispatch, for any daemons, rows, agents, subscriptions   *)
(* and retry policies.                                                     *)
(***************************************************************************)
EXTENDS Dispatch, TLAPS

-----------------------------------------------------------------------------
(* Typing *)

LEMMA InitTyped == Init => TypeOK
BY DispatchAssumption
DEF Init, NothingClaimed, TypeOK, Off, Lock, Locks, Daemons, LockState, Work, Verdict

\* What the operators that write a lock return is a lock, and none of them
\* schedules a retry but after a run that ended badly.
ProperLock(l) == l \in Locks /\ (l.retry # "none" => l.state \in {"failed", "rate_limit"})

LEMMA LockWrites ==
    ASSUME TypeOK, NEW w \in Work
    PROVE  /\ ProperLock(lock[w])
           /\ \A e \in Edge \cup {Nothing} : ProperLock(Claimed(e))
           /\ ProperLock(Historical)
           /\ \A o \in {"ok", "failed"} : ProperLock(Finished(w, o))
           /\ ProperLock(Limited(w))
           /\ ProperLock(Retried(w))
           /\ lock[w].retry = "none" => ProperLock([lock[w] EXCEPT !.state = "halted"])
           /\ lock[w].retry = "waiting" => ProperLock([lock[w] EXCEPT !.retry = "due"])
<1>1. ProperLock(lock[w])
  BY DEF TypeOK, ProperLock
<1>2. \A e \in Edge \cup {Nothing} : ProperLock(Claimed(e))
  BY DEF ProperLock, Claimed, Lock, Locks, LockState
<1>3. ProperLock(Historical)
  BY DEF ProperLock, Historical, Lock, Locks, LockState
<1>4. ASSUME NEW o \in {"ok", "failed"} PROVE ProperLock(Finished(w, o))
  BY <1>1 DEF ProperLock, Finished, Lock, Locks, LockState
<1>5. ProperLock(Limited(w))
  BY <1>1 DEF ProperLock, Limited, Locks, LockState
<1>6. ProperLock(Retried(w))
  BY <1>1 DEF ProperLock, Retried, Lock, Locks, LockState
<1>7. lock[w].retry = "none" => ProperLock([lock[w] EXCEPT !.state = "halted"])
  BY <1>1 DEF ProperLock, Locks, LockState
<1>8. lock[w].retry = "waiting" => ProperLock([lock[w] EXCEPT !.retry = "due"])
  BY <1>1 DEF ProperLock, Locks, LockState
<1> QED  BY <1>1, <1>2, <1>3, <1>4, <1>5, <1>6, <1>7, <1>8

\* TypeOK, apart from what no step of a daemon or of the world can disturb
LocksTyped == lock \in [Work -> Locks] /\ \A w \in Work : ProperLock(lock[w])
DaemonsTyped ==
    /\ daemon \in [Daemon -> Daemons]
    /\ \A d \in Daemon : daemon[d].pc \in {"claim", "run", "gate"} => daemon[d].at \in Work

\* Writing one proper lock, or putting a daemon in a state of its own,
\* keeps the variable typed.
LEMMA LockWritten ==
    ASSUME TypeOK, NEW w \in Work, NEW l, ProperLock(l), lock' = [lock EXCEPT ![w] = l]
    PROVE  LocksTyped'
BY DEF TypeOK, LocksTyped, ProperLock

LEMMA DaemonMoved ==
    ASSUME TypeOK, NEW d \in Daemon, NEW s \in Daemons,
           s.pc \in {"claim", "run", "gate"} => s.at \in Work,
           daemon' = [daemon EXCEPT ![d] = s]
    PROVE  DaemonsTyped'
BY DEF TypeOK, DaemonsTyped

LEMMA WorldTyped ==
    ASSUME TypeOK, WorldNext
    PROVE  TypeOK'
<1>1. ASSUME NEW w \in Work, CoolsDown(w) PROVE TypeOK'
  <2>1. LocksTyped'
    BY <1>1, LockWrites, LockWritten DEF CoolsDown
  <2> QED  BY <1>1, <2>1 DEF CoolsDown, world, ghost, TypeOK, LocksTyped, ProperLock
<1>2. ASSUME NEW r \in Row, NEW e \in Edge, Transition(r, e) PROVE TypeOK'
  BY <1>2 DEF Transition, TypeOK, ghost, ProperLock
<1>3. ASSUME NEW w \in Work, NEW verdict \in Verdict, Regate(w, verdict) PROVE TypeOK'
  BY <1>3 DEF Regate, Spend, TypeOK, ghost
<1> QED  BY <1>1, <1>2, <1>3 DEF WorldNext

LEMMA BootTyped ==
    ASSUME TypeOK, NEW d \in Daemon,
           \/ Boot(d) \/ Seeded(d) \/ StartPolling(d) \/ Crash(d) \/ FinishLost(d)
           \/ \E a \in Agent : CheckSeeded(d, a)
           \/ \E e \in Edge : Seed(d, e)
    PROVE  TypeOK'
<1>1. CASE Boot(d)
  BY <1>1, DispatchAssumption DEF Boot, Off, TypeOK, Daemons, world, ghost
<1>2. CASE Seeded(d)
  BY <1>2, DispatchAssumption DEF Seeded, TypeOK, Daemons, world, ghost
<1>3. CASE StartPolling(d)
  <2> DEFINE s == [daemon[d] EXCEPT !.pc = "poll", !.bound = {}]
  <2>1. daemon[d] \in Daemons
    BY DEF TypeOK
  <2>2. s \in Daemons /\ (s.pc \in {"claim", "run", "gate"} => s.at \in Work)
    BY <1>3, <2>1, DispatchAssumption DEF StartPolling, Daemons, TypeOK
  <2>3. daemon' = [daemon EXCEPT ![d] = s]
    BY <1>3, <2>1 DEF StartPolling, Daemons, TypeOK
  <2> HIDE DEF s
  <2>4. DaemonsTyped'
    BY <2>2, <2>3, DaemonMoved
  <2> QED  BY <1>3, <2>4 DEF StartPolling, world, ghost, TypeOK, DaemonsTyped
<1>4. CASE Crash(d)
  BY <1>4, DispatchAssumption DEF Crash, Off, Spend, TypeOK, Daemons, world, ghost
<1>5. CASE FinishLost(d)
  BY <1>5, DispatchAssumption DEF FinishLost, Polls, Spend, TypeOK, Daemons, world, ghost
<1>6. ASSUME NEW a \in Agent, CheckSeeded(d, a) PROVE TypeOK'
  <2> DEFINE s == IF \E r \in Row : ~Absent(<<r, a>>)
                  THEN [daemon[d] EXCEPT !.left = @ \ {a}]
                  ELSE [daemon[d] EXCEPT !.line = a, !.subs = Subscribes[a]]
  <2>1. daemon[d] \in Daemons
    BY DEF TypeOK
  <2>2. s \in Daemons /\ (s.pc \in {"claim", "run", "gate"} => s.at \in Work)
    BY <1>6, <2>1, DispatchAssumption DEF CheckSeeded, Daemons, TypeOK
  <2>3. daemon' = [daemon EXCEPT ![d] = s]
    BY <1>6, <2>1 DEF CheckSeeded, Daemons, TypeOK
  <2> HIDE DEF s
  <2>4. DaemonsTyped'
    BY <2>2, <2>3, DaemonMoved
  <2> QED  BY <1>6, <2>4 DEF CheckSeeded, world, ghost, TypeOK, DaemonsTyped
<1>7. ASSUME NEW e \in Edge, Seed(d, e) PROVE TypeOK'
  <2>1. LocksTyped'
    <3>1. \A w \in Work : ProperLock(lock[w]) /\ ProperLock(Historical)
      BY LockWrites
    <3>2. \A w \in Work : lock'[w] \in {lock[w], Historical}
      BY <1>7 DEF Seed
    <3>3. lock' = [w \in Work |-> lock'[w]]
      BY <1>7 DEF Seed
    <3>4. \A w \in Work : ProperLock(lock'[w]) /\ lock'[w] \in Locks
      BY <3>1, <3>2 DEF ProperLock
    <3> QED  BY <3>3, <3>4 DEF LocksTyped
  <2> DEFINE s == [daemon[d] EXCEPT !.subs = @ \ {e}]
  <2>a. daemon[d] \in Daemons
    BY DEF TypeOK
  <2>b. s \in Daemons /\ (s.pc \in {"claim", "run", "gate"} => s.at \in Work)
    BY <1>7, <2>a DEF Seed, Daemons, TypeOK
  <2>c. daemon' = [daemon EXCEPT ![d] = s]
    BY <1>7, <2>a DEF Seed, Daemons, TypeOK
  <2> HIDE DEF s
  <2>2. DaemonsTyped'
    BY <2>b, <2>c, DaemonMoved
  <2>3. UNCHANGED <<world, ghost, used>>
    BY <1>7 DEF Seed
  <2> QED  BY <2>1, <2>2, <2>3
           DEF world, ghost, TypeOK, LocksTyped, ProperLock, DaemonsTyped
<1> QED  BY <1>1, <1>2, <1>3, <1>4, <1>5, <1>6, <1>7

\* A daemon that holds work has its lock open.
HeldIsOpen ==
    \A d \in Daemon : daemon[d].pc \in {"run", "gate"} => lock[daemon[d].at].state = "open"

LEMMA DueTyped ==
    ASSUME TypeOK, NEW a \in Agent
    PROVE  Due(a) \subseteq Candidates
BY DEF TypeOK, Due, Candidates, Locks, Work

LEMMA PollsTyped ==
    ASSUME TypeOK, NEW d \in Daemon, Polls(d)
    PROVE  DaemonsTyped'
<1> DEFINE s == [daemon[d] EXCEPT !.pc = "poll", !.at = Nothing, !.edge = Nothing]
<1>1. daemon[d] \in Daemons
  BY DEF TypeOK
<1>2. s \in Daemons /\ s.pc = "poll"
  BY <1>1 DEF Daemons
<1>3. daemon' = [daemon EXCEPT ![d] = s]
  BY <1>1 DEF Polls, Daemons, TypeOK
<1> HIDE DEF s
<1> QED  BY <1>2, <1>3, DaemonMoved

LEMMA RunsTyped ==
    ASSUME TypeOK, NEW d \in Daemon, daemon[d].at \in Work, Runs(d, daemon[d].at)
    PROVE  DaemonsTyped' /\ runs' \in [Work -> Nat]
<1> DEFINE s == [daemon[d] EXCEPT !.pc = "run"]
<1>1. daemon[d] \in Daemons
  BY DEF TypeOK
<1>2. s \in Daemons /\ s.at \in Work
  BY <1>1 DEF Daemons
<1>3. daemon' = [daemon EXCEPT ![d] = s]
  BY <1>1 DEF Runs, Daemons, TypeOK
<1>4. runs' \in [Work -> Nat]
  BY DEF Runs, TypeOK
<1> HIDE DEF s
<1>5. DaemonsTyped'
  BY <1>2, <1>3, DaemonMoved
<1> QED  BY <1>4, <1>5

LEMMA ForwardTyped ==
    ASSUME TypeOK, NEW d \in Daemon,
           \/ TryClaim(d)
           \/ \E o \in Outcome : Finish(d, o)
           \/ \E w \in Work, e \in Edge : Consider(d, w, e)
    PROVE  TypeOK'
<1>1. ASSUME NEW w \in Work, NEW e \in Edge, Consider(d, w, e) PROVE TypeOK'
  <2> DEFINE s == [daemon[d] EXCEPT !.pc = "claim", !.at = w, !.edge = e]
  <2>1. daemon[d] \in Daemons
    BY DEF TypeOK
  <2>2. s \in Daemons /\ (s.pc \in {"claim", "run", "gate"} => s.at \in Work)
    BY <1>1, <2>1, DispatchAssumption DEF Consider, Daemons, TypeOK
  <2>3. daemon' = [daemon EXCEPT ![d] = s]
    BY <1>1, <2>1 DEF Consider, Daemons, TypeOK
  <2> HIDE DEF s
  <2>4. DaemonsTyped'
    BY <2>2, <2>3, DaemonMoved
  <2> QED  BY <1>1, <2>4 DEF Consider, world, ghost, TypeOK, DaemonsTyped
<1>2. CASE TryClaim(d)
  <2> DEFINE w == daemon[d].at
  <2>1. w \in Work
    BY <1>2 DEF TryClaim, TypeOK
  <2>2. CASE Absent(w)
    <3>1. LocksTyped'
      <4>1. daemon[d].edge \in Edge \cup {Nothing}
        BY DEF TypeOK, Daemons
      <4> QED  BY <1>2, <2>1, <2>2, <4>1, LockWrites, LockWritten DEF TryClaim
    <3>2. DaemonsTyped' /\ runs' \in [Work -> Nat]
      BY <1>2, <2>1, <2>2, RunsTyped DEF TryClaim
    <3> QED  BY <1>2, <2>2, <3>1, <3>2
             DEF TryClaim, world, TypeOK, LocksTyped, ProperLock, DaemonsTyped
  <2>3. CASE ~Absent(w)
    <3>1. DaemonsTyped'
      BY <1>2, <2>3, PollsTyped DEF TryClaim
    <3> QED  BY <1>2, <2>3, <3>1
             DEF TryClaim, world, TypeOK, LocksTyped, ProperLock, DaemonsTyped
  <2> QED  BY <2>2, <2>3
<1>3. ASSUME NEW o \in Outcome, Finish(d, o) PROVE TypeOK'
  <2> DEFINE w == daemon[d].at
  <2>1. w \in Work
    BY <1>3 DEF Finish, TypeOK
  <2>2. DaemonsTyped'
    BY <1>3, PollsTyped DEF Finish
  <2>3. CASE o = "rate_limit"
    <3>1. LocksTyped'
      BY <1>3, <2>1, <2>3, LockWrites, LockWritten DEF Finish
    <3> QED  BY <1>3, <2>1, <2>2, <2>3, <3>1
             DEF Finish, Spend, world, TypeOK, LocksTyped, ProperLock, DaemonsTyped
  <2>4. CASE o # "rate_limit"
    <3>1. LocksTyped'
      <4>1. ProperLock(Finished(w, o))
        BY <2>1, <2>4, LockWrites DEF Outcome
      <4>2. lock' = [lock EXCEPT ![w] = Finished(w, o)]
        BY <1>3, <2>4 DEF Finish
      <4> QED  BY <2>1, <4>1, <4>2, LockWritten
    <3> QED  BY <1>3, <2>1, <2>2, <2>4, <3>1
             DEF Finish, world, TypeOK, LocksTyped, ProperLock, DaemonsTyped
  <2> QED  BY <2>3, <2>4
<1> QED  BY <1>1, <1>2, <1>3

LEMMA RetryTyped ==
    ASSUME TypeOK, HeldIsOpen, NEW d \in Daemon,
           \/ RetryPasses(d) \/ RetryHalted(d) \/ RetryGatedOut(d)
           \/ \E a \in Agent : FindRetryable(d, a)
           \/ \E c \in daemon[d].todo : ClaimForRetry(d, c)
    PROVE  TypeOK'
<1>1. CASE RetryPasses(d)
  <2>1. daemon[d].at \in Work
    BY <1>1 DEF RetryPasses, TypeOK
  <2>2. DaemonsTyped' /\ runs' \in [Work -> Nat]
    BY <1>1, <2>1, RunsTyped DEF RetryPasses
  <2> QED  BY <1>1, <2>2
           DEF RetryPasses, world, TypeOK, LocksTyped, ProperLock, DaemonsTyped
<1>2. CASE RetryHalted(d)
  <2> DEFINE w == daemon[d].at
  <2>1. w \in Work /\ lock[w].state = "open"
    BY <1>2 DEF RetryHalted, TypeOK, HeldIsOpen
  <2>2. lock[w].retry = "none"
    BY <2>1 DEF TypeOK, Locks
  <2>3. lock' = [lock EXCEPT ![w] = [lock[w] EXCEPT !.state = "halted"]]
    BY <1>2, <2>1 DEF RetryHalted, TypeOK
  <2>4. LocksTyped'
    BY <2>1, <2>2, <2>3, LockWrites, LockWritten
  <2>5. DaemonsTyped'
    BY <1>2, PollsTyped DEF RetryHalted
  <2> QED  BY <1>2, <2>4, <2>5
           DEF RetryHalted, world, ghost, TypeOK, LocksTyped, ProperLock, DaemonsTyped
<1>3. CASE RetryGatedOut(d)
  BY <1>3, PollsTyped DEF RetryGatedOut, world, ghost, TypeOK, DaemonsTyped
<1>4. ASSUME NEW a \in Agent, FindRetryable(d, a) PROVE TypeOK'
  <2> DEFINE s == [daemon[d] EXCEPT !.todo = Due(a)]
  <2>1. daemon[d] \in Daemons
    BY DEF TypeOK
  <2>2. s \in Daemons /\ (s.pc \in {"claim", "run", "gate"} => s.at \in Work)
    BY <1>4, <2>1, DispatchAssumption, DueTyped DEF FindRetryable, Daemons, TypeOK
  <2>3. daemon' = [daemon EXCEPT ![d] = s]
    BY <1>4, <2>1 DEF FindRetryable, Daemons, TypeOK
  <2> HIDE DEF s
  <2>4. DaemonsTyped'
    BY <2>2, <2>3, DaemonMoved
  <2> QED  BY <1>4, <2>4 DEF FindRetryable, world, ghost, TypeOK, DaemonsTyped
<1>5. ASSUME NEW c \in daemon[d].todo, ClaimForRetry(d, c) PROVE TypeOK'
  <2>0. c.work \in Work /\ c \in Candidates
    BY DEF TypeOK, Daemons, Candidates
  <2> DEFINE s == IF StillAsSeen(c)
                  THEN [daemon[d] EXCEPT !.todo = @ \ {c}, !.pc = "gate", !.at = c.work]
                  ELSE [daemon[d] EXCEPT !.todo = @ \ {c}]
  <2>1. daemon[d] \in Daemons
    BY DEF TypeOK
  <2>2. s \in Daemons /\ (s.pc \in {"claim", "run", "gate"} => s.at \in Work)
    BY <1>5, <2>1, DispatchAssumption, <2>0 DEF ClaimForRetry, Daemons, TypeOK
  <2>3. daemon' = [daemon EXCEPT ![d] = s]
    BY <1>5, <2>1 DEF ClaimForRetry, Daemons, TypeOK
  <2> HIDE DEF s
  <2>4. DaemonsTyped'
    BY <2>2, <2>3, DaemonMoved
  <2>5. LocksTyped'
    <3>1. CASE StillAsSeen(c)
      BY <1>5, <2>0, <3>1, LockWrites, LockWritten DEF ClaimForRetry
    <3>2. CASE ~StillAsSeen(c)
      BY <1>5, <3>2 DEF ClaimForRetry, LocksTyped, TypeOK, ProperLock
    <3> QED  BY <3>1, <3>2
  <2> QED  BY <1>5, <2>4, <2>5
           DEF ClaimForRetry, world, ghost, TypeOK, LocksTyped, ProperLock, DaemonsTyped
<1> QED  BY <1>1, <1>2, <1>3, <1>4, <1>5

-----------------------------------------------------------------------------
(* The inductive invariant *)

\* What a lock says of its work.  An attempt is left whenever it may be run
\* again, a failure keeps its retry as long as one is due, and every run is
\* accounted for: charged, rate-limited, or the one the open lock stands for.
ByPolicy(w) ==
    /\ lock[w].state = "absent" => lock[w].attempts = 0
    /\ lock[w].attempts <= Budget(w[2])
    /\ lock[w].state \in {"absent", "open", "rate_limit"} => lock[w].attempts < Budget(w[2])
    /\ lock[w].state = "failed" =>
         /\ lock[w].attempt = lock[w].attempts
         /\ lock[w].retry = "none" <=> lock[w].attempts >= MaxAttempts[w[2]]
    /\ runs[w] <= lock[w].attempts + limits[w] + (IF lock[w].state = "open" THEN 1 ELSE 0)

\* A failure on a daemon's list of retries had an attempt left.
ListedInTime(d) ==
    \A c \in daemon[d].todo : c.state = "failed" => c.attempt < MaxAttempts[c.work[2]]

\* A retry that is claimed but not yet let through has not been run.
NotRunYet(d) ==
    daemon[d].pc = "gate"
        => runs[daemon[d].at] <= lock[daemon[d].at].attempts + limits[daemon[d].at]

Accounted ==
    /\ HeldIsOpen /\ OneRunAtATime
    /\ \A w \in Work : ByPolicy(w)
    /\ \A d \in Daemon : ListedInTime(d) /\ NotRunYet(d)

IInv == TypeOK /\ Accounted

LEMMA BudgetIsNat ==
    ASSUME NEW a \in Agent
    PROVE  Budget(a) \in Nat /\ Budget(a) >= 1 /\ Budget(a) >= MaxAttempts[a]
           /\ MaxAttempts[a] \in Nat
BY DispatchAssumption DEF Budget

LEMMA Fields ==
    ASSUME TypeOK, NEW w \in Work
    PROVE  /\ w[2] \in Agent /\ lock[w] \in Locks
           /\ lock[w].attempts \in Nat /\ lock[w].attempt \in Nat
           /\ runs[w] \in Nat /\ limits[w] \in Nat
BY DEF TypeOK, Locks, Work

\* Steps that write no lock, start no run, and at most let go of work.
LEMMA LettingGo ==
    ASSUME IInv, lock' = lock, runs' = runs, limits' = limits,
           \A d \in Daemon :
              /\ daemon[d]'.pc \in {"run", "gate"} => daemon[d]'.pc = daemon[d].pc
                                                     /\ daemon[d]'.at = daemon[d].at
              /\ \A c \in daemon[d]'.todo :
                    c \in daemon[d].todo \/ (c.state = "failed" => c.attempt < MaxAttempts[c.work[2]])
    PROVE  Accounted'
<1>1. HeldIsOpen' /\ OneRunAtATime'
  BY DEF IInv, Accounted, HeldIsOpen, OneRunAtATime, Holds
<1>2. \A w \in Work : ByPolicy(w)'
  BY DEF IInv, Accounted, ByPolicy
<1>3. \A d \in Daemon : ListedInTime(d)' /\ NotRunYet(d)'
  BY DEF IInv, Accounted, ListedInTime, NotRunYet
<1> QED  BY <1>1, <1>2, <1>3 DEF Accounted

LEMMA WorldAccounted ==
    ASSUME IInv, WorldNext
    PROVE  Accounted'
<1>1. ASSUME NEW w \in Work, CoolsDown(w) PROVE Accounted'
  <2>1. lock[w] \in Locks /\ lock \in [Work -> Locks]
    BY DEF IInv, TypeOK
  <2>2. \A v \in Work : /\ lock[v]'.state = lock[v].state
                        /\ lock[v]'.attempt = lock[v].attempt
                        /\ lock[v]'.attempts = lock[v].attempts
                        /\ lock[v]'.retry = "none" <=> lock[v].retry = "none"
    BY <1>1, <2>1 DEF CoolsDown, Locks
  <2>3. daemon' = daemon /\ runs' = runs /\ limits' = limits
    BY <1>1 DEF CoolsDown, ghost
  <2>4. \A d \in Daemon : daemon[d].pc \in {"run", "gate"} => daemon[d].at \in Work
    BY DEF IInv, TypeOK
  <2>5. HeldIsOpen' /\ OneRunAtATime'
    BY <2>2, <2>3, <2>4 DEF IInv, Accounted, HeldIsOpen, OneRunAtATime, Holds
  <2>6. \A v \in Work : ByPolicy(v)'
    BY <2>2, <2>3 DEF IInv, Accounted, ByPolicy
  <2>7. \A d \in Daemon : ListedInTime(d)' /\ NotRunYet(d)'
    BY <2>2, <2>3, <2>4 DEF IInv, Accounted, ListedInTime, NotRunYet
  <2> QED  BY <2>5, <2>6, <2>7 DEF Accounted
<1>2. ASSUME NEW r \in Row, NEW e \in Edge, Transition(r, e) PROVE Accounted'
  BY <1>2, LettingGo DEF Transition, ghost
<1>3. ASSUME NEW w \in Work, NEW verdict \in Verdict, Regate(w, verdict) PROVE Accounted'
  BY <1>3, LettingGo DEF Regate, ghost
<1> QED  BY <1>1, <1>2, <1>3 DEF WorldNext

\* What moves one daemon to a state in which it holds nothing
LEMMA Moved ==
    ASSUME IInv, NEW d \in Daemon, NEW s, daemon' = [daemon EXCEPT ![d] = s],
           s.pc \notin {"run", "gate"}, s.todo \subseteq daemon[d].todo,
           lock' = lock, runs' = runs, limits' = limits
    PROVE  Accounted'
<1>1. \A e \in Daemon : daemon[e]' = IF e = d THEN s ELSE daemon[e]
  BY DEF IInv, TypeOK
<1> QED  BY <1>1, LettingGo

LEMMA BootAccounted ==
    ASSUME IInv, NEW d \in Daemon,
           \/ Boot(d) \/ Seeded(d) \/ StartPolling(d) \/ Crash(d) \/ FinishLost(d)
           \/ RetryGatedOut(d)
           \/ \E a \in Agent : CheckSeeded(d, a)
           \/ \E w \in Work, e \in Edge : Consider(d, w, e)
    PROVE  Accounted'
<1>0. daemon \in [Daemon -> Daemons] /\ daemon[d] \in Daemons
  BY DEF IInv, TypeOK
<1> USE DEF Daemons
<1>1. CASE Boot(d)
  BY <1>1, Moved DEF Boot, Off, ghost
<1>2. CASE Seeded(d)
  <2> DEFINE s == [daemon[d] EXCEPT !.left = @ \ {daemon[d].line}, !.line = Nothing]
  <2>1. daemon' = [daemon EXCEPT ![d] = s]
    BY <1>2, <1>0 DEF Seeded
  <2>2. s.pc \notin {"run", "gate"} /\ s.todo \subseteq daemon[d].todo
    BY <1>2, <1>0 DEF Seeded
  <2> HIDE DEF s
  <2> QED  BY <1>2, <2>1, <2>2, Moved DEF Seeded, ghost
<1>3. CASE StartPolling(d)
  <2> DEFINE s == [daemon[d] EXCEPT !.pc = "poll", !.bound = {}]
  <2>1. daemon' = [daemon EXCEPT ![d] = s]
    BY <1>3, <1>0 DEF StartPolling
  <2>2. s.pc \notin {"run", "gate"} /\ s.todo \subseteq daemon[d].todo
    BY <1>3, <1>0 DEF StartPolling
  <2> HIDE DEF s
  <2> QED  BY <1>3, <2>1, <2>2, Moved DEF StartPolling, ghost
<1>4. CASE Crash(d)
  BY <1>4, Moved DEF Crash, Off, ghost
<1>5. CASE FinishLost(d)
  <2> DEFINE s == [daemon[d] EXCEPT !.pc = "poll", !.at = Nothing, !.edge = Nothing]
  <2>1. daemon' = [daemon EXCEPT ![d] = s]
    BY <1>5, <1>0 DEF FinishLost, Polls
  <2>2. s.pc \notin {"run", "gate"} /\ s.todo \subseteq daemon[d].todo
    BY <1>5, <1>0 DEF FinishLost, Polls
  <2> HIDE DEF s
  <2> QED  BY <1>5, <2>1, <2>2, Moved DEF FinishLost, Polls, ghost
<1>6. CASE RetryGatedOut(d)
  <2> DEFINE s == [daemon[d] EXCEPT !.pc = "poll", !.at = Nothing, !.edge = Nothing]
  <2>1. daemon' = [daemon EXCEPT ![d] = s]
    BY <1>6, <1>0 DEF RetryGatedOut, Polls
  <2>2. s.pc \notin {"run", "gate"} /\ s.todo \subseteq daemon[d].todo
    BY <1>6, <1>0 DEF RetryGatedOut, Polls
  <2> HIDE DEF s
  <2> QED  BY <1>6, <2>1, <2>2, Moved DEF RetryGatedOut, Polls, ghost
<1>7. ASSUME NEW a \in Agent, CheckSeeded(d, a) PROVE Accounted'
  <2> DEFINE s == IF \E r \in Row : ~Absent(<<r, a>>)
                  THEN [daemon[d] EXCEPT !.left = @ \ {a}]
                  ELSE [daemon[d] EXCEPT !.line = a, !.subs = Subscribes[a]]
  <2>1. daemon' = [daemon EXCEPT ![d] = s]
    BY <1>7, <1>0 DEF CheckSeeded
  <2>2. s.pc \notin {"run", "gate"} /\ s.todo \subseteq daemon[d].todo
    BY <1>7, <1>0 DEF CheckSeeded
  <2> HIDE DEF s
  <2> QED  BY <1>7, <2>1, <2>2, Moved DEF CheckSeeded, ghost
<1>8. ASSUME NEW w \in Work, NEW e \in Edge, Consider(d, w, e) PROVE Accounted'
  <2> DEFINE s == [daemon[d] EXCEPT !.pc = "claim", !.at = w, !.edge = e]
  <2>1. daemon' = [daemon EXCEPT ![d] = s]
    BY <1>8, <1>0 DEF Consider
  <2>2. s.pc \notin {"run", "gate"} /\ s.todo \subseteq daemon[d].todo
    BY <1>8, <1>0 DEF Consider
  <2> HIDE DEF s
  <2> QED  BY <1>8, <2>1, <2>2, Moved DEF Consider, ghost
<1> QED  BY <1>1, <1>2, <1>3, <1>4, <1>5, <1>6, <1>7, <1>8

\* What writes the lock of one piece of work that no other daemon holds
LEMMA OneLock ==
    ASSUME IInv, NEW d \in Daemon, NEW w \in Work, NEW l, NEW s,
           lock' = [lock EXCEPT ![w] = l], daemon' = [daemon EXCEPT ![d] = s],
           \A v \in Work \ {w} : runs'[v] = runs[v] /\ limits'[v] = limits[v],
           \A e \in Daemon \ {d} : ~Holds(e, w),
           s.pc \in {"run", "gate"} => s.at = w /\ l.state = "open",
           s.pc = "gate" => runs'[w] <= l.attempts + limits'[w],
           s.todo \subseteq daemon[d].todo,
           ByPolicy(w)'
    PROVE  Accounted'
<1>1. \A e \in Daemon : daemon'[e] = IF e = d THEN s ELSE daemon[e]
  BY DEF IInv, TypeOK
<1>2. \A v \in Work : lock'[v] = IF v = w THEN l ELSE lock[v]
  BY DEF IInv, TypeOK
<1>3. \A e \in Daemon : daemon[e].pc \in {"run", "gate"} => daemon[e].at \in Work
  BY DEF IInv, TypeOK
<1>4. HeldIsOpen'
  BY <1>1, <1>2, <1>3 DEF IInv, Accounted, HeldIsOpen, Holds
<1>5. OneRunAtATime'
  BY <1>1 DEF IInv, Accounted, OneRunAtATime, Holds
<1>6. ASSUME NEW v \in Work PROVE ByPolicy(v)'
  <2>1. CASE v = w
    BY <2>1
  <2>2. CASE v # w
    BY <2>2, <1>2 DEF IInv, Accounted, ByPolicy
  <2> QED  BY <2>1, <2>2
<1>7. ASSUME NEW e \in Daemon PROVE ListedInTime(e)' /\ NotRunYet(e)'
  <2>1. CASE e = d
    BY <2>1, <1>1, <1>2 DEF IInv, Accounted, ListedInTime, NotRunYet
  <2>2. CASE e # d
    <3>1. daemon'[e] = daemon[e] /\ ListedInTime(e) /\ NotRunYet(e)
      BY <2>2, <1>1 DEF IInv, Accounted
    <3>2. daemon[e].pc = "gate" => daemon[e].at \in Work \ {w}
      BY <2>2, <1>3 DEF Holds
    <3> QED  BY <3>1, <3>2, <1>2 DEF ListedInTime, NotRunYet
  <2> QED  BY <2>1, <2>2
<1> QED  BY <1>4, <1>5, <1>6, <1>7 DEF Accounted

LEMMA Freedom ==
    ASSUME IInv, NEW w \in Work
    PROVE  /\ lock[w].state # "open" => \A e \in Daemon : ~Holds(e, w)
           /\ \A d \in Daemon : Holds(d, w) => \A e \in Daemon \ {d} : ~Holds(e, w)
BY DEF IInv, Accounted, HeldIsOpen, OneRunAtATime, Holds

LEMMA SeedAccounted ==
    ASSUME IInv, NEW d \in Daemon, NEW e \in Edge, Seed(d, e)
    PROVE  Accounted'
<1>1. daemon \in [Daemon -> Daemons] /\ daemon[d] \in Daemons
  BY DEF IInv, TypeOK
<1>2. \A c \in Daemon : /\ daemon'[c].pc = daemon[c].pc /\ daemon'[c].at = daemon[c].at
                        /\ daemon'[c].todo = daemon[c].todo
  BY <1>1 DEF Seed, Daemons
<1>3. \A w \in Work : lock'[w] = lock[w] \/ (lock[w].state = "absent" /\ lock'[w] = Historical)
  BY DEF Seed, Absent
<1>4. runs' = runs /\ limits' = limits
  BY DEF Seed, ghost
<1>5. \A c \in Daemon : daemon[c].pc \in {"run", "gate"}
                        => daemon[c].at \in Work /\ lock'[daemon[c].at] = lock[daemon[c].at]
  BY <1>3 DEF IInv, TypeOK, Accounted, HeldIsOpen
<1>6. HeldIsOpen' /\ OneRunAtATime'
  BY <1>2, <1>5 DEF IInv, Accounted, HeldIsOpen, OneRunAtATime, Holds
<1>7. ASSUME NEW w \in Work PROVE ByPolicy(w)'
  <2>1. ByPolicy(w) /\ lock'[w].attempts = lock[w].attempts /\ w[2] \in Agent
    BY <1>3, Fields DEF IInv, Accounted, ByPolicy, Historical, Lock
  <2> QED  BY <2>1, <1>3, <1>4, BudgetIsNat DEF ByPolicy, Historical, Lock
<1>8. \A c \in Daemon : ListedInTime(c)' /\ NotRunYet(c)'
  BY <1>2, <1>4, <1>5 DEF IInv, Accounted, ListedInTime, NotRunYet
<1> QED  BY <1>6, <1>7, <1>8 DEF Accounted

LEMMA ClaimAccounted ==
    ASSUME IInv, NEW d \in Daemon, TryClaim(d)
    PROVE  Accounted'
<1>w. PICK w \in Work : w = daemon[d].at
  BY DEF IInv, TypeOK, TryClaim
<1>0. daemon \in [Daemon -> Daemons] /\ daemon[d] \in Daemons
  BY DEF IInv, TypeOK
<1>1. CASE Absent(w)
  <2> DEFINE l == Claimed(daemon[d].edge)  s == [daemon[d] EXCEPT !.pc = "run"]
  <2>1. lock' = [lock EXCEPT ![w] = l] /\ l.state = "open" /\ l.attempts = 0
    BY <1>w, <1>1 DEF TryClaim, Claimed, Lock
  <2>2. daemon' = [daemon EXCEPT ![d] = s] /\ s.pc = "run" /\ s.at = w
        /\ s.todo = daemon[d].todo
    BY <1>w, <1>0, <1>1 DEF TryClaim, Runs, Daemons
  <2>3. runs' = [runs EXCEPT ![w] = @ + 1] /\ limits' = limits
    BY <1>w, <1>1 DEF TryClaim, Runs
  <2>4. \A e \in Daemon \ {d} : ~Holds(e, w)
    BY <1>0, <1>1, Freedom DEF Absent
  <2>5. ByPolicy(w)'
    <3>1. runs[w] <= limits[w] /\ runs[w] \in Nat /\ limits[w] \in Nat
      BY <1>0, <1>1, Fields DEF IInv, Accounted, ByPolicy, Absent
    <3>2. runs'[w] <= limits'[w] + 1 /\ lock'[w] = l
      BY <1>0, <2>1, <2>3, <3>1 DEF IInv, TypeOK
    <3>3. w[2] \in Agent /\ Budget(w[2]) \in Nat /\ Budget(w[2]) >= 1
      BY <1>0, Fields, BudgetIsNat DEF IInv
    <3> HIDE DEF l
    <3> QED  BY <2>1, <2>3, <3>1, <3>2, <3>3 DEF ByPolicy
  <2>6. \A v \in Work \ {w} : runs'[v] = runs[v] /\ limits'[v] = limits[v]
    BY <1>0, <2>3 DEF IInv, TypeOK
  <2> HIDE DEF l, s
  <2> QED  BY <1>0, <2>1, <2>2, <2>4, <2>5, <2>6, OneLock
<1>2. CASE ~Absent(w)
  <2> DEFINE s == [daemon[d] EXCEPT !.pc = "poll", !.at = Nothing, !.edge = Nothing]
  <2>1. daemon' = [daemon EXCEPT ![d] = s]
    BY <1>w, <1>0, <1>2 DEF TryClaim, Polls, Daemons
  <2>2. s.pc \notin {"run", "gate"} /\ s.todo \subseteq daemon[d].todo
    BY <1>0 DEF Daemons
  <2> HIDE DEF s
  <2> QED  BY <1>w, <1>2, <2>1, <2>2, Moved DEF TryClaim
<1> QED  BY <1>1, <1>2

LEMMA FinishAccounted ==
    ASSUME IInv, NEW d \in Daemon, NEW o \in Outcome, Finish(d, o)
    PROVE  Accounted'
<1>w. PICK w \in Work : w = daemon[d].at
  BY DEF IInv, TypeOK, Finish
<1> DEFINE l == IF o = "rate_limit" THEN Limited(w) ELSE Finished(w, o)
           s == [daemon[d] EXCEPT !.pc = "poll", !.at = Nothing, !.edge = Nothing]
<1>1. daemon \in [Daemon -> Daemons] /\ daemon[d] \in Daemons
  BY DEF IInv, TypeOK
<1>2. lock' = [lock EXCEPT ![w] = l] /\ runs' = runs
  BY <1>w DEF Finish
<1>3. daemon' = [daemon EXCEPT ![d] = s] /\ s.pc = "poll" /\ s.todo = daemon[d].todo
  BY <1>w, <1>1 DEF Finish, Polls, Daemons
<1>4. \A v \in Work \ {w} : limits'[v] = limits[v]
  BY <1>w DEF Finish, IInv, TypeOK
<1>5. Holds(d, w) /\ lock[w].state = "open"
  BY <1>w DEF Finish, Holds, IInv, Accounted, HeldIsOpen
<1>6. \A e \in Daemon \ {d} : ~Holds(e, w)
  BY <1>5, Freedom
<1>7. ByPolicy(w)'
  <2>1. /\ lock[w] \in Locks /\ w[2] \in Agent /\ lock'[w] = l
        /\ runs[w] \in Nat /\ limits[w] \in Nat /\ runs'[w] = runs[w]
        /\ Budget(w[2]) \in Nat /\ Budget(w[2]) >= 1
        /\ MaxAttempts[w[2]] \in Nat
    BY <1>2, Fields, BudgetIsNat DEF IInv, TypeOK
  <2>2. /\ lock[w].attempts < Budget(w[2]) /\ lock[w].attempts \in Nat
        /\ runs[w] <= lock[w].attempts + limits[w] + 1
    BY <1>5, <2>1, Fields DEF IInv, Accounted, ByPolicy
  <2>3. CASE o = "rate_limit"
    <3>1. l.state = "rate_limit" /\ l.attempts = lock[w].attempts
      BY <2>1, <2>3 DEF Limited, Locks
    <3>2. limits'[w] = limits[w] + 1
      BY <1>w, <2>3 DEF Finish, IInv, TypeOK
    <3> HIDE DEF l
    <3> QED  BY <2>1, <2>2, <3>1, <3>2 DEF ByPolicy
  <2>4. CASE o # "rate_limit"
    <3>1. /\ l.state = o /\ o \in {"ok", "failed"}
          /\ l.attempts = lock[w].attempts + 1 /\ l.attempt = l.attempts
          /\ o = "failed" => (l.retry = "none" <=> l.attempts >= MaxAttempts[w[2]])
      BY <2>1, <2>2, <2>4 DEF Finished, Lock, Outcome
    <3>2. limits'[w] = limits[w]
      BY <1>w, <2>4 DEF Finish
    <3> HIDE DEF l
    <3> QED  BY <2>1, <2>2, <3>1, <3>2 DEF ByPolicy
  <2> QED  BY <2>3, <2>4
<1>8. \A v \in Work \ {w} : runs'[v] = runs[v] /\ limits'[v] = limits[v]
  BY <1>2, <1>4
<1> HIDE DEF l, s
<1> QED  BY <1>2, <1>3, <1>6, <1>7, <1>8, OneLock

LEMMA FindAccounted ==
    ASSUME IInv, NEW d \in Daemon, NEW a \in Agent, FindRetryable(d, a)
    PROVE  Accounted'
<1>1. daemon \in [Daemon -> Daemons] /\ daemon[d] \in Daemons
  BY DEF IInv, TypeOK
<1>2. \A e \in Daemon : /\ daemon'[e].pc = daemon[e].pc /\ daemon'[e].at = daemon[e].at
                        /\ daemon'[e].todo = daemon[e].todo \/ daemon'[e].todo = Due(a)
  BY <1>1 DEF FindRetryable, Daemons
<1>3. \A c \in Due(a) : c.state = "failed" => c.attempt < MaxAttempts[c.work[2]]
  BY DEF Due
<1> QED  BY <1>2, <1>3, LettingGo DEF FindRetryable, ghost

\* The swap succeeds only on a lock that is closed, and has an attempt left.
LEMMA SeenIsClosed ==
    ASSUME IInv, NEW d \in Daemon, NEW c \in daemon[d].todo, StillAsSeen(c)
    PROVE  /\ c.work \in Work /\ lock[c.work].state \in {"failed", "rate_limit"}
           /\ lock[c.work].attempts < Budget(c.work[2])
           /\ lock[c.work].state = "failed" => lock[c.work].retry # "none"
<1>1. c \in Candidates /\ c.work \in Work /\ c.state \in {"failed", "rate_limit"}
  BY DEF IInv, TypeOK, Daemons, Candidates
<1>2. lock[c.work].state = c.state /\ lock[c.work].attempt = c.attempt
  BY DEF StillAsSeen
<1>3. ByPolicy(c.work) /\ (c.state = "failed" => c.attempt < MaxAttempts[c.work[2]])
  BY <1>1 DEF IInv, Accounted, ListedInTime
<1>4. c.work[2] \in Agent /\ lock[c.work].attempts \in Nat
  BY <1>1, Fields DEF IInv
<1>5. CASE c.state = "failed"
  BY <1>1, <1>2, <1>3, <1>4, <1>5, BudgetIsNat DEF ByPolicy
<1>6. CASE c.state = "rate_limit"
  BY <1>1, <1>2, <1>3, <1>6 DEF ByPolicy
<1> QED  BY <1>1, <1>5, <1>6

LEMMA ClaimForRetryAccounted ==
    ASSUME IInv, NEW d \in Daemon, NEW c \in daemon[d].todo, ClaimForRetry(d, c)
    PROVE  Accounted'
<1>0. daemon \in [Daemon -> Daemons] /\ daemon[d] \in Daemons
  BY DEF IInv, TypeOK
<1>1. CASE StillAsSeen(c)
  <2>w. PICK w \in Work : w = c.work
    BY <1>1, SeenIsClosed
  <2> DEFINE l == Retried(w)
             s == [daemon[d] EXCEPT !.todo = @ \ {c}, !.pc = "gate", !.at = w]
  <2>1. lock' = [lock EXCEPT ![w] = l] /\ runs' = runs /\ limits' = limits
    BY <1>1, <2>w DEF ClaimForRetry, ghost
  <2>2. /\ daemon' = [daemon EXCEPT ![d] = s] /\ s.pc = "gate" /\ s.at = w
        /\ s.todo \subseteq daemon[d].todo
    BY <1>0, <1>1, <2>w DEF ClaimForRetry, Daemons
  <2>3. l.state = "open" /\ l.attempts = lock[w].attempts
    BY DEF Retried, Lock
  <2>4. /\ lock[w].state \in {"failed", "rate_limit"} /\ ByPolicy(w)
        /\ lock[w].attempts < Budget(w[2])
    BY <1>1, <2>w, SeenIsClosed DEF IInv, Accounted
  <2>5. \A e \in Daemon \ {d} : ~Holds(e, w)
    BY <2>4, Freedom
  <2>6. runs'[w] <= l.attempts + limits'[w] /\ lock'[w] = l
        /\ runs[w] \in Nat /\ limits[w] \in Nat /\ lock[w].attempts \in Nat
        /\ Budget(w[2]) \in Nat
    BY <2>1, <2>3, <2>4, Fields, BudgetIsNat DEF IInv, TypeOK, ByPolicy
  <2> HIDE DEF l, s
  <2>7. ByPolicy(w)'
    BY <2>1, <2>3, <2>4, <2>6 DEF ByPolicy
  <2> QED  BY <2>1, <2>2, <2>3, <2>5, <2>6, <2>7, OneLock
<1>2. CASE ~StillAsSeen(c)
  <2>1. \A e \in Daemon : /\ daemon'[e].pc = daemon[e].pc /\ daemon'[e].at = daemon[e].at
                          /\ daemon'[e].todo \subseteq daemon[e].todo
    BY <1>0, <1>2 DEF ClaimForRetry, Daemons
  <2> QED  BY <1>2, <2>1, LettingGo DEF ClaimForRetry, ghost
<1> QED  BY <1>1, <1>2

LEMMA GateAccounted ==
    ASSUME IInv, NEW d \in Daemon, RetryPasses(d) \/ RetryHalted(d)
    PROVE  Accounted'
<1>w. PICK w \in Work : w = daemon[d].at
  BY DEF IInv, TypeOK, RetryPasses, RetryHalted
<1>0. daemon \in [Daemon -> Daemons] /\ daemon[d] \in Daemons /\ lock[w] \in Locks
  BY DEF IInv, TypeOK
<1>1. Holds(d, w) /\ lock[w].state = "open" /\ \A e \in Daemon \ {d} : ~Holds(e, w)
  <2>1. Holds(d, w)
    BY <1>w DEF RetryPasses, RetryHalted, Holds
  <2> QED  BY <1>w, <2>1, Freedom DEF Holds, IInv, Accounted, HeldIsOpen
<1>2. /\ runs[w] <= lock[w].attempts + limits[w] /\ ByPolicy(w)
      /\ runs[w] \in Nat /\ limits[w] \in Nat /\ lock[w].attempts \in Nat
      /\ Budget(w[2]) \in Nat
  BY <1>w, Fields, BudgetIsNat DEF IInv, Accounted, NotRunYet, RetryPasses, RetryHalted
<1>3. CASE RetryPasses(d)
  <2> DEFINE s == [daemon[d] EXCEPT !.pc = "run"]
  <2>1. /\ daemon' = [daemon EXCEPT ![d] = s] /\ s.pc = "run" /\ s.at = w
        /\ s.todo = daemon[d].todo
    BY <1>0, <1>3, <1>w DEF RetryPasses, Runs, Daemons
  <2>2. /\ lock' = [lock EXCEPT ![w] = lock[w]] /\ lock' = lock
        /\ runs' = [runs EXCEPT ![w] = @ + 1] /\ limits' = limits
    BY <1>3, <1>w DEF RetryPasses, Runs, IInv, TypeOK
  <2>3. \A v \in Work \ {w} : runs'[v] = runs[v] /\ limits'[v] = limits[v]
    BY <2>2 DEF IInv, TypeOK
  <2>4. ByPolicy(w)'
    <3>1. runs'[w] = runs[w] + 1
      BY <2>2 DEF IInv, TypeOK
    <3> QED  BY <1>1, <1>2, <2>2, <3>1 DEF ByPolicy
  <2> HIDE DEF s
  <2> QED  BY <1>1, <2>1, <2>2, <2>3, <2>4, OneLock
<1>4. CASE RetryHalted(d)
  <2> DEFINE s == [daemon[d] EXCEPT !.pc = "poll", !.at = Nothing, !.edge = Nothing]
             l == [lock[w] EXCEPT !.state = "halted"]
  <2>1. /\ daemon' = [daemon EXCEPT ![d] = s] /\ s.pc = "poll" /\ s.todo = daemon[d].todo
    BY <1>0, <1>4, <1>w DEF RetryHalted, Polls, Daemons
  <2>2. lock' = [lock EXCEPT ![w] = l] /\ runs' = runs /\ limits' = limits
    BY <1>4, <1>w DEF RetryHalted, ghost, IInv, TypeOK
  <2>3. l.state = "halted" /\ l.attempts = lock[w].attempts /\ lock'[w] = l
    BY <1>0, <2>2 DEF Locks, IInv, TypeOK
  <2> HIDE DEF s, l
  <2>4. ByPolicy(w)'
    BY <1>1, <1>2, <2>2, <2>3 DEF ByPolicy
  <2> QED  BY <1>1, <2>1, <2>2, <2>3, <2>4, OneLock
<1> QED  BY <1>3, <1>4

-----------------------------------------------------------------------------
(* Theorems *)

LEMMA Initially == Init => IInv
<1> SUFFICES ASSUME Init PROVE IInv
  OBVIOUS
<1>1. TypeOK
  BY InitTyped
<1>2. HeldIsOpen /\ OneRunAtATime
  BY DEF Init, NothingClaimed, Off, HeldIsOpen, OneRunAtATime, Holds
<1>3. ASSUME NEW w \in Work PROVE ByPolicy(w)
  BY BudgetIsNat DEF Init, NothingClaimed, Lock, ByPolicy, Work
<1>4. \A d \in Daemon : ListedInTime(d) /\ NotRunYet(d)
  BY DEF Init, NothingClaimed, Off, ListedInTime, NotRunYet
<1> QED  BY <1>1, <1>2, <1>3, <1>4 DEF IInv, Accounted

LEMMA Stuttering == IInv /\ UNCHANGED vars => IInv'
BY DEF vars, world, ghost, IInv, TypeOK, ProperLock, Accounted, HeldIsOpen, OneRunAtATime, Holds,
       ByPolicy, ListedInTime, NotRunYet

\* One step of a daemon or of the world keeps the invariant.
LEMMA Inductive == IInv /\ [Next]_vars => IInv'
<1> SUFFICES ASSUME IInv, Next PROVE IInv'
  BY Stuttering
<1>1. CASE WorldNext
  BY <1>1, WorldTyped, WorldAccounted DEF IInv
<1>2. ASSUME NEW d \in Daemon, DaemonNext(d) PROVE IInv'
  <2>1. CASE Boot(d) \/ Seeded(d) \/ StartPolling(d) \/ Crash(d) \/ FinishLost(d)
    BY <2>1, BootTyped, BootAccounted DEF IInv
  <2>2. ASSUME NEW a \in Agent, CheckSeeded(d, a) PROVE IInv'
    BY <2>2, BootTyped, BootAccounted DEF IInv
  <2>3. ASSUME NEW e \in Edge, Seed(d, e) PROVE IInv'
    BY <2>3, BootTyped, SeedAccounted DEF IInv
  <2>4. CASE TryClaim(d)
    BY <2>4, ForwardTyped, ClaimAccounted DEF IInv
  <2>5. ASSUME NEW o \in Outcome, Finish(d, o) PROVE IInv'
    BY <2>5, ForwardTyped, FinishAccounted DEF IInv
  <2>6. ASSUME NEW w \in Work, NEW e \in Edge, Consider(d, w, e) PROVE IInv'
    BY <2>6, ForwardTyped, BootAccounted DEF IInv
  <2>7. CASE RetryPasses(d) \/ RetryHalted(d)
    BY <2>7, RetryTyped, GateAccounted DEF IInv, Accounted
  <2>8. CASE RetryGatedOut(d)
    BY <2>8, RetryTyped, BootAccounted DEF IInv, Accounted
  <2>9. ASSUME NEW a \in Agent, FindRetryable(d, a) PROVE IInv'
    BY <2>9, RetryTyped, FindAccounted DEF IInv, Accounted
  <2>10. ASSUME NEW c \in daemon[d].todo, ClaimForRetry(d, c) PROVE IInv'
    BY <2>10, RetryTyped, ClaimForRetryAccounted DEF IInv, Accounted
  <2> QED  BY <1>2, <2>1, <2>2, <2>3, <2>4, <2>5, <2>6, <2>7, <2>8, <2>9, <2>10
           DEF DaemonNext, Proceeds, Bookkeeps, Polling
<1> QED  BY <1>1, <1>2 DEF Next

LEMMA AlwaysInv == Spec => []IInv
BY Initially, Inductive, PTL DEF Spec

\* Whatever daemons, agents and policies: the locks, the daemons' locals and
\* the history stay in their domains.
THEOREM TypeCorrect == Spec => []TypeOK
<1>1. IInv => TypeOK
  BY DEF IInv
<1> QED  BY <1>1, AlwaysInv, PTL

\* However many daemons poll the database, crash and come back, no two of
\* them run the same agent on the same row.
THEOREM NeverTwice == Spec => []OneRunAtATime
<1>1. IInv => OneRunAtATime
  BY DEF IInv, Accounted
<1> QED  BY <1>1, AlwaysInv, PTL

\* No interleaving of stale retry lists, cooldowns and crashes makes an agent
\* cost more runs than its retry_policy allows.
THEOREM PolicyBounds == Spec => []RunsWithinPolicy
<1>1. IInv => RunsWithinPolicy
  <2> SUFFICES ASSUME IInv, NEW w \in Work
               PROVE  runs[w] <= Budget(w[2]) + limits[w]
    BY DEF RunsWithinPolicy
  <2>1. /\ runs[w] \in Nat /\ limits[w] \in Nat /\ lock[w].attempts \in Nat
        /\ Budget(w[2]) \in Nat
    BY Fields, BudgetIsNat DEF IInv
  <2>2. ByPolicy(w)
    BY DEF IInv, Accounted
  <2> QED  BY <2>1, <2>2 DEF ByPolicy
<1> QED  BY <1>1, AlwaysInv, PTL

\* The steps that write a lock write one that is not settled.
LEMMA SettledStep ==
    ASSUME IInv, Next, NEW w \in Work, Settled(lock[w])
    PROVE  lock'[w] = lock[w]
<1>1. lock \in [Work -> Locks] /\ ProperLock(lock[w])
  BY DEF IInv, TypeOK, ProperLock
<1>2. lock[w].state \notin {"absent", "open", "rate_limit"} /\ lock[w].retry = "none"
  BY <1>1 DEF Settled, ProperLock
<1>3. CASE WorldNext
  BY <1>1, <1>2, <1>3 DEF WorldNext, CoolsDown, Transition, Regate
<1>4. ASSUME NEW d \in Daemon, DaemonNext(d) PROVE lock'[w] = lock[w]
  <2>0. daemon[d].pc \in {"run", "gate"} => daemon[d].at # w
    BY <1>2 DEF IInv, Accounted, HeldIsOpen
  <2>1. CASE Boot(d) \/ Seeded(d) \/ StartPolling(d) \/ Crash(d) \/ FinishLost(d)
             \/ RetryPasses(d) \/ RetryGatedOut(d)
    BY <2>1 DEF Boot, Seeded, StartPolling, Crash, FinishLost, RetryPasses, RetryGatedOut
  <2>2. ASSUME NEW a \in Agent, CheckSeeded(d, a) \/ FindRetryable(d, a)
        PROVE  lock'[w] = lock[w]
    BY <2>2 DEF CheckSeeded, FindRetryable
  <2>3. ASSUME NEW e \in Edge, Seed(d, e) PROVE lock'[w] = lock[w]
    BY <2>3, <1>2 DEF Seed, Absent
  <2>4. CASE TryClaim(d)
    BY <2>4, <1>1, <1>2 DEF TryClaim, Absent
  <2>5. ASSUME NEW o \in Outcome, Finish(d, o) PROVE lock'[w] = lock[w]
    BY <2>5, <1>1, <2>0 DEF Finish
  <2>6. CASE RetryHalted(d)
    BY <2>6, <1>1, <2>0 DEF RetryHalted
  <2>7. ASSUME NEW v \in Work, NEW e \in Edge, Consider(d, v, e) PROVE lock'[w] = lock[w]
    BY <2>7 DEF Consider
  <2>8. ASSUME NEW c \in daemon[d].todo, ClaimForRetry(d, c) PROVE lock'[w] = lock[w]
    <3>1. StillAsSeen(c) => c.work # w
      BY <1>2, SeenIsClosed
    <3> QED  BY <2>8, <3>1, <1>1 DEF ClaimForRetry
  <2> QED  BY <1>4, <2>1, <2>2, <2>3, <2>4, <2>5, <2>6, <2>7, <2>8
           DEF DaemonNext, Proceeds, Bookkeeps, Polling
<1> QED  BY <1>3, <1>4 DEF Next

\* No daemon reopens what is settled, however old the list it works from.
THEOREM SettledForGood == Spec => SettledStays
<1>1. IInv /\ [Next]_vars => [\A w \in Work : Settled(lock[w]) => lock'[w] = lock[w]]_vars
  BY SettledStep
<1> QED  BY <1>1, AlwaysInv, PTL DEF Spec, SettledStays

=============================================================================
