-------------------------- MODULE ReviewLaneProofs --------------------------
(***************************************************************************)
(* Theorems about ReviewLane, for any tasks, daemons, people, any cap and  *)
(* any bounds.                                                             *)
(***************************************************************************)
EXTENDS ReviewLane, FiniteSetTheorems, SequenceTheorems, WellFoundedInduction, TLAPS

-----------------------------------------------------------------------------
(* The inductive invariant *)

Reviews ==
    [task : Task, head : Commit \cup {NoHead}, shown : Commit \cup {NoHead},
     status : {"pending", "running", "passed", "revise", "tooling_held", "superseded"},
     verdict : {"none", "PASS", "REVISE", "TOOLING_FAILURE"},
     held : {"none", "cap", "stale", "tooling"}, retry : {"none", "waiting", "due"},
     superseded : BOOLEAN, lock : {"none", "open", "done"}]

Workers ==
    [pc : {"idle", "scan", "list", "pick", "lock", "run", "claim", "git", "review",
           "record", "hold", "fire", "recover"},
     via : {"none", "tick", "poll", "hand"}, row : Nat, head : Commit \cup {NoHead},
     answer : {"none", "PASS", "REVISE", "stale", "tooling"},
     todo : SUBSET Nat, budget : 0..Cap, task : SUBSET Task]

Tasks == [status : {"executing", "in_review", "blocked", "accepted"},
          reason : {"none", "drive", "other"}, wrapped : BOOLEAN]

TasksTyped ==
    /\ task \in [Task -> Tasks]
    /\ \A t \in Task : task[t].reason # "none" <=> task[t].status = "blocked"
    /\ main \in 0..MaxMain /\ branch \in [Task -> Commit]
    /\ applied \subseteq Id \X Commit

\* A verdict is about the head the reviewer was shown.
Sound(x) ==
    /\ x.status = "tooling_held" => x.retry # "none"
    /\ x.status = "superseded" => x.superseded
    /\ x.verdict \in {"PASS", "REVISE"} => x.head = x.shown /\ x.shown \in Commit

ReviewsSound ==
    /\ review \in Seq(Reviews) /\ Len(review) <= MaxReviews
    /\ \A r \in Id : Sound(review[r])

\* A process at work on a review, and one that answers for it.
Serves(w)   == w.pc \in {"run", "claim", "git", "review", "record", "hold", "fire"}
InAnswer(w) == w.pc \in {"git", "review", "record", "hold", "fire"}

\* Who reviews an attempt holds it: it is running, or was superseded under
\* its reviewer, and its verdict is the reviewer's.
Placed(w, rows) ==
    /\ w.row <= Len(rows) + 1 /\ w.todo \subseteq 1..Len(rows)
    /\ w.pc = "lock" \/ Serves(w) => w.row \in 1..Len(rows)
    /\ w.pc = "lock" => w.via = "poll"
    /\ Serves(w) /\ w.via = "tick" => w.budget > 0
    /\ w.pc = "review" => w.head \in Commit
    /\ w.pc = "record" => w.answer \in {"PASS", "REVISE"} /\ rows[w.row].verdict = w.answer
    /\ w.pc = "hold" => w.answer \in {"stale", "tooling"}
    /\ w.pc = "fire" => rows[w.row].verdict = "REVISE"
    /\ InAnswer(w) => rows[w.row].status \notin {"pending", "tooling_held"}
    /\ w.pc \in {"git", "review", "record", "hold"}
          => rows[w.row].status \in {"running", "superseded"}
    /\ w.pc = "recover" => w.head \in Commit /\ \E t \in Task : w.task = {t}

WorkersSound ==
    /\ worker \in [Process -> Workers]
    /\ \A p \in Process : Placed(worker[p], review)
    /\ OneReviewer

Capped == Cardinality(Running) <= Cap

IInv == TasksTyped /\ ReviewsSound /\ WorkersSound /\ Capped

-----------------------------------------------------------------------------
(* What the invariant says of one attempt and one process *)

LEMMA Basics ==
    ASSUME ReviewsSound
    PROVE  /\ Len(review) \in Nat /\ Id \subseteq Nat \ {0} /\ IsFiniteSet(Running)
           /\ Running \subseteq Id /\ \A r \in Id : r <= Len(review)
           /\ \A r \in Id : review[r] \in Reviews
<1>1. Len(review) \in Nat /\ Id = 1..Len(review)
  BY DEF ReviewsSound, Id
<1>2. IsFiniteSet(Id)
  BY <1>1, FS_Interval
<1>3. Running \in SUBSET Id
  BY DEF Running, With
<1>4. IsFiniteSet(Running)
  BY <1>2, <1>3, FS_Subset
<1>5. \A r \in Id : review[r] \in Reviews
  BY <1>1, ElementOfSeq DEF ReviewsSound
<1> QED  BY <1>1, <1>3, <1>4, <1>5

LEMMA AnsweringIs ==
    /\ Answering = {p \in Process : InAnswer(worker[p])}
    /\ \A p \in Process : p \in Answering <=> InAnswer(worker[p])
BY DEF Answering, Reviewers, InAnswer, At

\* Writing one attempt
LEMMA RowWritten ==
    ASSUME ReviewsSound, NEW r \in Id, NEW x \in Reviews, Sound(x),
           review' = [review EXCEPT ![r] = x]
    PROVE  /\ ReviewsSound' /\ Len(review') = Len(review) /\ Id' = Id
           /\ review'[r] = x
           /\ \A s \in Id : review'[s] = IF s = r THEN x ELSE review[s]
<1>1. r \in 1..Len(review) /\ review \in Seq(Reviews)
  BY DEF ReviewsSound, Id
<1>2. /\ review' \in Seq(Reviews) /\ Len(review') = Len(review)
      /\ \A s \in 1..Len(review) : review'[s] = IF s = r THEN x ELSE review[s]
  BY <1>1, ExceptSeq
<1>3. Id' = Id
  BY <1>2 DEF Id
<1>4. \A s \in Id : review'[s] = IF s = r THEN x ELSE review[s]
  BY <1>2 DEF Id
<1>5. \A s \in Id : Sound(review'[s])
  BY <1>4 DEF ReviewsSound
<1>6. ReviewsSound'
  BY <1>2, <1>3, <1>5 DEF ReviewsSound, Sound
<1> QED  BY <1>2, <1>3, <1>4, <1>6

\* A process whose attempts keep what it relies on stays well placed.
LEMMA StaysPlaced ==
    ASSUME ReviewsSound, ReviewsSound', Len(review) <= Len(review'),
           NEW w \in Workers, Placed(w, review),
           InAnswer(w) => /\ review'[w.row].verdict = review[w.row].verdict
                          /\ review'[w.row].status \in {review[w.row].status, "superseded"}
    PROVE  Placed(w, review')
<1>1. Len(review) \in Nat /\ Len(review') \in Nat
  BY DEF ReviewsSound
<1>2. w.row \in Nat /\ 1..Len(review) \subseteq 1..Len(review')
  BY <1>1 DEF Workers
<1> QED  BY <1>1, <1>2 DEF Placed, InAnswer, Serves

\* Steps in which nobody comes to answer for an attempt: what is answered for
\* keeps its verdict, and its status unless it is superseded.
Kept(r) ==
    /\ review'[r].verdict = review[r].verdict
    /\ \/ review'[r].status \in {review[r].status, "superseded"}
       \/ review[r].status = "tooling_held" /\ review'[r].status = "pending"

LEMMA NobodyComes ==
    ASSUME IInv, ReviewsSound', Len(review) <= Len(review'), \A r \in Id : Kept(r),
           \A r \in Id' : review'[r].status = "running" => r \in Id /\ review[r].status = "running",
           worker' \in [Process -> Workers],
           \A q \in Process : \/ worker'[q] = worker[q]
                              \/ Placed(worker'[q], review') /\ ~InAnswer(worker'[q])
    PROVE  ReviewsSound' /\ WorkersSound' /\ Capped'
<1>1. ASSUME NEW q \in Process PROVE Placed(worker'[q], review')
  <2>1. worker[q] \in Workers /\ Placed(worker[q], review)
    BY DEF IInv, WorkersSound
  <2>2. CASE worker'[q] = worker[q]
    <3>1. ASSUME InAnswer(worker[q])
          PROVE  /\ review'[worker[q].row].verdict = review[worker[q].row].verdict
                 /\ review'[worker[q].row].status \in {review[worker[q].row].status, "superseded"}
      <4>1. worker[q].row \in Id /\ review[worker[q].row].status # "tooling_held"
        BY <2>1, <3>1 DEF Placed, InAnswer, Serves, Id
      <4> QED  BY <4>1 DEF Kept
    <3> QED  BY <2>1, <2>2, <3>1, StaysPlaced DEF IInv
  <2> QED  BY <2>2
<1>2. OneReviewer'
  <2>1. \A p \in Process : InAnswer(worker'[p]) => worker'[p] = worker[p]
    OBVIOUS
  <2>2. \A p \in Process : p \in Answering' <=> InAnswer(worker'[p])
    BY DEF Answering, Reviewers, InAnswer, At
  <2>3. \A p \in Answering' : p \in Process
    BY DEF Answering, Reviewers
  <2> QED  BY <2>1, <2>2, <2>3, AnsweringIs DEF IInv, WorkersSound, OneReviewer
<1>3. Capped'
  <2>1. Running' \in SUBSET Running
    BY DEF Running, With
  <2>2. IsFiniteSet(Running)
    BY Basics DEF IInv
  <2>3. IsFiniteSet(Running') /\ Cardinality(Running') <= Cardinality(Running)
    BY <2>1, <2>2, FS_Subset
  <2>4. Cardinality(Running) \in Nat /\ Cardinality(Running') \in Nat
    BY <2>2, <2>3, FS_CardinalityType
  <2> QED  BY <2>3, <2>4, ReviewAssumption DEF IInv, Capped
<1> QED  BY <1>1, <1>2, <1>3 DEF WorkersSound

\* Steps in which a process takes an attempt that waits, or goes on with the
\* one it answers for.
LEMMA OwnerWrites ==
    ASSUME IInv, NEW r \in Id, NEW x \in Reviews, Sound(x),
           review' = [review EXCEPT ![r] = x],
           NEW p \in Process, NEW w \in Workers, worker' = [worker EXCEPT ![p] = w],
           \/ InAnswer(worker[p]) /\ worker[p].row = r
           \/ review[r].status = "pending",
           Placed(w, review'), InAnswer(w) => w.row = r,
           x.status = "running" => \/ review[r].status = "running"
                                  \/ Cardinality(Running) < Cap
    PROVE  ReviewsSound' /\ WorkersSound' /\ Capped'
<1>1. /\ ReviewsSound' /\ Len(review') = Len(review) /\ Id' = Id
      /\ \A s \in Id : review'[s] = IF s = r THEN x ELSE review[s]
  BY RowWritten DEF IInv
<1>2. worker \in [Process -> Workers] /\ OneReviewer
      /\ \A q \in Process : Placed(worker[q], review)
  BY DEF IInv, WorkersSound
<1>3. worker' \in [Process -> Workers] /\ worker'[p] = w
      /\ \A q \in Process \ {p} : worker'[q] = worker[q]
  BY <1>2
<1>4. ASSUME NEW q \in Process \ {p}, InAnswer(worker[q])
      PROVE  worker[q].row \in Id /\ worker[q].row # r
  <2>1. Placed(worker[q], review) /\ Placed(worker[p], review)
    BY <1>2
  <2>2. worker[q].row \in Id /\ review[worker[q].row].status # "pending"
    BY <1>4, <2>1 DEF Placed, InAnswer, Serves, Id
  <2>3. CASE InAnswer(worker[p]) /\ worker[p].row = r
    BY <1>2, <1>4, <2>2, <2>3, AnsweringIs DEF OneReviewer
  <2> QED  BY <2>2, <2>3
<1>5. ASSUME NEW q \in Process PROVE Placed(worker'[q], review')
  <2>1. CASE q = p
    BY <1>3, <2>1
  <2>2. CASE q # p
    <3>1. InAnswer(worker[q]) => review'[worker[q].row] = review[worker[q].row]
      BY <1>1, <1>4, <2>2
    <3>2. worker[q] \in Workers /\ Placed(worker[q], review)
      BY <1>2
    <3>3. Len(review) <= Len(review')
      BY <1>1, Basics DEF IInv
    <3> QED  BY <1>1, <1>3, <2>2, <3>1, <3>2, <3>3, StaysPlaced DEF IInv
  <2> QED  BY <2>1, <2>2
<1>6. OneReviewer'
  <2>1. \A q \in Process : q \in Answering' <=> InAnswer(worker'[q])
    BY DEF Answering, Reviewers, InAnswer, At
  <2>2. \A q \in Answering' : q \in Process
    BY DEF Answering, Reviewers
  <2> QED  BY <1>2, <1>3, <1>4, <2>1, <2>2, AnsweringIs DEF OneReviewer
<1>7. Capped'
  <2>1. IsFiniteSet(Running) /\ Running \subseteq Id
    BY Basics DEF IInv
  <2>2. Running' \in SUBSET (Running \cup {r})
    BY <1>1 DEF Running, With
  <2>3. IsFiniteSet(Running \cup {r})
        /\ Cardinality(Running \cup {r}) =
             IF r \in Running THEN Cardinality(Running) ELSE Cardinality(Running) + 1
    BY <2>1, FS_AddElement
  <2>4. IsFiniteSet(Running') /\ Cardinality(Running') <= Cardinality(Running \cup {r})
    BY <2>2, <2>3, FS_Subset
  <2>5. Cardinality(Running) \in Nat /\ Cardinality(Running') \in Nat
    BY <2>1, <2>4, FS_CardinalityType
  <2>6. CASE r \in Running \/ Cardinality(Running) < Cap
    BY <2>3, <2>4, <2>5, <2>6, ReviewAssumption DEF IInv, Capped
  <2>7. CASE r \notin Running /\ ~(Cardinality(Running) < Cap)
    <3>1. x.status # "running"
      BY <2>7 DEF Running, With
    <3>2. Running' \in SUBSET Running
      BY <1>1, <3>1 DEF Running, With
    <3>3. Cardinality(Running') <= Cardinality(Running)
      BY <2>1, <3>2, FS_Subset
    <3> QED  BY <2>5, <3>3, ReviewAssumption DEF IInv, Capped
  <2> QED  BY <2>6, <2>7
<1> QED  BY <1>1, <1>3, <1>5, <1>6, <1>7 DEF WorkersSound

-----------------------------------------------------------------------------
(* Pieces of the actions *)

\* Where a process goes when it is done with an attempt
Left(w, budget) ==
    IF w.via = "tick"
      THEN [Idle EXCEPT !.pc = "pick", !.via = "tick", !.todo = w.todo, !.budget = budget]
      ELSE Idle

LEMMA LeftTyped ==
    ASSUME NEW w \in Workers, NEW budget, w.via = "tick" => budget \in 0..Cap
    PROVE  /\ Left(w, budget) \in Workers
           /\ Left(w, budget).pc \in {"idle", "pick"}
           /\ Left(w, budget).row = 0
           /\ Left(w, budget).todo \in {{}, w.todo}
<1>1. Idle \in Workers
  BY ReviewAssumption DEF Idle, Workers
<1>2. CASE w.via # "tick"
  BY <1>1, <1>2 DEF Left, Idle
<1>3. CASE w.via = "tick"
  <2>1. Left(w, budget) = [pc |-> "pick", via |-> "tick", row |-> 0, head |-> NoHead,
                           answer |-> "none", todo |-> w.todo, budget |-> budget, task |-> {}]
    BY <1>3 DEF Left, Idle
  <2>2. w.todo \in SUBSET Nat
    BY DEF Workers
  <2> QED  BY <1>3, <2>1, <2>2 DEF Workers
<1> QED  BY <1>2, <1>3

LEMMA LeftPlaced ==
    ASSUME NEW w \in Workers, NEW budget, w.via = "tick" => budget \in 0..Cap,
           NEW rows \in Seq(Reviews), w.todo \subseteq 1..Len(rows)
    PROVE  Left(w, budget) \in Workers /\ ~InAnswer(Left(w, budget))
           /\ Placed(Left(w, budget), rows)
<1> DEFINE v == Left(w, budget)
<1>1. v \in Workers /\ v.pc \in {"idle", "pick"} /\ v.row = 0 /\ v.todo \in {{}, w.todo}
  BY LeftTyped
<1>2. Len(rows) \in Nat
  OBVIOUS
<1>3. v.row <= Len(rows) + 1 /\ v.todo \subseteq 1..Len(rows)
  BY <1>1, <1>2
<1>4. \A u \in Workers : /\ u.pc \in {"idle", "pick"}
                         /\ u.row <= Len(rows) + 1 /\ u.todo \subseteq 1..Len(rows)
                         => Placed(u, rows) /\ ~InAnswer(u)
  BY DEF Placed, Serves, InAnswer
<1> QED  BY <1>1, <1>3, <1>4

LEMMA Leaving ==
    ASSUME IInv, NEW p \in Process, NEW budget, Leaves(p, budget)
    PROVE  worker' = [worker EXCEPT ![p] = Left(worker[p], budget)]
BY DEF Leaves, Left, IInv, WorkersSound

\* Closing the poll's lock touches nothing else of the attempt.
Closed(p, x) == IF worker[p].via = "poll" THEN [x EXCEPT !.lock = "done"] ELSE x

LEMMA ClosedTyped ==
    ASSUME NEW p \in Process, NEW x \in Reviews, Sound(x)
    PROVE  /\ Closed(p, x) \in Reviews /\ Sound(Closed(p, x))
           /\ Closed(p, x).status = x.status /\ Closed(p, x).verdict = x.verdict
           /\ Closed(p, x).task = x.task
<1> DEFINE y == [x EXCEPT !.lock = "done"]
<1>1. y \in Reviews /\ y.status = x.status /\ y.verdict = x.verdict /\ y.task = x.task
      /\ y.head = x.head /\ y.shown = x.shown /\ y.retry = x.retry
      /\ y.superseded = x.superseded
  BY DEF Reviews
<1>2. Sound(y)
  BY <1>1 DEF Sound
<1> QED  BY <1>1, <1>2 DEF Closed

LEMMA Unlocking ==
    ASSUME ReviewsSound, NEW p \in Process, worker[p].row \in Id, NEW x \in Reviews,
           NEW rows, rows = [review EXCEPT ![worker[p].row] = x]
    PROVE  Unlocked(p, rows) = [review EXCEPT ![worker[p].row] = Closed(p, x)]
<1> DEFINE r == worker[p].row
<1>1. r \in 1..Len(review) /\ review \in Seq(Reviews)
  BY DEF ReviewsSound, Id
<1>2. review = [i \in 1..Len(review) |-> review[i]]
  BY <1>1
<1>3. DOMAIN review = 1..Len(review)
  BY <1>1
<1>4. rows = [i \in 1..Len(review) |-> IF i = r THEN x ELSE review[i]]
  BY <1>1, <1>3
<1>5. [rows EXCEPT ![r].lock = "done"]
        = [i \in 1..Len(review) |-> IF i = r THEN [x EXCEPT !.lock = "done"] ELSE review[i]]
  BY <1>1, <1>4
<1>6. [review EXCEPT ![r] = [x EXCEPT !.lock = "done"]]
        = [i \in 1..Len(review) |-> IF i = r THEN [x EXCEPT !.lock = "done"] ELSE review[i]]
  BY <1>1, <1>3
<1> QED  BY <1>5, <1>6 DEF Unlocked, Closed

-----------------------------------------------------------------------------
(* Least and greatest numbers *)

\* Of the sets Above(i) of the elements from i on, one is smallest.
LEMMA GreatestExists ==
    ASSUME NEW n \in Nat, NEW S, S \subseteq 1..n, S # {}
    PROVE  Max(S) \in S /\ \A m \in S : m <= Max(S)
<1> DEFINE Above(i) == {m \in S : i <= m}
           Aboves   == {Above(i) : i \in S}
<1>1. IsFiniteSet(S)
  <2>1. S \in SUBSET (1..n) /\ IsFiniteSet(1..n)
    BY FS_Interval
  <2> QED  BY <2>1, FS_Subset
<1>2. Aboves \subseteq FiniteSubsetsOf(S) /\ Aboves # {}
  <2>1. \A i \in S : Above(i) \in SUBSET S
    OBVIOUS
  <2> HIDE DEF Above
  <2>2. \A i \in S : Above(i) \in FiniteSubsetsOf(S)
    BY <1>1, <2>1, FS_Subset DEF FiniteSubsetsOf
  <2> QED  BY <2>2
<1>3. PICK T \in Aboves : \A U \in Aboves : <<U, T>> \notin StrictSubsetOrdering(S)
  <2> HIDE DEF Aboves
  <2> QED  BY <1>2, FS_StrictSubsetOrderingWellFounded, WFMin
<1>4. PICK i \in S : T = Above(i)
  BY <1>3
<1>5. ASSUME NEW m \in S PROVE i >= m /\ m <= i
  <2> SUFFICES ASSUME ~(m <= i) PROVE FALSE
    OBVIOUS
  <2>1. i \in Nat /\ m \in Nat /\ \A k \in S : k \in Nat
    OBVIOUS
  <2>2. \A k \in S : m <= k => i <= k
    BY <2>1
  <2>3. i \in Above(i)
    BY <2>1
  <2>4. i \notin Above(m)
    OBVIOUS
  <2>5. Above(m) \subseteq Above(i)
    BY <2>2
  <2>6. Above(m) \in SUBSET S /\ Above(i) \in SUBSET S /\ Above(m) \in Aboves
    OBVIOUS
  <2> HIDE DEF Above, Aboves
  <2>7. <<Above(m), Above(i)>> \in StrictSubsetOrdering(S)
    BY <2>3, <2>4, <2>5, <2>6 DEF StrictSubsetOrdering
  <2> QED  BY <1>3, <1>4, <2>6, <2>7
<1> QED  BY <1>5 DEF Max

LEMMA LeastExists ==
    ASSUME NEW n \in Nat, NEW S, S \subseteq 1..n, S # {}
    PROVE  Min(S) \in S
<1> DEFINE Mirror == {n + 1 - i : i \in S}
<1>1. \A i \in S : i \in Nat /\ n + 1 - i \in 1..n
  OBVIOUS
<1>2. Mirror \subseteq 1..n /\ Mirror # {}
  BY <1>1
<1>3. Max(Mirror) \in Mirror /\ \A j \in Mirror : j <= Max(Mirror)
  <2> HIDE DEF Mirror
  <2> QED  BY <1>2, GreatestExists
<1>4. PICK i \in S : Max(Mirror) = n + 1 - i
  BY <1>3
<1>5. ASSUME NEW j \in S PROVE i <= j
  <2>1. n + 1 - j <= n + 1 - i
    BY <1>3, <1>4
  <2> QED  BY <1>1, <2>1
<1> QED  BY <1>5 DEF Min

-----------------------------------------------------------------------------
(* The steps on reviews, one lemma per kind *)

\* What every step leaves behind
Upheld == ReviewsSound' /\ WorkersSound' /\ Capped' /\ Len(review) <= Len(review')

LEMMA Unmoved ==
    ASSUME IInv, UNCHANGED <<review, worker>>
    PROVE  Upheld
<1>1. Id' = Id /\ Len(review) <= Len(review')
  BY Basics DEF Id, IInv
<1>2. ReviewsSound' /\ Capped'
  BY <1>1 DEF ReviewsSound, Sound, Capped, Running, With, IInv
<1>3. WorkersSound'
  BY DEF WorkersSound, OneReviewer, Answering, Reviewers, At, Placed, Serves, InAnswer, IInv
<1> QED  BY <1>1, <1>2, <1>3 DEF Upheld

\* One process moves on, and answers for nothing.
Moves(p, w) == w \in Workers /\ ~InAnswer(w) /\ worker' = [worker EXCEPT ![p] = w]

LEMMA ProcessMoves ==
    ASSUME IInv, ReviewsSound', Len(review) <= Len(review'), \A r \in Id : Kept(r),
           \A r \in Id' : review'[r].status = "running" => r \in Id /\ review[r].status = "running",
           NEW p \in Process, NEW w, Moves(p, w), Placed(w, review')
    PROVE  Upheld
<1>1. worker \in [Process -> Workers]
  BY DEF IInv, WorkersSound
<1>2. worker' \in [Process -> Workers] /\ worker'[p] = w
      /\ \A q \in Process \ {p} : worker'[q] = worker[q]
  BY <1>1 DEF Moves
<1>3. \A q \in Process : \/ worker'[q] = worker[q]
                         \/ Placed(worker'[q], review') /\ ~InAnswer(worker'[q])
  BY <1>2 DEF Moves
<1> QED  BY <1>2, <1>3, NobodyComes DEF Upheld

\* ... leaving the reviews alone,
LEMMA OnlyMoves ==
    ASSUME IInv, UNCHANGED review, NEW p \in Process, NEW w, Moves(p, w), Placed(w, review)
    PROVE  Upheld
<1>1. Id' = Id /\ Len(review) <= Len(review')
  BY Basics DEF Id, IInv
<1>2. ReviewsSound'
  BY <1>1 DEF ReviewsSound, Sound, IInv
<1>3. \A r \in Id : Kept(r)
  BY DEF Kept
<1>4. Placed(w, review')
  BY DEF Placed
<1> QED  BY <1>1, <1>2, <1>3, <1>4, ProcessMoves

\* ... writing one of them,
LEMMA WritesOne ==
    ASSUME IInv, NEW r \in Id, NEW x \in Reviews, Sound(x),
           x.status = review[r].status, x.verdict = review[r].verdict,
           review' = [review EXCEPT ![r] = x],
           NEW p \in Process, NEW w, Moves(p, w), Placed(w, review)
    PROVE  Upheld
<1>1. /\ ReviewsSound' /\ Len(review') = Len(review) /\ Id' = Id
      /\ \A s \in Id : review'[s] = IF s = r THEN x ELSE review[s]
  BY RowWritten DEF IInv
<1>2. Len(review) <= Len(review')
  BY <1>1, Basics DEF IInv
<1>3. \A s \in Id : review'[s].status = review[s].status /\ review'[s].verdict = review[s].verdict
  BY <1>1
<1>4. \A s \in Id : Kept(s)
  BY <1>3 DEF Kept
<1>5. Placed(w, review')
  BY <1>1, <1>2, StaysPlaced DEF Moves, IInv
<1> QED  BY <1>1, <1>2, <1>3, <1>4, <1>5, ProcessMoves

\* An attempt whose retry is due becomes pending and keeps everything else.
LEMMA BackInLine ==
    ASSUME NEW x \in Reviews
    PROVE  LET z == [x EXCEPT !.status = "pending", !.held = "none", !.retry = "none"]
           IN  /\ z \in Reviews /\ z.status = "pending" /\ z.verdict = x.verdict
               /\ z.head = x.head /\ z.shown = x.shown
<1> DEFINE z == [x EXCEPT !.status = "pending", !.held = "none", !.retry = "none"]
<1>1. /\ z.task = x.task /\ z.head = x.head /\ z.shown = x.shown /\ z.status = "pending"
      /\ z.verdict = x.verdict /\ z.held = "none" /\ z.retry = "none"
      /\ z.superseded = x.superseded /\ z.lock = x.lock
  BY DEF Reviews
<1>2. z \in Reviews
  BY DEF Reviews
<1> QED  BY <1>1, <1>2

\* ... promoting those whose retry is due,
LEMMA Promoting ==
    ASSUME IInv, review' = Promoted, NEW p \in Process, NEW w, Moves(p, w), Placed(w, review)
    PROVE  Upheld
<1> DEFINE y(r) == [review[r] EXCEPT !.status = "pending", !.held = "none", !.retry = "none"]
           due(r) == review[r].status = "tooling_held" /\ review[r].retry = "due"
<1>1. Len(review) \in Nat /\ Id = 1..Len(review) /\ \A r \in Id : review[r] \in Reviews
  BY Basics DEF IInv, Id
<1>2. \A r \in Id : /\ y(r) \in Reviews /\ y(r).status = "pending"
                    /\ y(r).verdict = review[r].verdict
                    /\ y(r).head = review[r].head /\ y(r).shown = review[r].shown
  BY <1>1, BackInLine
<1>3. \A r \in Id : Sound(y(r))
  BY <1>2 DEF Sound, IInv, ReviewsSound
<1>4. \A r \in Id : review'[r] = IF due(r) THEN y(r) ELSE review[r]
  BY DEF Promoted
<1>5. review' \in Seq(Reviews) /\ Len(review') = Len(review) /\ Id' = Id
  <2>1. review' = [r \in 1..Len(review) |-> IF due(r) THEN y(r) ELSE review[r]]
    BY <1>1 DEF Promoted
  <2>2. \A r \in 1..Len(review) : (IF due(r) THEN y(r) ELSE review[r]) \in Reviews
    BY <1>1, <1>2
  <2>3. review' \in [1..Len(review) -> Reviews]
    BY <2>1, <2>2
  <2>4. review' \in Seq(Reviews) /\ Len(review') = Len(review)
    BY <1>1, <2>3, SeqDef
  <2> QED  BY <2>4 DEF Id
<1> HIDE DEF y, due
<1>6. ReviewsSound'
  BY <1>1, <1>3, <1>4, <1>5 DEF ReviewsSound, Sound, IInv
<1>7. \A r \in Id : Kept(r)
  BY <1>2, <1>4 DEF Kept, due
<1>8. \A r \in Id' : review'[r].status = "running" => r \in Id /\ review[r].status = "running"
  BY <1>2, <1>4, <1>5
<1>9. Len(review) <= Len(review')
  BY <1>1, <1>5
<1>10. Placed(w, review')
  BY <1>6, <1>9, StaysPlaced DEF Moves, IInv
<1> QED  BY <1>6, <1>7, <1>8, <1>9, <1>10, ProcessMoves

\* A pending attempt, or one imported, is a sound one.
LEMMA MintedTyped ==
    ASSUME NEW t \in Task, NEW head \in Commit \cup {NoHead}
    PROVE  /\ Pending(t, head) \in Reviews /\ Sound(Pending(t, head))
           /\ Pending(t, head).status = "pending" /\ Pending(t, head).head = head
           /\ Pending(t, head).verdict = "none"
BY DEF Pending, Minted, Reviews, Sound

LEMMA Appended ==
    ASSUME IInv, NEW x \in Reviews, Sound(x), x.status # "running",
           Len(review) < MaxReviews, review' = Append(review, x), UNCHANGED worker
    PROVE  Upheld
<1>1. review \in Seq(Reviews) /\ Len(review) \in Nat /\ Id = 1..Len(review)
  BY Basics DEF IInv, ReviewsSound, Id
<1>2. /\ review' \in Seq(Reviews) /\ Len(review') = Len(review) + 1
      /\ \A r \in 1..Len(review) : review'[r] = review[r]
      /\ review'[Len(review) + 1] = x
  BY <1>1
<1>3. Id' = 1..(Len(review) + 1) /\ \A r \in Id' : r \in Id \/ r = Len(review) + 1
  BY <1>1, <1>2 DEF Id
<1>4. \A r \in Id' : Sound(review'[r])
  BY <1>1, <1>2, <1>3 DEF IInv, ReviewsSound
<1>5. ReviewsSound'
  <2>1. MaxReviews \in Nat
    BY ReviewAssumption
  <2>2. Len(review') <= MaxReviews
    BY <1>1, <1>2, <2>1
  <2> QED  BY <1>2, <1>4, <2>2 DEF ReviewsSound, Sound
<1>6. \A r \in Id : Kept(r)
  BY <1>1, <1>2 DEF Kept
<1>7. \A r \in Id' : review'[r].status = "running" => r \in Id /\ review[r].status = "running"
  BY <1>1, <1>2, <1>3
<1>8. worker' \in [Process -> Workers] /\ Len(review) <= Len(review')
  BY <1>1, <1>2 DEF IInv, WorkersSound
<1> QED  BY <1>5, <1>6, <1>7, <1>8, NobodyComes DEF Upheld

\* One process, as the actions name it
LEMMA OneProcess ==
    ASSUME IInv, NEW p \in Process
    PROVE  worker[p] \in Workers /\ Placed(worker[p], review)
BY DEF IInv, WorkersSound

LEMMA Stepped ==
    ASSUME IInv, NEW p \in Process, NEW pc, Goes(p, pc)
    PROVE  worker' = [worker EXCEPT ![p] = [worker[p] EXCEPT !.pc = pc]]
BY DEF Goes, IInv, WorkersSound

LEMMA IdleMoves ==
    ASSUME IInv, NEW p \in Process, worker' = [worker EXCEPT ![p] = Idle]
    PROVE  Moves(p, Idle) /\ Placed(Idle, review)
<1>1. Idle \in Workers
  BY ReviewAssumption DEF Idle, Workers
<1>2. Len(review) \in Nat
  BY Basics DEF IInv
<1> QED  BY <1>1, <1>2 DEF Moves, Placed, Serves, InAnswer, Idle

LEMMA CrashStep ==
    ASSUME IInv, NEW p \in Process, worker' = [worker EXCEPT ![p] = Idle], UNCHANGED review
    PROVE  Upheld
BY IdleMoves, OnlyMoves

LEMMA PromoteStep ==
    ASSUME IInv, NEW p \in Process, Promote(p) \/ Begin(p)
    PROVE  Upheld
<1>1. worker[p] \in Workers /\ Placed(worker[p], review)
  BY OneProcess
<1>2. CASE Promote(p)
  <2> DEFINE w == [worker[p] EXCEPT !.pc = "list"]
  <2>1. review' = Promoted /\ worker' = [worker EXCEPT ![p] = w]
    BY <1>2, Stepped DEF Promote
  <2>2. w \in Workers /\ ~InAnswer(w)
    BY <1>1 DEF Workers, InAnswer
  <2>3. Placed(w, review)
    BY <1>1, <1>2 DEF Placed, Promote, At, Serves, InAnswer, Workers
  <2> QED  BY <2>1, <2>2, <2>3, Promoting DEF Moves
<1>3. CASE Begin(p)
  <2> DEFINE w == [worker[p] EXCEPT !.pc = "claim"]
  <2>1. review' = Promoted /\ worker' = [worker EXCEPT ![p] = w]
    BY <1>3, Stepped DEF Begin
  <2>2. w \in Workers /\ ~InAnswer(w)
    BY <1>1 DEF Workers, InAnswer
  <2>3. Placed(w, review)
    BY <1>1, <1>3 DEF Placed, Begin, At, Serves, InAnswer, Workers
  <2> QED  BY <2>1, <2>2, <2>3, Promoting DEF Moves
<1> QED  BY <1>2, <1>3

LEMMA ListStep ==
    ASSUME IInv, NEW d \in Process, List(d)
    PROVE  Upheld
<1>1. worker[d] \in Workers /\ Placed(worker[d], review)
  BY OneProcess
<1>2. Cardinality(Running) \in Nat
  BY Basics, FS_CardinalityType DEF IInv
<1> DEFINE left == IF Cardinality(Running) < Cap THEN Cap - Cardinality(Running) ELSE 0
           w == [worker[d] EXCEPT !.pc = "pick", !.via = "tick", !.todo = Unserviced,
                                  !.budget = left]
<1>3. worker' = [worker EXCEPT ![d] = w] /\ UNCHANGED review
  BY DEF List, IInv, WorkersSound
<1>4. left \in 0..Cap
  BY <1>2, ReviewAssumption
<1>5. Unserviced \subseteq 1..Len(review) /\ Unserviced \subseteq Nat
  BY Basics DEF Unserviced, With, Id, IInv
<1> HIDE DEF left
<1>6. w \in Workers /\ ~InAnswer(w)
  BY <1>1, <1>4, <1>5 DEF Workers, InAnswer
<1>7. Placed(w, review)
  BY <1>1, <1>5 DEF Placed, Serves, InAnswer, Workers
<1> QED  BY <1>3, <1>6, <1>7, OnlyMoves DEF Moves

\* An attempt, and its copy with the cap's note
LEMMA RowTyped ==
    ASSUME IInv, NEW r \in Id
    PROVE  /\ review[r] \in Reviews /\ Sound(review[r])
           /\ [review[r] EXCEPT !.held = "cap"] \in Reviews
           /\ Sound([review[r] EXCEPT !.held = "cap"])
           /\ [review[r] EXCEPT !.held = "cap"].status = review[r].status
           /\ [review[r] EXCEPT !.held = "cap"].verdict = review[r].verdict
<1>1. review[r] \in Reviews /\ Sound(review[r])
  BY Basics DEF IInv, ReviewsSound
<1> DEFINE x == [review[r] EXCEPT !.held = "cap"]
<1>2. /\ x \in Reviews /\ x.status = review[r].status /\ x.verdict = review[r].verdict
      /\ x.head = review[r].head /\ x.shown = review[r].shown /\ x.retry = review[r].retry
      /\ x.superseded = review[r].superseded
  BY <1>1 DEF Reviews
<1>3. Sound(x)
  BY <1>1, <1>2 DEF Sound
<1> QED  BY <1>1, <1>2, <1>3

\* Writing an attempt as it is
LEMMA RowItself ==
    ASSUME IInv, NEW r \in Id
    PROVE  review = [review EXCEPT ![r] = review[r]]
<1>1. review \in [1..Len(review) -> Reviews]
  BY LenProperties DEF IInv, ReviewsSound
<1> QED  BY <1>1

LEMMA HeldAtCap ==
    ASSUME IInv, NEW r \in Id, CapHeld(r)
    PROVE  review' = [review EXCEPT ![r] = [review[r] EXCEPT !.held = "cap"]]
BY DEF CapHeld

LEMMA WritesUnmoved ==
    ASSUME IInv, NEW r \in Id, NEW x \in Reviews, Sound(x),
           x.status = review[r].status, x.verdict = review[r].verdict,
           review' = [review EXCEPT ![r] = x], UNCHANGED worker
    PROVE  Upheld
<1>1. /\ ReviewsSound' /\ Len(review') = Len(review) /\ Id' = Id
      /\ \A s \in Id : review'[s] = IF s = r THEN x ELSE review[s]
  BY RowWritten DEF IInv
<1>2. Len(review) <= Len(review')
  BY <1>1, Basics DEF IInv
<1>3. \A s \in Id : review'[s].status = review[s].status /\ review'[s].verdict = review[s].verdict
  BY <1>1
<1>4. \A s \in Id : Kept(s)
  BY <1>3 DEF Kept
<1>5. worker' \in [Process -> Workers]
  BY DEF IInv, WorkersSound
<1> QED  BY <1>1, <1>2, <1>3, <1>4, <1>5, NobodyComes DEF Upheld

LEMMA PickStep ==
    ASSUME IInv, NEW d \in Process, Pick(d)
    PROVE  Upheld
<1>1. worker[d] \in Workers /\ Placed(worker[d], review) /\ worker[d].pc = "pick"
  BY OneProcess DEF Pick, At
<1>2. PICK r \in worker[d].todo : r = Min(worker[d].todo)
  <2>1. worker[d].todo # {} /\ worker[d].todo \subseteq 1..Len(review) /\ Len(review) \in Nat
    BY <1>1, Basics DEF Pick, Placed, IInv
  <2> QED  BY <2>1, LeastExists
<1>3. r \in Id
  BY <1>1, <1>2 DEF Placed, Id
<1>4. CASE worker[d].budget > 0 /\ Free
  <2> DEFINE w == [worker[d] EXCEPT !.pc = "run", !.row = r, !.todo = @ \ {r}]
  <2>1. worker' = [worker EXCEPT ![d] = w] /\ UNCHANGED review
    BY <1>2, <1>4 DEF Pick, IInv, WorkersSound
  <2>2. w \in Workers /\ ~InAnswer(w)
    BY <1>1, <1>3, Basics DEF Workers, InAnswer, IInv
  <2>3. Placed(w, review)
    BY <1>1, <1>3, <1>4 DEF Placed, Serves, InAnswer, Workers, Id, IInv, ReviewsSound
  <2> QED  BY <2>1, <2>2, <2>3, OnlyMoves DEF Moves
<1>5. CASE ~(worker[d].budget > 0 /\ Free)
  <2> DEFINE w == [worker[d] EXCEPT !.todo = @ \ {r}]
  <2>1. worker' = [worker EXCEPT ![d] = w] /\ CapHeld(r)
    BY <1>2, <1>5 DEF Pick, IInv, WorkersSound
  <2>2. w \in Workers /\ ~InAnswer(w)
    BY <1>1 DEF Workers, InAnswer
  <2>3. Placed(w, review)
    BY <1>1 DEF Placed, Serves, InAnswer, Workers
  <2>4. Moves(d, w)
    BY <2>1, <2>2 DEF Moves
  <2> QED  BY <1>3, <2>1, <2>3, <2>4, HeldAtCap, RowTyped, WritesOne
<1> QED  BY <1>4, <1>5

LEMMA PollStep1 ==
    ASSUME IInv, NEW d \in Process, NEW r \in Id, Poll(d, r)
    PROVE  Upheld
<1>1. CASE Free
  <2> DEFINE w == [Idle EXCEPT !.pc = "lock", !.via = "poll", !.row = r]
  <2>1. worker' = [worker EXCEPT ![d] = w] /\ UNCHANGED review
    BY <1>1 DEF Poll
  <2>2. Idle \in Workers
    BY ReviewAssumption DEF Idle, Workers
  <2>3. r \in Nat /\ r \in 1..Len(review) /\ Len(review) \in Nat
    BY Basics DEF IInv, Id
  <2>4. w \in Workers /\ ~InAnswer(w)
    BY <2>2, <2>3 DEF Workers, InAnswer
  <2>5. Placed(w, review)
    BY <2>2, <2>3 DEF Placed, Serves, InAnswer, Workers, Idle
  <2> QED  BY <2>1, <2>4, <2>5, OnlyMoves DEF Moves
<1>2. CASE ~Free
  BY <1>2, HeldAtCap, RowTyped, WritesUnmoved DEF Poll
<1> QED  BY <1>1, <1>2

LEMMA ByHandStep ==
    ASSUME IInv, NEW p \in Process, NEW r \in Id, RunByHand(p, r)
    PROVE  Upheld
<1> DEFINE w == [Idle EXCEPT !.pc = "run", !.via = "hand", !.row = r]
<1>1. worker' = [worker EXCEPT ![p] = w] /\ UNCHANGED review
  BY DEF RunByHand
<1>2. Idle \in Workers
  BY ReviewAssumption DEF Idle, Workers
<1>3. r \in Nat /\ r \in 1..Len(review) /\ Len(review) \in Nat
  BY Basics DEF IInv, Id
<1>4. w \in Workers /\ ~InAnswer(w)
  BY <1>2, <1>3 DEF Workers, InAnswer
<1>5. Placed(w, review)
  BY <1>2, <1>3 DEF Placed, Serves, InAnswer, Workers, Idle
<1> QED  BY <1>1, <1>4, <1>5, OnlyMoves DEF Moves

LEMMA TryClaimStep ==
    ASSUME IInv, NEW d \in Process, TryClaim(d)
    PROVE  Upheld
<1>1. worker[d] \in Workers /\ Placed(worker[d], review) /\ worker[d].pc = "lock"
  BY OneProcess DEF TryClaim, At
<1> DEFINE r == worker[d].row
           x == [review[r] EXCEPT !.lock = "open"]
           w == [worker[d] EXCEPT !.pc = "run"]
<1>2. r \in Id
  BY <1>1 DEF Placed, Id
<1>3. CASE review[r].lock = "none"
  <2>1. review' = [review EXCEPT ![r] = x] /\ worker' = [worker EXCEPT ![d] = w]
    BY <1>3, Stepped DEF TryClaim
  <2>2. review[r] \in Reviews /\ Sound(review[r])
    BY <1>2, RowTyped
  <2>3. /\ x \in Reviews /\ x.status = review[r].status /\ x.verdict = review[r].verdict
        /\ x.head = review[r].head /\ x.shown = review[r].shown /\ x.retry = review[r].retry
        /\ x.superseded = review[r].superseded
    BY <2>2 DEF Reviews
  <2>4. Sound(x)
    BY <2>2, <2>3 DEF Sound
  <2>5. w \in Workers /\ ~InAnswer(w)
    BY <1>1 DEF Workers, InAnswer
  <2>6. Placed(w, review)
    BY <1>1 DEF Placed, Serves, InAnswer, Workers
  <2>7. Moves(d, w)
    BY <2>1, <2>5 DEF Moves
  <2> QED  BY <1>2, <2>1, <2>3, <2>4, <2>6, <2>7, WritesOne
<1>4. CASE review[r].lock # "none"
  BY <1>4, CrashStep DEF TryClaim
<1> QED  BY <1>3, <1>4

LEMMA RetryStep ==
    ASSUME IInv, NEW r \in Id, RetryDue(r)
    PROVE  Upheld
<1> DEFINE x == [review[r] EXCEPT !.retry = "due"]
<1>1. review' = [review EXCEPT ![r] = x] /\ UNCHANGED worker
  BY DEF RetryDue
<1>2. review[r] \in Reviews /\ Sound(review[r])
  BY RowTyped
<1>3. /\ x \in Reviews /\ x.status = review[r].status /\ x.verdict = review[r].verdict
      /\ x.head = review[r].head /\ x.shown = review[r].shown /\ x.retry = "due"
      /\ x.superseded = review[r].superseded
  BY <1>2 DEF Reviews
<1>4. Sound(x)
  BY <1>2, <1>3 DEF Sound
<1> QED  BY <1>1, <1>3, <1>4, WritesUnmoved

-----------------------------------------------------------------------------
(* A run of the reviewer *)

\* A process that serves an attempt, and what it may leave with
LEMMA Serving ==
    ASSUME IInv, NEW p \in Process, Serves(worker[p])
    PROVE  /\ worker[p] \in Workers /\ Placed(worker[p], review) /\ worker[p].row \in Id
           /\ worker[p].via = "tick" => /\ worker[p].budget \in 0..Cap
                                        /\ worker[p].budget - 1 \in 0..Cap
<1>1. worker[p] \in Workers /\ Placed(worker[p], review)
  BY OneProcess
<1>2. worker[p].via = "tick" => worker[p].budget \in 0..Cap /\ worker[p].budget > 0
  BY <1>1 DEF Placed, Workers
<1>3. worker[p].via = "tick" => worker[p].budget - 1 \in 0..Cap
  BY <1>2, ReviewAssumption
<1>4. worker[p].row \in Id
  BY <1>1 DEF Placed, Id
<1> QED  BY <1>1, <1>2, <1>3, <1>4

\* Leaving an attempt with its lock closed
LEMMA Quits ==
    ASSUME IInv, NEW p \in Process, Serves(worker[p]),
           NEW budget, worker[p].via = "tick" => budget \in 0..Cap, Leaves(p, budget),
           NEW x \in Reviews, Sound(x), x.status # "running" \/ review[worker[p].row].status = "running",
           InAnswer(worker[p]) \/ review[worker[p].row].status = "pending"
             \/ /\ x.status = review[worker[p].row].status
                /\ x.verdict = review[worker[p].row].verdict,
           review' = Unlocked(p, [review EXCEPT ![worker[p].row] = x])
    PROVE  Upheld
<1> DEFINE r == worker[p].row
           w == Left(worker[p], budget)
           y == Closed(p, x)
<1>1. worker[p] \in Workers /\ Placed(worker[p], review) /\ r \in Id
  BY Serving
<1>2. y \in Reviews /\ Sound(y) /\ y.status = x.status /\ y.verdict = x.verdict
  BY ClosedTyped
<1>3. review' = [review EXCEPT ![r] = y]
  BY <1>1, Unlocking DEF IInv
<1>4. worker' = [worker EXCEPT ![p] = w]
  BY Leaving
<1>5. /\ ReviewsSound' /\ Len(review') = Len(review)
  BY <1>1, <1>2, <1>3, RowWritten DEF IInv
<1>6. worker[p].todo \subseteq 1..Len(review)
  BY <1>1 DEF Placed
<1>7. w \in Workers /\ ~InAnswer(w) /\ Placed(w, review) /\ Placed(w, review')
  BY <1>1, <1>5, <1>6, LeftPlaced DEF IInv, ReviewsSound
<1> HIDE DEF w, y
<1>8. CASE InAnswer(worker[p]) \/ review[r].status = "pending"
  <2>1. Len(review) <= Len(review')
    BY <1>5, Basics DEF IInv
  <2> QED  BY <1>1, <1>2, <1>3, <1>4, <1>7, <1>8, <2>1, OwnerWrites DEF Upheld
<1>9. CASE x.status = review[r].status /\ x.verdict = review[r].verdict
  <2>1. Moves(p, w)
    BY <1>4, <1>7 DEF Moves
  <2> QED  BY <1>1, <1>2, <1>3, <1>7, <1>9, <2>1, WritesOne
<1> QED  BY <1>8, <1>9

\* Going on with an attempt, having written it
LEMMA GoesOn ==
    ASSUME IInv, NEW p \in Process, Serves(worker[p]), NEW w \in Workers,
           worker' = [worker EXCEPT ![p] = w], w.row = worker[p].row,
           NEW x \in Reviews, Sound(x), review' = [review EXCEPT ![worker[p].row] = x],
           InAnswer(worker[p]) \/ review[worker[p].row].status = "pending",
           x.status = "running" => \/ review[worker[p].row].status = "running"
                                   \/ Cardinality(Running) < Cap,
           Placed(w, review')
    PROVE  Upheld
<1>1. worker[p].row \in Id
  BY Serving
<1>2. Len(review') = Len(review) /\ Len(review) <= Len(review')
  BY <1>1, RowWritten, Basics DEF IInv
<1> QED  BY <1>1, <1>2, OwnerWrites DEF Upheld

LEMMA ClaimStep ==
    ASSUME IInv, NEW p \in Process, Claim(p)
    PROVE  Upheld
<1> DEFINE r == worker[p].row
<1>1. worker[p].pc = "claim" /\ Serves(worker[p])
  BY DEF Claim, At, Serves
<1>2. /\ worker[p] \in Workers /\ Placed(worker[p], review) /\ r \in Id
      /\ worker[p].via = "tick" => worker[p].budget \in 0..Cap
  BY <1>1, Serving
<1>3. review[r] \in Reviews /\ Sound(review[r])
  BY <1>2, RowTyped
<1>4. CASE review[r].status = "pending" /\ Free
  <2> DEFINE x == [review[r] EXCEPT !.status = "running", !.held = "none"]
             w == [worker[p] EXCEPT !.pc = "git"]
  <2>1. review' = [review EXCEPT ![r] = x] /\ Goes(p, "git")
    BY <1>4 DEF Claim
  <2>2. worker' = [worker EXCEPT ![p] = w]
    BY <2>1, Stepped
  <2>3. /\ x \in Reviews /\ x.status = "running" /\ x.verdict = review[r].verdict
        /\ x.head = review[r].head /\ x.shown = review[r].shown
    BY <1>3 DEF Reviews
  <2>4. Sound(x)
    BY <1>3, <2>3 DEF Sound
  <2>5. w \in Workers
    BY <1>2 DEF Workers
  <2>6. Len(review') = Len(review) /\ review'[r] = x
    BY <1>2, <2>1, <2>3, <2>4, RowWritten DEF IInv
  <2>7. Placed(w, review')
    BY <1>1, <1>2, <2>3, <2>6 DEF Placed, Serves, InAnswer, Workers
  <2> QED  BY <1>1, <1>4, <2>1, <2>2, <2>3, <2>4, <2>5, <2>7, GoesOn DEF Free, Workers
<1>5. CASE review[r].status = "pending" /\ ~Free
  <2> DEFINE x == [review[r] EXCEPT !.held = "cap"]
  <2>1. x \in Reviews /\ Sound(x) /\ x.status = review[r].status
    BY <1>2, RowTyped
  <2>2. review' = Unlocked(p, [review EXCEPT ![r] = x]) /\ Leaves(p, worker[p].budget)
    BY <1>5 DEF Claim
  <2> QED  BY <1>1, <1>2, <1>5, <2>1, <2>2, Quits
<1>6. CASE review[r].status # "pending"
  <2>1. review' = Unlocked(p, [review EXCEPT ![r] = review[r]]) /\ Leaves(p, worker[p].budget)
    BY <1>2, <1>6, RowItself DEF Claim
  <2> QED  BY <1>1, <1>2, <1>3, <1>6, <2>1, Quits
<1> QED  BY <1>4, <1>5, <1>6

LEMMA Heads ==
    ASSUME TasksTyped, NEW t \in Task
    PROVE  branch[t] \in Commit /\ <<main, branch[t][2]>> \in Commit
BY DEF TasksTyped, Commit

LEMMA GitStep ==
    ASSUME IInv, NEW p \in Process, Prepare(p) \/ RebaseConflicts(p)
    PROVE  Upheld
<1> DEFINE r == worker[p].row
           t == Target(p)
<1>1. worker[p].pc = "git" /\ Serves(worker[p]) /\ InAnswer(worker[p])
  BY DEF Prepare, RebaseConflicts, At, Serves, InAnswer
<1>2. worker[p] \in Workers /\ Placed(worker[p], review) /\ r \in Id
  BY <1>1, Serving
<1>3. review[r] \in Reviews /\ Sound(review[r]) /\ review = [review EXCEPT ![r] = review[r]]
  BY <1>2, RowTyped, RowItself
<1>4. branch[t] \in Commit /\ <<main, branch[t][2]>> \in Commit
  BY <1>3, Heads DEF Target, Reviews, IInv
<1>5. CASE Prepare(p)
  <2> DEFINE w == [worker[p] EXCEPT !.pc = "review", !.head = <<main, branch[t][2]>>]
  <2>1. worker' = [worker EXCEPT ![p] = w] /\ review' = review
    BY <1>5 DEF Prepare, IInv, WorkersSound
  <2>2. w \in Workers /\ w.row = r
    BY <1>2, <1>4 DEF Workers
  <2>3. Placed(w, review')
    BY <1>1, <1>2, <1>4, <2>1 DEF Placed, Serves, InAnswer, Workers
  <2> QED  BY <1>1, <1>3, <2>1, <2>2, <2>3, GoesOn
<1>6. CASE RebaseConflicts(p)
  <2> DEFINE w == [worker[p] EXCEPT !.pc = "hold", !.head = branch[t], !.answer = "stale"]
  <2>1. worker' = [worker EXCEPT ![p] = w] /\ review' = review
    BY <1>6 DEF RebaseConflicts, IInv, WorkersSound
  <2>2. w \in Workers /\ w.row = r
    BY <1>2, <1>4 DEF Workers
  <2>3. Placed(w, review')
    BY <1>1, <1>2, <1>4, <2>1 DEF Placed, Serves, InAnswer, Workers
  <2> QED  BY <1>1, <1>3, <2>1, <2>2, <2>3, GoesOn
<1> QED  BY <1>5, <1>6

LEMMA AnswersStep ==
    ASSUME IInv, NEW p \in Process, NEW verdict \in {"PASS", "REVISE"}, Answers(p, verdict)
    PROVE  Upheld
<1> DEFINE r == worker[p].row
           x == [review[r] EXCEPT !.verdict = verdict, !.head = worker[p].head,
                                  !.shown = worker[p].head]
           w == [worker[p] EXCEPT !.pc = "record", !.answer = verdict]
<1>1. worker[p].pc = "review" /\ Serves(worker[p]) /\ InAnswer(worker[p])
  BY DEF Answers, At, Serves, InAnswer
<1>2. worker[p] \in Workers /\ Placed(worker[p], review) /\ r \in Id
  BY <1>1, Serving
<1>3. review[r] \in Reviews /\ Sound(review[r]) /\ worker[p].head \in Commit
      /\ review[r].status \in {"running", "superseded"}
  BY <1>1, <1>2, RowTyped DEF Placed
<1>4. review' = [review EXCEPT ![r] = x] /\ worker' = [worker EXCEPT ![p] = w]
  BY DEF Answers, IInv, WorkersSound
<1>5. /\ x \in Reviews /\ x.status = review[r].status /\ x.verdict = verdict
      /\ x.head = worker[p].head /\ x.shown = worker[p].head /\ x.retry = review[r].retry
      /\ x.superseded = review[r].superseded
  BY <1>3 DEF Reviews
<1>6. Sound(x)
  BY <1>3, <1>5 DEF Sound
<1>7. Len(review') = Len(review) /\ review'[r] = x
  BY <1>2, <1>4, <1>5, <1>6, RowWritten DEF IInv
<1>8. w \in Workers /\ w.row = r
  BY <1>2 DEF Workers
<1>9. Placed(w, review')
  BY <1>1, <1>2, <1>3, <1>5, <1>7 DEF Placed, Serves, InAnswer, Workers
<1> HIDE DEF x, w
<1> QED  BY <1>1, <1>4, <1>5, <1>6, <1>8, <1>9, GoesOn

LEMMA FailsStep ==
    ASSUME IInv, NEW p \in Process, NEW persisted \in BOOLEAN, Fails(p, persisted)
    PROVE  Upheld
<1> DEFINE r == worker[p].row
           y == [review[r] EXCEPT !.verdict = "TOOLING_FAILURE", !.head = worker[p].head]
           x == IF persisted THEN y ELSE review[r]
           w == [worker[p] EXCEPT !.pc = "hold", !.answer = "tooling"]
<1>1. worker[p].pc \in {"git", "review"} /\ Serves(worker[p]) /\ InAnswer(worker[p])
  BY DEF Fails, At, Serves, InAnswer
<1>2. worker[p] \in Workers /\ Placed(worker[p], review) /\ r \in Id
  BY <1>1, Serving
<1>3. review[r] \in Reviews /\ Sound(review[r])
      /\ review[r].status \in {"running", "superseded"}
  BY <1>1, <1>2, RowTyped DEF Placed
<1>4. review' = [review EXCEPT ![r] = x] /\ worker' = [worker EXCEPT ![p] = w]
  <2>1. CASE persisted
    BY <2>1 DEF Fails, IInv, WorkersSound
  <2>2. CASE ~persisted
    BY <1>2, <2>2, RowItself DEF Fails, IInv, WorkersSound
  <2> QED  BY <2>1, <2>2
<1>5. /\ y \in Reviews /\ y.status = review[r].status /\ y.verdict = "TOOLING_FAILURE"
      /\ y.superseded = review[r].superseded /\ y.retry = review[r].retry
  BY <1>2, <1>3 DEF Reviews, Workers
<1>6. x \in Reviews /\ Sound(x) /\ x.status = review[r].status
  BY <1>3, <1>5 DEF Sound
<1>7. Len(review') = Len(review) /\ review'[r] = x
  BY <1>2, <1>4, <1>6, RowWritten DEF IInv
<1>8. w \in Workers /\ w.row = r
  BY <1>2 DEF Workers
<1>9. Placed(w, review')
  BY <1>1, <1>2, <1>3, <1>6, <1>7 DEF Placed, Serves, InAnswer, Workers
<1> HIDE DEF x, w
<1> QED  BY <1>1, <1>4, <1>6, <1>8, <1>9, GoesOn

LEMMA HoldStep ==
    ASSUME IInv, NEW p \in Process, Hold(p)
    PROVE  Upheld
<1> DEFINE r == worker[p].row
           head == IF worker[p].answer = "stale" THEN worker[p].head ELSE review[r].head
           x == [review[r] EXCEPT !.status = "tooling_held", !.verdict = "TOOLING_FAILURE",
                   !.held = worker[p].answer, !.retry = "waiting", !.head = head]
<1>1. worker[p].pc = "hold" /\ Serves(worker[p]) /\ InAnswer(worker[p])
  BY DEF Hold, Held, At, Serves, InAnswer
<1>2. /\ worker[p] \in Workers /\ Placed(worker[p], review) /\ r \in Id
      /\ worker[p].via = "tick" => worker[p].budget - 1 \in 0..Cap
  BY <1>1, Serving
<1>3. review[r] \in Reviews /\ Sound(review[r]) /\ worker[p].answer \in {"stale", "tooling"}
  BY <1>1, <1>2, RowTyped DEF Placed
<1>4. review' = Unlocked(p, [review EXCEPT ![r] = x]) /\ Leaves(p, worker[p].budget - 1)
  BY DEF Hold, Held
<1>5. head \in Commit \cup {NoHead}
  BY <1>2, <1>3 DEF Reviews, Workers
<1> HIDE DEF head
<1>6. /\ x \in Reviews /\ x.status = "tooling_held" /\ x.retry = "waiting"
      /\ x.verdict = "TOOLING_FAILURE"
  BY <1>3, <1>5 DEF Reviews
<1>7. Sound(x)
  BY <1>6 DEF Sound
<1> HIDE DEF x
<1> QED  BY <1>1, <1>2, <1>4, <1>6, <1>7, Quits

LEMMA RecordStep ==
    ASSUME IInv, NEW p \in Process, Record(p)
    PROVE  Upheld
<1> DEFINE r == worker[p].row
           pass == worker[p].answer = "PASS"
           x == [review[r] EXCEPT !.status = IF pass THEN "passed" ELSE "revise",
                   !.verdict = worker[p].answer, !.held = "none", !.retry = "none"]
<1>1. worker[p].pc = "record" /\ Serves(worker[p]) /\ InAnswer(worker[p])
  BY DEF Record, At, Serves, InAnswer
<1>2. /\ worker[p] \in Workers /\ Placed(worker[p], review) /\ r \in Id
      /\ worker[p].via = "tick" => worker[p].budget - 1 \in 0..Cap
  BY <1>1, Serving
<1>3. /\ review[r] \in Reviews /\ Sound(review[r]) /\ worker[p].answer \in {"PASS", "REVISE"}
      /\ review[r].verdict = worker[p].answer
  BY <1>1, <1>2, RowTyped DEF Placed
<1>4. /\ x \in Reviews /\ x.status = IF pass THEN "passed" ELSE "revise"
      /\ x.verdict = worker[p].answer /\ x.head = review[r].head /\ x.shown = review[r].shown
  BY <1>3 DEF Reviews
<1>5. Sound(x)
  BY <1>3, <1>4 DEF Sound
<1>6. CASE pass
  <2>1. review' = Unlocked(p, [review EXCEPT ![r] = x]) /\ Leaves(p, worker[p].budget - 1)
    BY <1>6 DEF Record
  <2> HIDE DEF x
  <2> QED  BY <1>1, <1>2, <1>4, <1>5, <1>6, <2>1, Quits
<1>7. CASE ~pass
  <2> DEFINE w == [worker[p] EXCEPT !.pc = "fire"]
  <2>1. review' = [review EXCEPT ![r] = x] /\ Goes(p, "fire")
    BY <1>7 DEF Record
  <2>2. worker' = [worker EXCEPT ![p] = w]
    BY <2>1, Stepped
  <2>3. w \in Workers /\ w.row = r
    BY <1>2 DEF Workers
  <2>4. Len(review') = Len(review) /\ review'[r] = x
    BY <1>2, <1>4, <1>5, <2>1, RowWritten DEF IInv
  <2> HIDE DEF x
  <2>5. x.verdict = "REVISE" /\ x.status = "revise"
    BY <1>3, <1>4, <1>7
  <2>6. Placed(w, review')
    BY <1>1, <1>2, <2>4, <2>5 DEF Placed, Serves, InAnswer, Workers
  <2> HIDE DEF w
  <2> QED  BY <1>1, <1>4, <1>5, <2>1, <2>2, <2>3, <2>5, <2>6, GoesOn
<1> QED  BY <1>6, <1>7

LEMMA FireStep ==
    ASSUME IInv, NEW p \in Process, Fire(p)
    PROVE  Upheld
<1> DEFINE r == worker[p].row
           budget == IF Errs(p) THEN worker[p].budget ELSE worker[p].budget - 1
<1>1. worker[p].pc = "fire" /\ Serves(worker[p]) /\ InAnswer(worker[p])
  BY DEF Fire, At, Serves, InAnswer
<1>2. /\ worker[p] \in Workers /\ r \in Id
      /\ worker[p].via = "tick" => budget \in 0..Cap
  BY <1>1, Serving
<1>3. review[r] \in Reviews /\ Sound(review[r])
  BY <1>2, RowTyped
<1>4. review' = Unlocked(p, [review EXCEPT ![r] = review[r]]) /\ Leaves(p, budget)
  BY <1>2, RowItself DEF Fire
<1> HIDE DEF budget
<1> QED  BY <1>1, <1>2, <1>3, <1>4, Quits

-----------------------------------------------------------------------------
(* recover-stale-base, and the rows the reconciler mints *)

LEMMA ReadStaleStep ==
    ASSUME IInv, NEW p \in Process, NEW t \in Task, ReadStale(p, t)
    PROVE  Upheld
<1> DEFINE w == [Idle EXCEPT !.pc = "recover", !.todo = StaleHeld(t), !.head = branch[t],
                             !.row = Len(review) + 1, !.task = {t}]
<1>1. worker' = [worker EXCEPT ![p] = w] /\ UNCHANGED review
  BY DEF ReadStale
<1>2. Idle \in Workers /\ branch[t] \in Commit
  <2>1. Idle \in Workers
    BY ReviewAssumption DEF Idle, Workers
  <2> QED  BY <2>1, Heads DEF IInv
<1>3. Len(review) \in Nat /\ StaleHeld(t) \subseteq 1..Len(review)
  BY Basics DEF IInv, StaleHeld, Of, Id
<1>4. StaleHeld(t) \in SUBSET Nat /\ {t} \in SUBSET Task /\ Len(review) + 1 \in Nat
  BY <1>3
<1>5. w \in Workers /\ ~InAnswer(w)
  BY <1>2, <1>3, <1>4 DEF Workers, InAnswer
<1>6. Placed(w, review)
  BY <1>2, <1>3 DEF Placed, Serves, InAnswer, Workers, Idle
<1> QED  BY <1>1, <1>5, <1>6, OnlyMoves DEF Moves

LEMMA RecoverStep ==
    ASSUME IInv, NEW p \in Process, RecoverStale(p)
    PROVE  Upheld
<1> DEFINE n == Len(review)
           s(r) == [review[r] EXCEPT !.status = "superseded", !.superseded = TRUE]
           y(r) == IF r \in worker[p].todo THEN s(r) ELSE review[r]
           old == [r \in Id |-> y(r)]
           x == Pending(CHOOSE t \in worker[p].task : TRUE, worker[p].head)
<1>1. worker[p] \in Workers /\ Placed(worker[p], review) /\ worker[p].pc = "recover"
  BY OneProcess DEF RecoverStale, At
<1>2. worker' = [worker EXCEPT ![p] = Idle]
  BY DEF RecoverStale
<1>3. n \in Nat /\ Id = 1..n /\ \A r \in Id : review[r] \in Reviews /\ Sound(review[r])
  BY Basics DEF IInv, Id, ReviewsSound
<1>4. CASE worker[p].row = n + 1 /\ worker[p].row <= MaxReviews
  <2>1. review' = Append(old, x)
    BY <1>4 DEF RecoverStale
  <2>2. \A r \in Id : /\ s(r) \in Reviews /\ s(r).status = "superseded"
                      /\ s(r).superseded = TRUE
                      /\ s(r).verdict = review[r].verdict /\ s(r).head = review[r].head
                      /\ s(r).shown = review[r].shown
    <3> SUFFICES ASSUME NEW z \in Reviews
                 PROVE  LET v == [z EXCEPT !.status = "superseded", !.superseded = TRUE]
                        IN  /\ v \in Reviews /\ v.status = "superseded" /\ v.superseded = TRUE
                            /\ v.verdict = z.verdict /\ v.head = z.head /\ v.shown = z.shown
      BY <1>3
    <3> QED  BY DEF Reviews
  <2>3. \A r \in Id : Sound(s(r))
    BY <1>3, <2>2 DEF Sound
  <2> HIDE DEF s
  <2>4. \A r \in Id : /\ y(r) \in Reviews /\ Sound(y(r)) /\ y(r).verdict = review[r].verdict
                      /\ y(r).status \in {review[r].status, "superseded"}
    BY <1>3, <2>2, <2>3
  <2> HIDE DEF y
  <2>5. old \in [1..n -> Reviews] /\ \A r \in Id : old[r] = y(r)
    BY <1>3, <2>4
  <2>6. old \in Seq(Reviews) /\ Len(old) = n
    BY <1>3, <2>5, SeqDef
  <2>7. x \in Reviews /\ Sound(x) /\ x.status = "pending"
    <3>1. worker[p].head \in Commit /\ (CHOOSE t \in worker[p].task : TRUE) \in Task
      BY <1>1 DEF Placed
    <3> QED  BY <3>1, MintedTyped
  <2> HIDE DEF old, x
  <2>8. /\ review' \in Seq(Reviews) /\ Len(review') = n + 1
        /\ \A r \in 1..n : review'[r] = y(r)
        /\ review'[n + 1] = x
    BY <2>1, <2>5, <2>6, <2>7, <1>3, AppendProperties
  <2>9. Id' = 1..(n + 1) /\ \A r \in Id' : r \in Id \/ r = n + 1
    BY <1>3, <2>8 DEF Id
  <2>10. ReviewsSound'
    <3>1. \A r \in Id' : Sound(review'[r])
      BY <1>3, <2>4, <2>7, <2>8, <2>9
    <3>2. Len(review') <= MaxReviews
      BY <1>4, <2>8
    <3> QED  BY <2>8, <3>1, <3>2 DEF ReviewsSound, Sound
  <2>11. \A r \in Id : Kept(r)
    BY <1>3, <2>4, <2>8 DEF Kept
  <2>12. \A r \in Id' : review'[r].status = "running" => r \in Id /\ review[r].status = "running"
    BY <1>3, <2>4, <2>7, <2>8, <2>9
  <2>13. n <= Len(review')
    BY <1>3, <2>8
  <2>14. Moves(p, Idle) /\ Placed(Idle, review')
    BY <1>2, <2>10, <2>13, IdleMoves, StaysPlaced DEF Moves, IInv
  <2> QED  BY <2>10, <2>11, <2>12, <2>13, <2>14, ProcessMoves
<1>5. CASE ~(worker[p].row = n + 1 /\ worker[p].row <= MaxReviews)
  BY <1>2, <1>5, CrashStep DEF RecoverStale
<1> QED  BY <1>4, <1>5

LEMMA Listed ==
    ASSUME NEW S, IsFiniteSet(S)
    PROVE  Cardinality(S) \in Nat /\ \A i \in 1..Cardinality(S) : SetToSeq(S)[i] \in S
<1>1. Cardinality(S) \in Nat /\ ExistsBijection(1..Cardinality(S), S)
  BY FS_CardinalityType
<1>2. \E f \in [1..Cardinality(S) -> S] : IsInjective(f)
  BY <1>1 DEF ExistsBijection, Bijection, Injection, IsInjective
<1>3. SetToSeq(S) \in [1..Cardinality(S) -> S]
  BY <1>2 DEF SetToSeq
<1> QED  BY <1>1, <1>3

LEMMA Beyond ==
    ASSUME NEW n \in Nat, NEW k \in Nat
    PROVE  \A r \in 1..(n + k) : r \in 1..n \/ (r > n /\ r - n \in 1..k)
OBVIOUS

LEMMA MintStep ==
    ASSUME IInv, NEW d \in Process, Mint(d)
    PROVE  Upheld
<1> DEFINE n == Len(review)
           new == {t \in Task : task[t].status = "in_review" /\ Of(t) \cap With(Attended) = {}}
           k == Cardinality(new)
           more == [i \in 1..k |-> Pending(SetToSeq(new)[i], NoHead)]
           w == [worker[d] EXCEPT !.pc = "scan"]
<1>1. worker[d] \in Workers /\ Placed(worker[d], review) /\ worker[d].pc = "idle"
  BY OneProcess DEF Mint, At
<1>2. Moves(d, w)
  <2>1. worker' = [worker EXCEPT ![d] = w]
    BY Stepped DEF Mint
  <2>2. w \in Workers /\ ~InAnswer(w)
    BY <1>1 DEF Workers, InAnswer
  <2> QED  BY <2>1, <2>2 DEF Moves
<1>3. Placed(w, review)
  BY <1>1 DEF Placed, Serves, InAnswer, Workers
<1> HIDE DEF w
<1>4. review \in Seq(Reviews) /\ n \in Nat /\ Id = 1..n
      /\ \A r \in Id : review[r] \in Reviews /\ Sound(review[r])
  BY Basics DEF IInv, Id, ReviewsSound
<1>5. CASE n + k <= MaxReviews
  <2>1. review' = review \o more
    BY <1>5 DEF Mint
  <2>2. new \in SUBSET Task /\ IsFiniteSet(Task)
    BY ReviewAssumption
  <2>3. IsFiniteSet(new)
    BY <2>2, FS_Subset
  <2> HIDE DEF new
  <2>4. k \in Nat /\ \A i \in 1..k : SetToSeq(new)[i] \in new
    BY <2>3, Listed
  <2>5. \A i \in 1..k : /\ more[i] \in Reviews /\ Sound(more[i])
                        /\ more[i].status = "pending"
    BY <2>2, <2>4, MintedTyped
  <2>6. more \in [1..k -> Reviews]
    BY <2>5
  <2>7. more \in Seq(Reviews) /\ Len(more) = k
    BY <2>4, <2>6, SeqDef
  <2> HIDE DEF more, k
  <2>8. /\ review' \in Seq(Reviews) /\ Len(review') = n + k
        /\ \A r \in 1..(n + k) : review'[r] = IF r <= n THEN review[r] ELSE more[r - n]
    BY <1>4, <2>1, <2>7, ConcatProperties
  <2>9. Id' = 1..(n + k) /\ \A r \in Id' : r \in Id \/ (r > n /\ r - n \in 1..k)
    <3>1. Id' = 1..(n + k)
      BY <2>8 DEF Id
    <3>2. \A r \in 1..(n + k) : r \in 1..n \/ (r > n /\ r - n \in 1..k)
      BY <1>4, <2>4, Beyond
    <3> QED  BY <1>4, <3>1, <3>2
  <2>10. \A r \in Id' : \/ r \in Id /\ review'[r] = review[r]
                        \/ Sound(review'[r]) /\ review'[r].status = "pending"
    BY <1>4, <2>4, <2>5, <2>8, <2>9
  <2>11. \A r \in Id : review'[r] = review[r]
    BY <1>4, <2>4, <2>8
  <2>12. ReviewsSound'
    <3>1. \A r \in Id' : Sound(review'[r])
      BY <1>4, <2>10
    <3> QED  BY <1>5, <2>8, <3>1 DEF ReviewsSound, Sound
  <2>13. n <= Len(review')
    BY <1>4, <2>4, <2>8
  <2>14. \A r \in Id : Kept(r)
    BY <2>11 DEF Kept
  <2>15. \A r \in Id' : review'[r].status = "running" => r \in Id /\ review[r].status = "running"
    BY <2>10
  <2>16. Placed(w, review')
    BY <1>2, <1>3, <2>12, <2>13, StaysPlaced DEF Moves, IInv
  <2> QED  BY <1>2, <2>12, <2>13, <2>14, <2>15, <2>16, ProcessMoves
<1>6. CASE ~(n + k <= MaxReviews)
  BY <1>2, <1>3, <1>6, OnlyMoves DEF Mint
<1> QED  BY <1>5, <1>6

-----------------------------------------------------------------------------
(* Tasks and branches *)

\* What is fired stays typed as reviews are added.
LEMMA AppliedKept ==
    ASSUME IInv, Upheld, UNCHANGED applied
    PROVE  applied' \subseteq Id' \X Commit
<1>1. Len(review) \in Nat /\ Len(review') \in Nat
  BY Basics DEF IInv, Upheld, ReviewsSound
<1>2. Id \subseteq Id'
  BY <1>1 DEF Id, Upheld
<1> QED  BY <1>2 DEF IInv, TasksTyped

LEMMA TaskWritten ==
    ASSUME TasksTyped, NEW t \in Task, NEW x \in Tasks,
           x.reason # "none" <=> x.status = "blocked", task' = [task EXCEPT ![t] = x]
    PROVE  /\ task' \in [Task -> Tasks]
           /\ \A u \in Task : task'[u].reason # "none" <=> task'[u].status = "blocked"
           /\ task'[t] = x /\ \A u \in Task \ {t} : task'[u] = task[u]
BY DEF TasksTyped

LEMMA Committed ==
    ASSUME TasksTyped, NEW t \in Task, branch[t][2] < MaxRevisions,
           branch' = [branch EXCEPT ![t][2] = @ + 1]
    PROVE  branch' \in [Task -> Commit]
<1>1. branch[t] \in (0..MaxMain) \X (0..MaxRevisions) /\ MaxRevisions \in Nat
  BY ReviewAssumption DEF TasksTyped, Commit
<1> DEFINE x == [branch[t] EXCEPT ![2] = branch[t][2] + 1]
<1>2. x \in Commit
  BY <1>1 DEF Commit
<1>3. branch' = [branch EXCEPT ![t] = x]
  OBVIOUS
<1> HIDE DEF x
<1> QED  BY <1>2, <1>3 DEF TasksTyped

LEMMA WorkStep ==
    ASSUME IInv, NEW t \in Task, Work(t)
    PROVE  TasksTyped' /\ Upheld /\ task'[t].status # "accepted"
           /\ \A u \in Task \ {t} : task'[u] = task[u]
<1> DEFINE x == [task[t] EXCEPT !.status = "in_review", !.wrapped = FALSE]
<1>1. task[t] \in Tasks /\ task[t].reason = "none"
  BY DEF IInv, TasksTyped, Work, Tasks
<1>2. x \in Tasks /\ x.status = "in_review" /\ x.reason = "none"
  BY <1>1 DEF Tasks
<1>3. task' = [task EXCEPT ![t] = x]
  BY DEF Work
<1> HIDE DEF x
<1>4. Upheld
  BY Unmoved DEF Work
<1>5. applied' \subseteq Id' \X Commit
  BY <1>4, AppliedKept DEF Work
<1>6. branch' \in [Task -> Commit]
  BY Committed DEF IInv, Work
<1>7. main' \in 0..MaxMain
  BY DEF IInv, TasksTyped, Work
<1> QED  BY <1>2, <1>3, <1>4, <1>5, <1>6, <1>7, TaskWritten DEF TasksTyped, IInv

\* Steps that write a task and no branch
LEMMA OnlyTask ==
    ASSUME IInv, Upheld, NEW t \in Task, NEW x \in Tasks,
           x.reason # "none" <=> x.status = "blocked", task' = [task EXCEPT ![t] = x],
           UNCHANGED git, applied' \subseteq Id' \X Commit
    PROVE  TasksTyped' /\ task'[t] = x /\ \A u \in Task \ {t} : task'[u] = task[u]
BY TaskWritten DEF TasksTyped, IInv, git

LEMMA WrapStep ==
    ASSUME IInv, NEW t \in Task, Wrap(t)
    PROVE  TasksTyped' /\ Upheld /\ task'[t].status # "accepted"
           /\ \A u \in Task \ {t} : task'[u] = task[u]
<1> DEFINE x == [task[t] EXCEPT !.wrapped = TRUE]
<1>1. /\ task[t] \in Tasks /\ task[t].status = "in_review"
      /\ task[t].reason # "none" <=> task[t].status = "blocked"
  BY DEF IInv, TasksTyped, Wrap
<1>2. x \in Tasks /\ x.status = task[t].status /\ x.reason = task[t].reason
  BY <1>1 DEF Tasks
<1>3. task' = [task EXCEPT ![t] = x]
  BY DEF Wrap
<1> HIDE DEF x
<1>4. Upheld
  <2>1. CASE UNCHANGED review
    BY <2>1, Unmoved DEF Wrap
  <2>2. CASE Len(review) < MaxReviews /\ review' = Append(review, Pending(t, NoHead))
    BY <2>2, Appended, MintedTyped DEF Wrap
  <2> QED  BY <2>1, <2>2 DEF Wrap
<1>5. applied' \subseteq Id' \X Commit
  BY <1>4, AppliedKept DEF Wrap
<1> QED  BY <1>1, <1>2, <1>3, <1>4, <1>5, OnlyTask DEF Wrap

LEMMA BlockStep ==
    ASSUME IInv, NEW t \in Task, NEW reason \in {"drive", "other"}, Block(t, reason)
    PROVE  TasksTyped' /\ Upheld /\ task'[t].status # "accepted"
           /\ \A u \in Task \ {t} : task'[u] = task[u]
<1> DEFINE x == [task[t] EXCEPT !.status = "blocked", !.reason = reason]
<1>1. task[t] \in Tasks
  BY DEF IInv, TasksTyped
<1>2. x \in Tasks /\ x.status = "blocked" /\ x.reason = reason
  BY <1>1 DEF Tasks
<1>3. task' = [task EXCEPT ![t] = x]
  BY DEF Block
<1> HIDE DEF x
<1>4. Upheld
  BY Unmoved DEF Block
<1>5. applied' \subseteq Id' \X Commit
  BY <1>4, AppliedKept DEF Block
<1> QED  BY <1>2, <1>3, <1>4, <1>5, OnlyTask DEF Block

LEMMA ResumeStep ==
    ASSUME IInv, NEW t \in Task, Resume(t)
    PROVE  TasksTyped' /\ Upheld /\ task'[t].status # "accepted"
           /\ \A u \in Task \ {t} : task'[u] = task[u]
<1> DEFINE x == [task[t] EXCEPT !.status = "executing", !.reason = "none"]
<1>1. task[t] \in Tasks
  BY DEF IInv, TasksTyped
<1>2. x \in Tasks /\ x.status = "executing" /\ x.reason = "none"
  BY <1>1 DEF Tasks
<1>3. task' = [task EXCEPT ![t] = x]
  BY DEF Resume
<1> HIDE DEF x
<1>4. Upheld
  BY Unmoved DEF Resume
<1>5. applied' \subseteq Id' \X Commit
  BY <1>4, AppliedKept DEF Resume
<1> QED  BY <1>2, <1>3, <1>4, <1>5, OnlyTask DEF Resume

LEMMA AcceptStep ==
    ASSUME IInv, NEW t \in Task, Accept(t)
    PROVE  TasksTyped' /\ Upheld /\ \A u \in Task \ {t} : task'[u] = task[u]
<1> DEFINE x == [task[t] EXCEPT !.status = "accepted"]
<1>1. task[t] \in Tasks /\ task[t].reason = "none"
  BY DEF IInv, TasksTyped, Accept, Tasks
<1>2. x \in Tasks /\ x.status = "accepted" /\ x.reason = "none"
  BY <1>1 DEF Tasks
<1>3. task' = [task EXCEPT ![t] = x]
  BY DEF Accept
<1> HIDE DEF x
<1>4. Upheld
  BY Unmoved DEF Accept
<1>5. applied' \subseteq Id' \X Commit
  BY <1>4, AppliedKept DEF Accept
<1> QED  BY <1>2, <1>3, <1>4, <1>5, OnlyTask DEF Accept

LEMMA FireMoves ==
    ASSUME IInv, NEW p \in Process, Fire(p)
    PROVE  TasksTyped' /\ Upheld /\ Target(p) \in Task
           /\ (task'[Target(p)].status # "accepted" \/ task' = task)
           /\ \A u \in Task \ {Target(p)} : task'[u] = task[u]
<1> DEFINE r == worker[p].row
           t == Target(p)
           x == [task[t] EXCEPT !.status = "executing", !.reason = "none"]
<1>1. worker[p].pc = "fire" /\ Serves(worker[p])
  BY DEF Fire, At, Serves
<1>2. Placed(worker[p], review) /\ r \in Id
  BY <1>1, Serving
<1>3. review[r] \in Reviews /\ Sound(review[r]) /\ review[r].verdict = "REVISE"
  BY <1>1, <1>2, RowTyped DEF Placed
<1>4. review[r].head \in Commit /\ t \in Task
  BY <1>3 DEF Sound, Target, Reviews
<1>5. Upheld
  BY FireStep
<1>6. CASE Fires(p)
  <2>1. task' = [task EXCEPT ![t] = x] /\ applied' = applied \cup {<<r, review[r].head>>}
    BY <1>6 DEF Fire
  <2>2. task[t] \in Tasks
    BY <1>4 DEF IInv, TasksTyped
  <2>3. x \in Tasks /\ x.status = "executing" /\ x.reason = "none"
    BY <2>2 DEF Tasks
  <2>4. applied' \subseteq Id' \X Commit
    <3>1. Len(review) \in Nat /\ Len(review') \in Nat
      BY <1>5, Basics DEF IInv, Upheld, ReviewsSound
    <3>2. Id \subseteq Id'
      BY <1>5, <3>1 DEF Id, Upheld
    <3> QED  BY <1>2, <1>4, <2>1, <3>2 DEF IInv, TasksTyped
  <2> HIDE DEF x
  <2> QED  BY <1>4, <1>5, <2>1, <2>3, <2>4, OnlyTask DEF Fire
<1>7. CASE ~Fires(p)
  <2>1. UNCHANGED <<task, git, applied>>
    BY <1>7 DEF Fire
  <2>2. applied' \subseteq Id' \X Commit
    BY <1>5, <2>1, AppliedKept
  <2> QED  BY <1>4, <1>5, <2>1, <2>2 DEF IInv, TasksTyped, git
<1> QED  BY <1>6, <1>7

LEMMA PrepareMoves ==
    ASSUME IInv, NEW p \in Process, Prepare(p)
    PROVE  TasksTyped'
<1>1. Serves(worker[p])
  BY DEF Prepare, At, Serves
<1>2. worker[p].row \in Id
  BY <1>1, Serving
<1>3. Target(p) \in Task
  BY <1>2, RowTyped DEF Target, Reviews
<1>4. <<main, branch[Target(p)][2]>> \in Commit
  BY <1>3, Heads DEF IInv
<1>5. branch' \in [Task -> Commit]
  BY <1>4 DEF Prepare, IInv, TasksTyped
<1>6. applied' \subseteq Id' \X Commit
  BY GitStep, AppliedKept DEF Prepare
<1> QED  BY <1>5, <1>6 DEF Prepare, IInv, TasksTyped

\* Every other step leaves tasks and branches alone.
LEMMA TasksKept ==
    ASSUME IInv, Upheld, UNCHANGED <<task, git, applied>>
    PROVE  TasksTyped'
BY AppliedKept DEF IInv, TasksTyped, git

-----------------------------------------------------------------------------
(* The invariant is inductive *)

LEMMA Initially == Init => IInv
<1> SUFFICES ASSUME Init PROVE IInv
  OBVIOUS
<1>1. MaxMain \in Nat /\ MaxRevisions \in Nat /\ MaxReviews \in Nat /\ Cap \in Nat
  BY ReviewAssumption
<1>2. Len(review) = 0 /\ review \in Seq(Reviews) /\ Id = {}
  BY EmptySeq DEF Init, Id
<1>3. ReviewsSound
  BY <1>1, <1>2 DEF ReviewsSound
<1>4. Capped
  <2>1. Running = {}
    BY <1>2 DEF Running, With
  <2> QED  BY <1>1, <2>1, FS_EmptySet DEF Capped
<1>5. WorkersSound
  <2>1. Idle \in Workers
    BY ReviewAssumption DEF Idle, Workers
  <2>2. \A p \in Process : worker[p] = Idle
    BY DEF Init
  <2>3. Placed(Idle, review)
    BY <1>2 DEF Placed, Serves, InAnswer, Idle
  <2>4. \A p \in Process : ~InAnswer(worker[p])
    BY <2>2 DEF Idle, InAnswer
  <2>5. OneReviewer
    BY <2>4, AnsweringIs DEF OneReviewer
  <2> QED  BY <2>1, <2>2, <2>3, <2>5 DEF Init, WorkersSound
<1>6. TasksTyped
  <2>1. <<0, 0>> \in Commit
    BY <1>1 DEF Commit
  <2> QED  BY <1>1, <2>1 DEF Init, TasksTyped, Tasks
<1> QED  BY <1>3, <1>4, <1>5, <1>6 DEF IInv

\* Steps of a run that leave the tasks to themselves
LEMMA RunSteps ==
    ASSUME IInv, NEW p \in Process, RunStep(p) \/ Crash(p), ~Fire(p), ~Prepare(p)
    PROVE  Upheld /\ TasksTyped' /\ task' = task
<1>1. CASE Begin(p)
  BY <1>1, PromoteStep, TasksKept DEF Begin
<1>2. CASE Claim(p)
  BY <1>2, ClaimStep, TasksKept DEF Claim
<1>3. CASE RebaseConflicts(p)
  BY <1>3, GitStep, TasksKept DEF RebaseConflicts
<1>4. CASE \E verdict \in {"PASS", "REVISE"} : Answers(p, verdict)
  BY <1>4, AnswersStep, TasksKept DEF Answers
<1>5. CASE \E persisted \in BOOLEAN : Fails(p, persisted)
  BY <1>5, FailsStep, TasksKept DEF Fails
<1>6. CASE Hold(p)
  BY <1>6, HoldStep, TasksKept DEF Hold, Held
<1>7. CASE Record(p)
  BY <1>7, RecordStep, TasksKept DEF Record
<1>8. CASE RecoverStale(p)
  BY <1>8, RecoverStep, TasksKept DEF RecoverStale
<1>9. CASE Crash(p)
  BY <1>9, CrashStep, TasksKept DEF Crash
<1> QED  BY <1>1, <1>2, <1>3, <1>4, <1>5, <1>6, <1>7, <1>8, <1>9 DEF RunStep

\* Ticks, polls, time and people, where they leave the tasks to themselves
LEMMA DaemonSteps ==
    ASSUME IInv, NEW d \in Process, TickStep(d) \/ PollStep(d)
    PROVE  Upheld /\ TasksTyped' /\ task' = task
<1>1. CASE Mint(d)
  BY <1>1, MintStep, TasksKept DEF Mint
<1>2. CASE Promote(d)
  BY <1>2, PromoteStep, TasksKept DEF Promote
<1>3. CASE List(d)
  BY <1>3, ListStep, TasksKept DEF List
<1>4. CASE Pick(d)
  BY <1>4, PickStep, TasksKept DEF Pick
<1>5. CASE TickDone(d)
  BY <1>5, CrashStep, TasksKept DEF TickDone
<1>6. CASE TryClaim(d)
  BY <1>6, TryClaimStep, TasksKept DEF TryClaim
<1>7. CASE \E r \in Id : Poll(d, r)
  BY <1>7, PollStep1, TasksKept DEF Poll
<1> QED  BY <1>1, <1>2, <1>3, <1>4, <1>5, <1>6, <1>7 DEF TickStep, PollStep

LEMMA OtherSteps ==
    ASSUME IInv,
           \/ \E p \in Person : \/ \E r \in Id : RunByHand(p, r)
                                \/ \E t \in Task : ReadStale(p, t)
           \/ \E t \in Task : ImportPass(t) \/ CreatePending(t) \/ Edit(t)
           \/ \E r \in Id : RetryDue(r)
           \/ MainMoves
    PROVE  Upheld /\ TasksTyped' /\ task' = task
<1>1. ASSUME NEW p \in Person, NEW r \in Id, RunByHand(p, r)
      PROVE  Upheld /\ TasksTyped' /\ task' = task
  BY <1>1, ByHandStep, TasksKept DEF RunByHand, Process
<1>2. ASSUME NEW p \in Person, NEW t \in Task, ReadStale(p, t)
      PROVE  Upheld /\ TasksTyped' /\ task' = task
  BY <1>2, ReadStaleStep, TasksKept DEF ReadStale, Process
<1>3. ASSUME NEW t \in Task, ImportPass(t)
      PROVE  Upheld /\ TasksTyped' /\ task' = task
  <2> DEFINE m == Minted(t, "passed", "PASS", branch[t])
             x == [m EXCEPT !.shown = branch[t], !.lock = "done"]
  <2>1. branch[t] \in Commit
    BY Heads DEF IInv
  <2>2. m \in Reviews
    BY <2>1 DEF Minted, Reviews
  <2>3. /\ x \in Reviews /\ x.status = "passed" /\ x.shown = branch[t]
        /\ x.head = m.head
    BY <2>1, <2>2 DEF Reviews, Minted
  <2>4. m.head = branch[t]
    BY DEF Minted
  <2>5. Sound(x)
    BY <2>1, <2>3, <2>4 DEF Sound
  <2>6. Len(review) < MaxReviews /\ review' = Append(review, x) /\ UNCHANGED worker
    BY <1>3 DEF ImportPass
  <2> HIDE DEF x
  <2>7. Upheld
    BY <2>3, <2>5, <2>6, Appended
  <2> QED  BY <1>3, <2>7, TasksKept DEF ImportPass
<1>4. ASSUME NEW t \in Task, CreatePending(t)
      PROVE  Upheld /\ TasksTyped' /\ task' = task
  <2>1. branch[t] \in Commit
    BY Heads DEF IInv
  <2>2. Upheld
    BY <1>4, <2>1, Appended, MintedTyped DEF CreatePending
  <2> QED  BY <1>4, <2>2, TasksKept DEF CreatePending
<1>5. ASSUME NEW t \in Task, Edit(t)
      PROVE  Upheld /\ TasksTyped' /\ task' = task
  <2>1. Upheld
    BY <1>5, Unmoved DEF Edit
  <2>2. applied' \subseteq Id' \X Commit
    BY <1>5, <2>1, AppliedKept DEF Edit
  <2>3. branch' \in [Task -> Commit]
    BY <1>5, Committed DEF IInv, Edit
  <2> QED  BY <1>5, <2>1, <2>2, <2>3 DEF Edit, IInv, TasksTyped
<1>6. ASSUME NEW r \in Id, RetryDue(r)
      PROVE  Upheld /\ TasksTyped' /\ task' = task
  BY <1>6, RetryStep, TasksKept DEF RetryDue
<1>7. ASSUME MainMoves
      PROVE  Upheld /\ TasksTyped' /\ task' = task
  <2>1. Upheld
    BY <1>7, Unmoved DEF MainMoves
  <2>2. applied' \subseteq Id' \X Commit
    BY <1>7, <2>1, AppliedKept DEF MainMoves
  <2>3. main' \in 0..MaxMain
    BY <1>7, ReviewAssumption DEF MainMoves, IInv, TasksTyped
  <2> QED  BY <1>7, <2>1, <2>2, <2>3 DEF MainMoves, IInv, TasksTyped
<1> QED  BY <1>1, <1>2, <1>3, <1>4, <1>5, <1>6, <1>7

LEMMA StutterStep ==
    ASSUME IInv, UNCHANGED vars
    PROVE  Upheld /\ TasksTyped' /\ task' = task
<1>1. Upheld
  BY Unmoved DEF vars
<1> QED  BY <1>1, TasksKept DEF vars

\* The steps of Next, by what they do to tasks
LEMMA StepsAre ==
    ASSUME IInv, [Next]_vars
    PROVE  \/ Upheld /\ TasksTyped' /\ task' = task
           \/ \E p \in Process : Fire(p) \/ Prepare(p)
           \/ \E t \in Task : \/ Work(t) \/ Wrap(t) \/ Resume(t) \/ Accept(t)
                              \/ \E reason \in {"drive", "other"} : Block(t, reason)
<1>1. CASE UNCHANGED vars
  BY <1>1, StutterStep
<1>2. ASSUME NEW p \in Process, RunStep(p) \/ Crash(p), ~Fire(p), ~Prepare(p)
      PROVE  Upheld /\ TasksTyped' /\ task' = task
  BY <1>2, RunSteps
<1>3. ASSUME NEW d \in Daemon, TickStep(d) \/ PollStep(d)
      PROVE  Upheld /\ TasksTyped' /\ task' = task
  BY <1>3, DaemonSteps DEF Process
<1>4. CASE \/ \E p \in Person : \/ \E r \in Id : RunByHand(p, r)
                                \/ \E t \in Task : ReadStale(p, t)
           \/ \E t \in Task : ImportPass(t) \/ CreatePending(t) \/ Edit(t)
           \/ \E r \in Id : RetryDue(r)
           \/ MainMoves
  BY <1>4, OtherSteps
<1> QED  BY <1>1, <1>2, <1>3, <1>4 DEF Next, People, TaskStep

LEMMA Inductive ==
    ASSUME IInv, [Next]_vars
    PROVE  IInv'
<1>1. CASE Upheld /\ TasksTyped' /\ task' = task
  BY <1>1 DEF Upheld, IInv
<1>2. ASSUME NEW p \in Process, Fire(p) PROVE IInv'
  BY <1>2, FireMoves DEF Upheld, IInv
<1>3. ASSUME NEW p \in Process, Prepare(p) PROVE IInv'
  BY <1>3, GitStep, PrepareMoves DEF Upheld, IInv
<1>4. ASSUME NEW t \in Task, Work(t) PROVE IInv'
  BY <1>4, WorkStep DEF Upheld, IInv
<1>5. ASSUME NEW t \in Task, Wrap(t) PROVE IInv'
  BY <1>5, WrapStep DEF Upheld, IInv
<1>6. ASSUME NEW t \in Task, Resume(t) PROVE IInv'
  BY <1>6, ResumeStep DEF Upheld, IInv
<1>7. ASSUME NEW t \in Task, Accept(t) PROVE IInv'
  BY <1>7, AcceptStep DEF Upheld, IInv
<1>8. ASSUME NEW t \in Task, NEW reason \in {"drive", "other"}, Block(t, reason) PROVE IInv'
  BY <1>8, BlockStep DEF Upheld, IInv
<1> QED  BY <1>1, <1>2, <1>3, <1>4, <1>5, <1>6, <1>7, <1>8, StepsAre

\* Every state the review lane reaches satisfies the inductive invariant.
THEOREM Invariance == Spec => []IInv
<1>1. Init => IInv
  BY Initially
<1>2. IInv /\ [Next]_vars => IInv'
  BY Inductive
<1> QED  BY <1>1, <1>2, PTL DEF Spec

-----------------------------------------------------------------------------
(* What follows *)

\* Every variable keeps its type, and a review that is held back has a time
\* at which it is tried again, whatever people, daemons and crashes do.
THEOREM TypeCorrect == Spec => []TypeOK
<1>1. IInv => TypeOK
  <2> SUFFICES ASSUME IInv PROVE TypeOK
    OBVIOUS
  <2>1. \A r \in Id : review[r] \in Reviews /\ Sound(review[r])
    BY Basics DEF IInv, ReviewsSound
  <2>2. \A p \in Process : worker[p].row <= Len(review) + 1 /\ worker[p].budget \in 0..Cap
    BY OneProcess DEF Placed, Workers
  <2> QED  BY <2>1, <2>2 DEF TypeOK, IInv, TasksTyped, Tasks, ReviewsSound, Reviews, Sound
<1> QED  BY <1>1, Invariance, PTL

\* No two processes review the same attempt or answer for it, however many
\* daemons, polls and people there are.
THEOREM ReviewedOnce == Spec => []OneReviewer
<1>1. IInv => OneReviewer
  BY DEF IInv, WorkersSound
<1> QED  BY <1>1, Invariance, PTL

\* No more than max_parallel reviewers run, for any cap and any number of
\* processes: those at work on attempts that were not superseded under them
\* hold as many different running rows.
THEOREM CapRespected == Spec => []CapHolds
<1>1. IInv => CapHolds
  <2> SUFFICES ASSUME IInv PROVE CapHolds
    OBVIOUS
  <2> DEFINE busy == {p \in Reviewers : ~review[worker[p].row].superseded}
             f == [p \in busy |-> worker[p].row]
  <2>1. ASSUME NEW p \in busy PROVE worker[p].row \in Running /\ p \in Answering
    <3>1. p \in Process /\ InAnswer(worker[p]) /\ worker[p].pc \in {"git", "review", "record", "hold"}
      BY DEF Reviewers, InAnswer
    <3>2. Placed(worker[p], review) /\ worker[p].row \in Id
      BY <3>1, Serving DEF Serves, InAnswer
    <3>3. Sound(review[worker[p].row])
      BY <3>2 DEF IInv, ReviewsSound
    <3>4. review[worker[p].row].status \in {"running", "superseded"}
      BY <3>1, <3>2 DEF Placed
    <3>5. review[worker[p].row].status = "running"
      BY <3>3, <3>4 DEF Sound
    <3> QED  BY <3>1, <3>2, <3>5, AnsweringIs DEF Running, With
  <2>2. f \in Injection(busy, Running)
    <3>1. \A p, q \in busy : worker[p].row = worker[q].row => p = q
      BY <2>1 DEF IInv, WorkersSound, OneReviewer
    <3> HIDE DEF busy
    <3> QED  BY <2>1, <3>1 DEF Injection, IsInjective
  <2>3. IsFiniteSet(Running)
    BY Basics DEF IInv
  <2> HIDE DEF f, busy
  <2>4. IsFiniteSet(busy) /\ Cardinality(busy) <= Cardinality(Running)
    BY <2>2, <2>3, FS_Injection
  <2>5. Cardinality(busy) \in Nat /\ Cardinality(Running) \in Nat
    BY <2>3, <2>4, FS_CardinalityType
  <2>6. Cardinality(busy) <= Cap
    BY <2>4, <2>5, ReviewAssumption DEF IInv, Capped
  <2> QED  BY <2>6 DEF CapHolds, busy
<1> QED  BY <1>1, Invariance, PTL

\* The last attempt at a head that gave a verdict is the one accept asks.
LEMMA LastWord ==
    ASSUME IInv, NEW t \in Task, Acceptable(t)
    PROVE  Given(t) # {} /\ review[Max(Given(t))].verdict = "PASS"
<1>1. AtHead(t) # {} /\ review[Max(AtHead(t))].verdict = "PASS"
  BY DEF Acceptable
<1>2. Len(review) \in Nat /\ AtHead(t) \subseteq 1..Len(review) /\ Given(t) \subseteq 1..Len(review)
  BY Basics DEF IInv, AtHead, Given, Of, Id
<1>3. \A r \in Of(t) : Sound(review[r])
  BY DEF IInv, ReviewsSound, Of
<1>4. Given(t) \subseteq AtHead(t)
  BY <1>3 DEF Given, AtHead, Sound
<1>5. Max(AtHead(t)) \in AtHead(t) /\ \A r \in AtHead(t) : r <= Max(AtHead(t))
  BY <1>1, <1>2, GreatestExists
<1>6. Max(AtHead(t)) \in Given(t)
  BY <1>1, <1>3, <1>5 DEF Given, AtHead, Sound
<1>7. Max(Given(t)) \in Given(t) /\ \A r \in Given(t) : r <= Max(Given(t))
  BY <1>2, <1>6, GreatestExists
<1>8. Max(Given(t)) = Max(AtHead(t))
  <2>1. Max(Given(t)) <= Max(AtHead(t)) /\ Max(AtHead(t)) <= Max(Given(t))
    BY <1>4, <1>5, <1>6, <1>7
  <2>2. Max(Given(t)) \in Nat /\ Max(AtHead(t)) \in Nat
    BY <1>2, <1>5, <1>7
  <2> QED  BY <2>1, <2>2
<1> QED  BY <1>1, <1>6, <1>8

\* Acceptance rests on a PASS about the very commit accepted, from a reviewer
\* who was shown it, and no later attempt objected to it.
THEOREM AcceptanceIsReviewed == Spec => AcceptedAsReviewed
<1> DEFINE Good == \A t \in Task : task[t].status # "accepted" /\ task'[t].status = "accepted"
                      => Given(t) # {} /\ review[Max(Given(t))].verdict = "PASS"
<1>1. ASSUME IInv, [Next]_vars PROVE Good
  <2> SUFFICES ASSUME NEW t \in Task, task[t].status # "accepted", task'[t].status = "accepted"
               PROVE  Given(t) # {} /\ review[Max(Given(t))].verdict = "PASS"
    OBVIOUS
  <2>1. ASSUME NEW p \in Process, Fire(p) PROVE FALSE
    BY <1>1, <2>1, FireMoves
  <2>2. ASSUME NEW p \in Process, Prepare(p) PROVE FALSE
    BY <2>2 DEF Prepare
  <2>3. ASSUME NEW u \in Task,
               \/ Work(u) \/ Wrap(u) \/ Resume(u)
               \/ \E reason \in {"drive", "other"} : Block(u, reason)
        PROVE  FALSE
    BY <1>1, <2>3, WorkStep, WrapStep, ResumeStep, BlockStep
  <2>4. ASSUME NEW u \in Task, Accept(u) PROVE Acceptable(t)
    <3>1. u = t
      BY <1>1, <2>4, AcceptStep
    <3> QED  BY <2>4, <3>1 DEF Accept
  <2> QED  BY <1>1, <2>1, <2>2, <2>3, <2>4, StepsAre, LastWord
<1>2. IInv /\ [Next]_vars => [Good]_vars
  BY <1>1
<1>3. Spec => [][Good]_vars
  BY <1>2, Invariance, PTL DEF Spec
<1> QED  BY <1>3 DEF AcceptedAsReviewed

\* A verdict that moves a task is about the head the task has.
LEMMA FiresAtHead ==
    ASSUME IInv, NEW p \in Process, At(p, "fire"), Fires(p)
    PROVE  ObjectedTo(Target(p))
<1> DEFINE r == worker[p].row
           t == Target(p)
<1>1. worker[p].pc = "fire" /\ Serves(worker[p])
  BY DEF At, Serves
<1>2. Placed(worker[p], review) /\ r \in Id
  BY <1>1, Serving
<1>3. r \in Of(t) /\ review[r].verdict = "REVISE"
  BY <1>1, <1>2 DEF Placed, Of, Target
<1>4. \A s \in Of(t) : Sound(review[s])
  BY DEF IInv, ReviewsSound, Of
<1>5. CASE Revises(t) # {} /\ review[Max(Revises(t))].head = branch[t]
  <2>1. Len(review) \in Nat /\ Revises(t) \subseteq 1..Len(review)
    BY Basics DEF IInv, Revises, Of, Id
  <2>2. Max(Revises(t)) \in Revises(t)
    BY <1>5, <2>1, GreatestExists
  <2> QED  BY <1>4, <1>5, <2>2 DEF Revises, Sound, ObjectedTo
<1>6. CASE review[r].head = branch[t]
  BY <1>3, <1>4, <1>6 DEF Sound, ObjectedTo
<1> QED  BY <1>5, <1>6 DEF Fires

\* A review that comes late sends no task back over work its reviewer never
\* saw, however long it waited, and whatever was committed meanwhile.
THEOREM LateReviewsAreHarmless == Spec => RevisesWhatStands
<1> DEFINE Good == \A p \in Process :
                      At(p, "fire") /\ worker'[p].pc # "fire"
                         /\ task'[Target(p)] # task[Target(p)] => ObjectedTo(Target(p))
<1>1. ASSUME IInv, [Next]_vars PROVE Good
  <2> SUFFICES ASSUME NEW p \in Process, At(p, "fire"), worker'[p].pc # "fire",
                      task'[Target(p)] # task[Target(p)]
               PROVE  ObjectedTo(Target(p))
    OBVIOUS
  <2>1. ASSUME NEW q \in Process, Fire(q) PROVE ObjectedTo(Target(p))
    <3>1. CASE q = p
      BY <1>1, <2>1, <3>1, FiresAtHead DEF Fire
    <3>2. CASE q # p
      <4>1. worker' = [worker EXCEPT ![q] = Left(worker[q],
                          IF Errs(q) THEN worker[q].budget ELSE worker[q].budget - 1)]
        BY <1>1, <2>1, Leaving DEF Fire
      <4>2. worker'[p] = worker[p]
        BY <1>1, <3>2, <4>1 DEF IInv, WorkersSound
      <4> QED  BY <4>2 DEF At
    <3> QED  BY <3>1, <3>2
  <2>2. ASSUME NEW q \in Process, Prepare(q) PROVE FALSE
    BY <2>2 DEF Prepare
  <2>3. ASSUME UNCHANGED worker PROVE FALSE
    BY <2>3 DEF At
  <2>4. ASSUME NEW u \in Task,
               \/ Work(u) \/ Wrap(u) \/ Resume(u) \/ Accept(u)
               \/ \E reason \in {"drive", "other"} : Block(u, reason)
        PROVE  FALSE
    BY <2>3, <2>4 DEF Work, Wrap, Resume, Accept, Block
  <2> QED  BY <1>1, <2>1, <2>2, <2>4, StepsAre
<1>2. IInv /\ [Next]_vars => [Good]_vars
  BY <1>1
<1>3. Spec => [][Good]_vars
  BY <1>2, Invariance, PTL DEF Spec
<1> QED  BY <1>3 DEF RevisesWhatStands

=============================================================================
