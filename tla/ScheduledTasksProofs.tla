------------------------- MODULE ScheduledTasksProofs -------------------------
(***************************************************************************)
(* A sleeping workflow is told of every change, no occurrence is           *)
(* dispatched too often, and run_all leaves none out: for every schedule,  *)
(* any length of time and any number of updates and crashes.               *)
(*                                                                         *)
(* Informed says that a workflow on its way to sleep holds a token, which  *)
(* a refresh that comes later will read; Watched that its snapshot, with   *)
(* the tick sent for it, is the row until the row is written.  Counted     *)
(* says of the occurrences from next_fire_at on, and of the ones the       *)
(* iteration still has to dispatch, that a crash or an update accounts for *)
(* each dispatch they have had.  Complete says of the occurrences before   *)
(* next_fire_at that they were dispatched or outdated, or still are in the *)
(* plan.                                                                   *)
(***************************************************************************)
EXTENDS ScheduledTasks, FiniteSetTheorems, WellFoundedInduction, TLAPS

Informed ==
    /\ pc = "waiting" /\ changed => Told
    /\ pc \in {"recheck", "waiting"} => token # 0
    /\ IsFiniteSet(ticks) /\ IsFiniteSet(resolving)

\* The occurrence is due at next_fire_at n or later
From(n, o) == n # NoFire /\ n =< o

\* Every dispatch the occurrence has had is accounted for
Accounted(o) == tried[o] =< crashes + edits

PlanSound ==
    /\ pc # "dispatch" => plan = NoPlan
    /\ ~plan.write => plan.due = {}
    /\ \A o \in plan.due : o =< now /\ (plan.next = NoFire \/ o < plan.next)

Counted ==
    /\ \A o \in Times : tried[o] > 0 => o =< now
    /\ DispatchBounded
    /\ ~plan.write /\ row # Missing =>
          \A o \in Times : From(row.next, o) => Accounted(o)
    /\ \A o \in Times : o \in plan.due \/ From(plan.next, o) => Accounted(o)

Covered(o) == tried[o] > 0 \/ o \in outdated

EditSound ==
    edit # NoEdit =>
        /\ edits < MaxEdits
        /\ edit.row.enabled =>
              \A o \in edit.row.sched : edit.at < o => From(edit.row.next, o)

Complete ==
    (row # Missing /\ ~raced /\ row.enabled /\ row.policy = "run_all") =>
        \A o \in row.sched : base < o =>
            /\ From(row.next, o) \/ Covered(o)
            /\ pc = "dispatch" => From(plan.next, o) \/ Covered(o) \/ o \in plan.due

\* Until the row is written the snapshot is what the row says, and the tick for
\* its fire time has come or is on its way
Watched ==
    /\ pc \in {"token", "recheck", "waiting"} /\ ~changed =>
          row # Missing /\ snap = [enabled |-> row.enabled, next |-> row.next]
    /\ pc = "waiting" /\ snap.enabled /\ snap.next # NoFire =>
          woken \/ [token |-> token, at |-> snap.next] \in ticks

IInv == TypeOK /\ Informed /\ PlanSound /\ EditSound /\ Counted /\ Complete
-----------------------------------------------------------------------------
\* The operators of schedule.rs

\* A set of times has a least element
LEMMA LeastIs ==
    ASSUME NEW S \in SUBSET Nat, S # {}
    PROVE  Least(S) \in S /\ \A p \in S : Least(S) =< p
<1>1. \E x \in S : \A y \in S : ~(<<y, x>> \in OpToRel(<, Nat))
  BY NatLessThanWellFounded, WFMin, Zenon
<1>2. \A x, y \in Nat : x < y => <<x, y>> \in OpToRel(<, Nat)
  BY Zenon DEF OpToRel
<1>3. \E x \in S : \A y \in S : ~(y < x)
  BY <1>1, <1>2, Zenon
<1>4. \A x, y \in Nat : ~(y < x) => x =< y
  OBVIOUS
<1>5. \E x \in S : \A y \in S : x =< y
  BY <1>3, <1>4, Zenon
<1>6. QED
  BY <1>5, Zenon DEF Least

\* and a latest one
LEMMA LatestIs ==
    ASSUME NEW S \in SUBSET Times, S # {}
    PROVE  Latest(S) \in S /\ \A p \in S : p =< Latest(S)
<1> DEFINE T == {MaxTime - o : o \in S}
<1>1. T \in SUBSET Nat /\ T # {}
  <2>1. \A o \in S : MaxTime - o \in Nat
    BY TimeAssumption DEF Times
  <2>2. PICK o \in S : TRUE
    OBVIOUS
  <2>3. MaxTime - o \in T
    BY <2>2
  <2>4. QED
    BY <2>1, <2>3
<1>2. Least(T) \in T /\ \A p \in T : Least(T) =< p
  BY <1>1, LeastIs, Zenon
<1>3. PICK o \in S : Least(T) = MaxTime - o
  BY <1>2, Zenon
<1>4. \A p \in S : p =< o
  <2> SUFFICES ASSUME NEW p \in S
               PROVE  p =< o
    OBVIOUS
  <2>1. MaxTime - p \in T
    OBVIOUS
  <2>2. MaxTime - o =< MaxTime - p
    BY <1>2, <1>3, <2>1
  <2>3. QED
    BY <2>2, TimeAssumption DEF Times
<1>5. QED
  BY <1>4 DEF Latest

\* next_fire_after is later, and nothing of the schedule lies between
LEMMA NextFireIs ==
    ASSUME NEW s \in SUBSET Times, NEW t \in Int
    PROVE  /\ NextFireAfter(s, t) \in Times \union {NoFire}
           /\ NextFireAfter(s, t) # NoFire => NextFireAfter(s, t) > t
           /\ \A o \in s : t < o => From(NextFireAfter(s, t), o)
<1> DEFINE later == {o \in s : o > t}
<1>1. CASE later = {}
  BY <1>1 DEF NextFireAfter
<1>2. CASE later # {}
  <2>1. later \in SUBSET Nat
    <3>1. Times \subseteq Nat
      BY TimeAssumption DEF Times
    <3>2. QED
      BY <3>1, Zenon
  <2>2. Least(later) \in later /\ \A p \in later : Least(later) =< p
    BY <1>2, <2>1, LeastIs
  <2>3. NextFireAfter(s, t) = Least(later)
    BY <1>2 DEF NextFireAfter
  <2>4. NoFire \notin Times
    BY DEF NoFire, Times
  <2> HIDE DEF later
  <2>5. Least(later) \in Times /\ Least(later) > t
    BY <2>2 DEF later
  <2>6. \A o \in s : t < o => o \in later
    BY DEF later, Times
  <2>7. QED
    BY <2>2, <2>3, <2>4, <2>5, <2>6 DEF From
<1>3. QED
  BY <1>1, <1>2

\* A token no call knows of can always be had
LEMMA FreshToken ==
    ASSUME NEW T, IsFiniteSet(T), NEW R, IsFiniteSet(R)
    PROVE  (1 .. 1 + Cardinality(T) + Cardinality(R))
              \ ({m.token : m \in T} \union R) # {}
<1> DEFINE A == {m.token : m \in T}
           f == [m \in T |-> m.token]
           n == Cardinality(T) + Cardinality(R)
           I == 1 .. 1 + Cardinality(T) + Cardinality(R)
<1>1. f \in Surjection(T, A)
  BY DEF Surjection
<1>2. IsFiniteSet(A) /\ Cardinality(A) =< Cardinality(T)
  <2> HIDE DEF f, A
  <2>1. QED
    BY <1>1, FS_Surjection
<1> HIDE DEF f, A
<1>3. /\ Cardinality(T) \in Nat /\ Cardinality(R) \in Nat /\ Cardinality(A) \in Nat
      /\ Cardinality(A \intersect R) \in Nat
  BY <1>2, FS_CardinalityType, FS_Intersection, Zenon
<1>4. /\ IsFiniteSet(A \union R)
      /\ Cardinality(A \union R) = Cardinality(A) + Cardinality(R) - Cardinality(A \intersect R)
  BY <1>2, FS_Union
<1>5. Cardinality(A \union R) =< n
  BY <1>2, <1>3, <1>4
<1>6. IsFiniteSet(I) /\ Cardinality(I) = n + 1
  <2> DEFINE b == 1 + Cardinality(T) + Cardinality(R)
  <2>1. 1 \in Int /\ b \in Int /\ ~(1 > b) /\ b - 1 + 1 = n + 1
    BY <1>3
  <2> HIDE DEF b
  <2>2. IsFiniteSet(1 .. b) /\ Cardinality(1 .. b) = b - 1 + 1
    BY <2>1, FS_Interval
  <2>3. QED
    BY <2>1, <2>2 DEF b
<1> HIDE DEF I
<1>7. I \subseteq A \union R => Cardinality(I) =< Cardinality(A \union R)
  BY <1>4, FS_Subset
<1>8. Cardinality(A \union R) \in Nat
  BY <1>4, FS_CardinalityType
<1>9. ~(I \subseteq A \union R)
  BY <1>3, <1>5, <1>6, <1>7, <1>8
<1>10. QED
  BY <1>9 DEF I, A

\* The occurrences that are due lie between next_fire_at and the present, and
\* run_all keeps all of the window
LEMMA DueRunsAre ==
    ASSUME NEW s \in SUBSET Times, NEW next \in Times, NEW time \in Nat,
           NEW policy \in Policies
    PROVE  /\ DueRuns(s, next, time, policy) \in SUBSET Times
           /\ \A o \in DueRuns(s, next, time, policy) : next =< o /\ o =< time
           /\ policy = "run_all" => \A o \in s :
                 (next =< o /\ o =< time /\ ~(o < time - Window))
                    => o \in DueRuns(s, next, time, policy)
<1> DEFINE due == DueOccurrences(s, next, time)
<1>1. next \in Nat /\ time - Window \in Int /\ \A o \in s : o \in Nat /\ o \in Times
  BY TimeAssumption DEF Times
<1>2. due \in SUBSET Times /\ \A o \in due : next =< o /\ o =< time
  <2>1. due \subseteq s /\ due \in SUBSET Times
    BY DEF DueOccurrences, OccurrencesBetween
  <2>2. ASSUME NEW o \in due
        PROVE  next =< o /\ o =< time
    <3>1. o \in Nat
      BY <1>1, <2>1, Zenon
    <3>2. CASE next < time - Window
      BY <1>1, <3>1, <3>2 DEF DueOccurrences, OccurrencesBetween
    <3>3. CASE ~(next < time - Window)
      BY <1>1, <3>1, <3>3 DEF DueOccurrences, OccurrencesBetween
    <3>4. QED
      BY <3>2, <3>3
  <2>3. QED
    BY <2>1, <2>2
<1>3. \A o \in s : (next =< o /\ o =< time /\ ~(o < time - Window)) => o \in due
  BY <1>1, TimeAssumption DEF DueOccurrences, OccurrencesBetween
<1> HIDE DEF due
<1>4. CASE policy = "skip_missed"
  BY <1>4 DEF DueRuns
<1>5. CASE policy = "run_latest"
  <2>1. due # {} => Latest(due) \in due
    BY <1>2, LatestIs
  <2>2. DueRuns(s, next, time, policy) = IF due = {} THEN {} ELSE {Latest(due)}
    BY <1>5 DEF DueRuns, due
  <2>3. QED
    BY <1>2, <1>5, <2>1, <2>2
<1>6. CASE policy = "run_all"
  <2>1. DueRuns(s, next, time, policy) = due
    BY <1>6 DEF DueRuns, due
  <2>2. QED
    BY <1>2, <1>3, <2>1
<1>7. QED
  BY <1>4, <1>5, <1>6 DEF Policies

\* resolve_catch_up: the due runs lie in the past, from next_fire_at on; the new
\* next_fire_at is after them, and never before the old one; and with run_all
\* whatever it steps over is due or has left the window
LEMMA ResolveIs ==
    ASSUME NEW s \in SUBSET Times, NEW next \in Times \union {NoFire},
           NEW time \in Nat, NEW policy \in Policies,
           NEW r, r = ResolveCatchUp(s, next, time, policy)
    PROVE  /\ r.due \in SUBSET Times /\ r.next \in Times \union {NoFire}
           /\ \A o \in r.due : From(next, o) /\ o =< time /\ (r.next = NoFire \/ o < r.next)
           /\ r.next # NoFire => r.next > time \/ From(next, r.next)
           /\ policy = "run_all" => \A o \in s :
                 From(next, o) =>
                    From(r.next, o) \/ o \in r.due \/ o < time - Window
<1>1. NoFire \notin Times /\ Times \subseteq Nat /\ NoFire = 0
  BY TimeAssumption DEF NoFire, Times
<1>2. CASE next = NoFire
  <2>1. r = [due |-> {}, next |-> NextFireAfter(s, time)]
    BY <1>1, <1>2 DEF ResolveCatchUp
  <2>2. NextFireAfter(s, time) \in Times \union {NoFire}
    BY NextFireIs
  <2>3. NextFireAfter(s, time) # NoFire => NextFireAfter(s, time) > time
    BY NextFireIs
  <2>4. QED
    BY <1>2, <2>1, <2>2, <2>3 DEF From
<1>3. CASE next # NoFire /\ next > time
  <2>1. r = [due |-> {}, next |-> next]
    BY <1>1, <1>3 DEF ResolveCatchUp
  <2>2. QED
    BY <1>1, <1>3, <2>1 DEF From
<1>4. CASE next # NoFire /\ ~(next > time)
  <2> DEFINE due == DueRuns(s, next, time, policy)
             cursor == IF due = {} THEN time ELSE Latest(due)
  <2>1. next \in Times /\ next =< time
    BY <1>1, <1>4
  <2>2. r = [due |-> due, next |-> NextFireAfter(s, cursor)]
    BY <1>1, <1>4, <2>1 DEF ResolveCatchUp
  <2>3. /\ due \in SUBSET Times
        /\ \A o \in due : next =< o /\ o =< time
        /\ policy = "run_all" => \A o \in s :
              (next =< o /\ o =< time /\ ~(o < time - Window)) => o \in due
    BY <2>1, DueRunsAre
  <2> HIDE DEF due
  <2>4. /\ cursor \in Nat /\ cursor =< time
        /\ \A o \in due : o =< cursor
        /\ due # {} => next =< cursor
        /\ due = {} => cursor = time
    <3>1. CASE due = {}
      BY <3>1
    <3>2. CASE due # {}
      <4>1. Latest(due) \in due /\ \A o \in due : o =< Latest(due)
        BY <2>3, <3>2, LatestIs
      <4>2. QED
        BY <1>1, <2>3, <3>2, <4>1, Zenon
    <3>3. QED
      BY <3>1, <3>2
  <2> DEFINE n == NextFireAfter(s, cursor)
  <2> HIDE DEF cursor
  <2>5. /\ n \in Times \union {NoFire}
        /\ n # NoFire => n > cursor
        /\ \A o \in s : cursor < o => From(n, o)
    BY <2>4, NextFireIs
  <2> HIDE DEF n
  <2>6. r.due = due /\ r.next = n
    BY <2>2 DEF n
  <2>7. \A o \in due : From(next, o) /\ o =< time /\ (n = NoFire \/ o < n)
    BY <1>1, <1>4, <2>3, <2>4, <2>5 DEF From
  <2>8. n # NoFire => n > time \/ From(next, n)
    BY <1>1, <1>4, <2>1, <2>4, <2>5 DEF From
  <2>9. policy = "run_all" => \A o \in s :
           From(next, o) => From(n, o) \/ o \in due \/ o < time - Window
    <3> SUFFICES ASSUME policy = "run_all", NEW o \in s, From(next, o), ~From(n, o),
                        ~(o < time - Window)
                 PROVE  o \in due
      OBVIOUS
    <3>1. o \in Nat
      BY <1>1
    <3>2. o =< time
      BY <2>4, <2>5, <3>1
    <3>3. QED
      BY <2>3, <3>2 DEF From
  <2>10. QED
    BY <2>3, <2>5, <2>6, <2>7, <2>8, <2>9
<1>5. QED
  BY <1>2, <1>3, <1>4
-----------------------------------------------------------------------------
\* Every step keeps the invariant, conjunct by conjunct

\* What the constants are
LEMMA Constants ==
    /\ NoFire \notin Times /\ NoFire = 0 /\ Times \subseteq Nat
    /\ Missing \notin Rows /\ Missing.next = NoFire
    /\ \A s \in Schedules : s \in SUBSET Times
  BY TimeAssumption, ScheduleAssumption DEF NoFire, Times, Missing, Rows, Policies

\* A value of next_fire_at is a number
LEMMA FireIsNat ==
    ASSUME NEW n \in Times \union {NoFire}
    PROVE  n \in Nat
  BY Constants

\* The row a request computes is a row
LEMMA RequestedRow ==
    ASSUME NEW s \in Schedules, NEW e \in BOOLEAN, now \in Nat
    PROVE  /\ NextFireFrom(s, e) \in Times \union {NoFire}
           /\ e => \A o \in s : now < o => From(NextFireFrom(s, e), o)
<1>1. s \in SUBSET Times /\ now \in Int
  BY Constants
<1>2. /\ NextFireAfter(s, now) \in Times \union {NoFire}
      /\ \A o \in s : now < o => From(NextFireAfter(s, now), o)
  BY <1>1, NextFireIs
<1>3. QED
  BY <1>2 DEF NextFireFrom

\* The parts of a row that is there
LEMMA RowParts ==
    ASSUME TypeOK, row # Missing
    PROVE  /\ row \in Rows /\ row.sched \in SUBSET Times
           /\ row.next \in Times \union {NoFire} /\ row.policy \in Policies
  BY Constants DEF TypeOK, Rows

\* What an iteration resolves for the row it has read
LEMMA Resolved ==
    ASSUME TypeOK, row # Missing,
           NEW r, r = ResolveCatchUp(row.sched, row.next, now, row.policy)
    PROVE  /\ r.due \in SUBSET Times /\ r.next \in Times \union {NoFire}
           /\ \A o \in r.due :
                 From(row.next, o) /\ o =< now /\ (r.next = NoFire \/ o < r.next)
           /\ r.next # NoFire => r.next > now \/ From(row.next, r.next)
           /\ row.policy = "run_all" => \A o \in row.sched :
                 From(row.next, o) =>
                    From(r.next, o) \/ o \in r.due \/ o < now - Window
<1>1. /\ row.sched \in SUBSET Times /\ row.policy \in Policies
      /\ row.next \in Times \union {NoFire}
  BY RowParts
<1>2. now \in Nat
  BY TimeAssumption DEF TypeOK
<1>3. QED
  <2> DEFINE s == row.sched
             n == row.next
             p == row.policy
             t == now
  <2>1. /\ s \in SUBSET Times /\ n \in Times \union {NoFire} /\ p \in Policies
        /\ t \in Nat /\ r = ResolveCatchUp(s, n, t, p)
    BY <1>1, <1>2
  <2> HIDE DEF s, n, p, t
  <2>2. /\ r.due \in SUBSET Times /\ r.next \in Times \union {NoFire}
        /\ \A o \in r.due : From(n, o) /\ o =< t /\ (r.next = NoFire \/ o < r.next)
        /\ r.next # NoFire => r.next > t \/ From(n, r.next)
        /\ p = "run_all" => \A o \in s :
              From(n, o) => From(r.next, o) \/ o \in r.due \/ o < t - Window
    BY <2>1, ResolveIs, Zenon
  <2>3. QED
    BY <2>2 DEF s, n, p, t

\* next_wait_token yields a token
LEMMA TokenTaken ==
    ASSUME IInv, NextWaitToken
    PROVE  token' \in Nat \ {0}
<1> DEFINE I == 1 .. 1 + Cardinality(ticks) + Cardinality(resolving)
           S == I \ ({m.token : m \in ticks} \union resolving)
<1>1. IsFiniteSet(ticks) /\ IsFiniteSet(resolving)
  BY DEF IInv, Informed
<1>2. S # {}
  BY <1>1, FreshToken
<1>3. I \subseteq Nat \ {0}
  BY <1>1, FS_CardinalityType
<1>4. S \subseteq Nat /\ S \subseteq Nat \ {0}
  BY <1>3
<1>5. token' = Least(S)
  BY DEF NextWaitToken
<1> HIDE DEF S
<1>6. QED
  BY <1>2, <1>4, <1>5, LeastIs, Zenon

\* Every step keeps the types
LEMMA TypeStep == IInv /\ [Next]_vars => TypeOK'
<1> SUFFICES ASSUME IInv, [Next]_vars
             PROVE  TypeOK'
  OBVIOUS
<1> DEFINE Goal == TypeOK'
<1>0. now \in Nat /\ MaxTime \in Nat /\ MaxEdits \in Nat /\ MaxCrashes \in Nat
  BY TimeAssumption, FaultAssumption DEF IInv, TypeOK
<1> USE DEF IInv, TypeOK, rowVars, waitVars, callVars, fireVars
<1>1. CASE StartWorkflow
  BY <1>0, <1>1 DEF StartWorkflow, Steps
<1>2. CASE StartWorkflowFails
  BY <1>0, <1>2 DEF StartWorkflowFails, Steps
<1>3. CASE UpdateReads
  <2>1. PICK s \in Schedules, e \in BOOLEAN, p \in Policies :
           edit' = [at |-> now, row |-> [enabled |-> e, sched |-> s, policy |-> p,
                                         next |-> NextFireFrom(s, e)]]
    BY <1>3 DEF UpdateReads
  <2>2. NextFireFrom(s, e) \in Times \union {NoFire}
    BY <1>0, RequestedRow
  <2>3. edit' \in [row : Rows, at : 0 .. MaxTime]
    BY <1>0, <2>1, <2>2 DEF Rows
  <2>4. QED
    BY <1>3, <2>3 DEF UpdateReads
<1>4. CASE UpdateCommits
  <2>1. edit \in [row : Rows, at : 0 .. MaxTime]
    BY <1>4 DEF UpdateCommits
  <2>2. edit.row \in Rows /\ edit.at \in 0 .. MaxTime
    BY <2>1
  <2>3. edits' \in 0 .. MaxEdits
    BY <1>0, <1>4 DEF UpdateCommits, EditSound
  <2>4. raced' \in BOOLEAN /\ changed' \in BOOLEAN
    BY <1>4, Zenon DEF UpdateCommits
  <2>5. QED
    BY <1>0, <1>4, <2>2, <2>3, <2>4 DEF UpdateCommits
<1>5. CASE DeleteTask
  BY <1>0, <1>5 DEF DeleteTask
<1>6. CASE ReadRow
  <2>1. CASE row = Missing \/ ~row.enabled
    BY <1>6, <2>1 DEF ReadRow, Steps
  <2>2. CASE row # Missing /\ row.enabled
    <3> DEFINE r == ResolveCatchUp(row.sched, row.next, now, row.policy)
    <3>1. row.sched \in SUBSET Times
      BY <2>2, RowParts
    <3>2. r.due \in SUBSET Times /\ r.next \in Times \union {NoFire}
      BY <2>2, Resolved, SMTT(30)
    <3>3. /\ plan' = [due |-> r.due, next |-> r.next, write |-> r.due # {} \/ r.next # row.next]
          /\ outdated' = outdated \union {o \in row.sched : row.next =< o /\ o < now - Window}
          /\ pc' = "dispatch"
      BY <1>6, <2>2 DEF ReadRow
    <3> HIDE DEF r
    <3>4. plan' \in [due : SUBSET Times, next : Times \union {NoFire}, write : BOOLEAN]
      BY <3>2, <3>3
    <3>5. QED
      BY <1>6, <3>1, <3>3, <3>4 DEF ReadRow, Steps
  <2>3. QED
    BY <2>1, <2>2
<1>7. CASE Dispatch
  <2>1. plan.due \in SUBSET Times /\ plan.due # {}
    BY <1>7 DEF Dispatch
  <2>2. Least(plan.due) \in plan.due
    <3>1. plan.due \in SUBSET Nat
      BY <2>1, Constants, Zenon
    <3>2. QED
      BY <2>1, <3>1, LeastIs
  <2>3. plan' \in [due : SUBSET Times, next : Times \union {NoFire}, write : BOOLEAN]
    BY <1>7, <2>1 DEF Dispatch
  <2>4. QED
    BY <1>7, <2>1, <2>2, <2>3 DEF Dispatch
<1>8. CASE RecordProgress
  <2>1. row' \in Rows \union {Missing}
    BY <1>8 DEF RecordProgress, Rows
  <2>2. changed' \in BOOLEAN
    BY <1>8, Zenon DEF RecordProgress
  <2>3. QED
    BY <1>8, <2>1, <2>2 DEF RecordProgress, Steps, NoPlan, NoFire
<1>9. CASE LoadSnapshot
  <2>1. snap' \in [enabled : BOOLEAN, next : Times \union {NoFire}]
    BY <1>9 DEF LoadSnapshot, Rows
  <2>2. QED
    BY <1>9, <2>1, Zenon DEF LoadSnapshot, Steps
<1>10. CASE NextWaitToken
  <2>1. token' \in Nat \ {0}
    BY <1>10, TokenTaken
  <2>2. QED
    BY <1>10, <2>1, Zenon DEF NextWaitToken, Steps
<1>11. CASE Recheck
  <2>1. ticks' \subseteq [token : Nat \ {0}, at : Times]
    <3>1. CASE ticks' = ticks
      BY <3>1
    <3>2. CASE ticks' = ticks \union {[token |-> token, at |-> snap.next]} /\ snap.next > now
      <4>1. token \in Nat \ {0}
        BY <1>11 DEF Recheck, Informed
      <4>2. snap.next \in Times
        BY <1>0, <3>2, Constants
      <4>3. QED
        BY <3>2, <4>1, <4>2
    <3>3. QED
      BY <1>11, <3>1, <3>2 DEF Recheck
  <2>2. snap' \in [enabled : BOOLEAN, next : Times \union {NoFire}]
    <3>1. NoSnap \in [enabled : BOOLEAN, next : Times \union {NoFire}]
      BY DEF NoSnap
    <3>2. snap' = NoSnap \/ snap' = snap
      BY <1>11 DEF Recheck
    <3>3. QED
      BY <3>1, <3>2
  <2>3. token' \in Nat /\ woken' \in BOOLEAN
    <3>1. token' = 0 \/ token' = token
      BY <1>11 DEF Recheck
    <3>2. woken' = FALSE \/ woken' = woken
      BY <1>11, Zenon DEF Recheck
    <3>3. token' \in Nat
      BY <3>1
    <3>4. woken' \in BOOLEAN
      BY <3>2, Zenon
    <3>5. QED
      BY <3>3, <3>4
  <2>4. pc' \in Steps
    BY <1>11 DEF Recheck, Steps
  <2>5. QED
    BY <1>11, <2>1, <2>2, <2>3, <2>4 DEF Recheck
<1>12. CASE WakeUp
  BY <1>0, <1>12, Zenon DEF WakeUp, Steps, NoSnap, NoFire
<1>13. ASSUME NEW m \in ticks, Tick(m)
      PROVE  Goal
  <2>1. woken' \in BOOLEAN
    BY <1>13, Zenon DEF Tick
  <2>2. QED
    BY <1>13, <2>1 DEF Tick
<1>14. CASE RefreshReads
  BY <1>0, <1>14 DEF RefreshReads
<1>15. CASE RefreshFails
  BY <1>0, <1>15 DEF RefreshFails
<1>16. ASSUME NEW k \in resolving, RefreshResolves(k)
      PROVE  Goal
  <2>1. woken' \in BOOLEAN
    BY <1>16, Zenon DEF RefreshResolves
  <2>2. QED
    BY <1>16, <2>1 DEF RefreshResolves
<1>17. CASE Crash
  BY <1>0, <1>17 DEF Crash, Steps, NoPlan, NoFire
<1>18. CASE TimePasses
  BY <1>0, <1>18 DEF TimePasses
<1>19. CASE UNCHANGED vars
  BY <1>19 DEF vars
<1>20. QED
    BY <1>1, <1>2, <1>3, <1>4, <1>5, <1>6, <1>7, <1>8, <1>9, <1>10, <1>11, <1>12,
     <1>13, <1>14, <1>15, <1>16, <1>17, <1>18, <1>19, Zenon
  DEF Next, Workflow

\* A sleeping workflow stays informed
LEMMA InformedStep == IInv /\ [Next]_vars => Informed'
<1> SUFFICES ASSUME IInv, [Next]_vars
             PROVE  Informed'
  OBVIOUS
<1> DEFINE Goal == Informed'
<1> USE DEF IInv, Informed, Told, rowVars, waitVars, callVars, fireVars
<1>1. CASE StartWorkflow
  BY <1>1 DEF StartWorkflow
<1>2. CASE StartWorkflowFails
  BY <1>2 DEF StartWorkflowFails
<1>3. CASE UpdateReads
  BY <1>3 DEF UpdateReads
<1>4. CASE UpdateCommits
  <2>1. refreshes \in Nat
    BY DEF TypeOK
  <2>2. QED
    BY <1>4, <2>1 DEF UpdateCommits
<1>5. CASE DeleteTask
  <2>1. refreshes \in Nat
    BY DEF TypeOK
  <2>2. QED
    BY <1>5, <2>1 DEF DeleteTask
<1>6. CASE ReadRow
  BY <1>6 DEF ReadRow
<1>7. CASE Dispatch
  BY <1>7 DEF Dispatch
<1>8. CASE RecordProgress
  BY <1>8 DEF RecordProgress
<1>9. CASE LoadSnapshot
  BY <1>9 DEF LoadSnapshot
<1>10. CASE NextWaitToken
  BY <1>10, TokenTaken, Zenon DEF NextWaitToken
<1>11. CASE Recheck
  <2>1. IsFiniteSet(ticks')
    BY <1>11, FS_AddElement, Zenon DEF Recheck
  <2>2. pc' = "waiting" => ~changed'
    BY <1>11 DEF Recheck
  <2>3. pc' = "waiting" => token' # 0
    BY <1>11 DEF Recheck
  <2>4. pc' # "recheck" /\ IsFiniteSet(resolving')
    BY <1>11 DEF Recheck
  <2>5. QED
    BY <2>1, <2>2, <2>3, <2>4
<1>12. CASE WakeUp
  BY <1>12 DEF WakeUp
<1>13. ASSUME NEW m \in ticks, Tick(m)
      PROVE  Goal
  <2>1. IsFiniteSet(ticks')
    BY <1>13, FS_RemoveElement DEF Tick
  <2>2. woken => woken'
    BY <1>13, Zenon DEF Tick
  <2>3. UNCHANGED <<pc, changed, token, refreshes, resolving, lost>>
    BY <1>13 DEF Tick
  <2>4. QED
    BY <2>1, <2>2, <2>3
<1>14. CASE RefreshReads
  <2>1. IsFiniteSet(resolving')
    <3>1. CASE token = 0
      BY <1>14, <3>1, Zenon DEF RefreshReads
    <3>2. CASE token # 0
      BY <1>14, <3>2, FS_AddElement DEF RefreshReads
    <3>3. QED
      BY <3>1, <3>2
  <2>2. pc = "waiting" => token \in resolving'
    BY <1>14 DEF RefreshReads
  <2>3. UNCHANGED <<pc, changed, token, woken, ticks, lost>>
    BY <1>14 DEF RefreshReads
  <2>4. QED
    BY <2>1, <2>2, <2>3
<1>15. CASE RefreshFails
  BY <1>15 DEF RefreshFails
<1>16. ASSUME NEW k \in resolving, RefreshResolves(k)
      PROVE  Goal
  <2>1. IsFiniteSet(resolving')
    BY <1>16, FS_RemoveElement DEF RefreshResolves
  <2>2. (woken \/ token = k) => woken'
    BY <1>16, Zenon DEF RefreshResolves
  <2>3. UNCHANGED <<pc, changed, token, refreshes, ticks, lost>>
    BY <1>16 DEF RefreshResolves
  <2>4. token \in resolving => token \in resolving' \/ token = k
    BY <1>16 DEF RefreshResolves
  <2>5. QED
    BY <2>1, <2>2, <2>3, <2>4
<1>17. CASE Crash
  BY <1>17 DEF Crash
<1>18. CASE TimePasses
  BY <1>18 DEF TimePasses
<1>19. CASE UNCHANGED vars
  BY <1>19, Zenon DEF vars
<1>20. QED
    BY <1>1, <1>2, <1>3, <1>4, <1>5, <1>6, <1>7, <1>8, <1>9, <1>10, <1>11, <1>12,
     <1>13, <1>14, <1>15, <1>16, <1>17, <1>18, <1>19, Zenon
  DEF Next, Workflow

\* The plan stays sound
LEMMA PlanStep == IInv /\ [Next]_vars => PlanSound'
<1> SUFFICES ASSUME IInv, [Next]_vars
             PROVE  PlanSound'
  OBVIOUS
<1> DEFINE Goal == PlanSound'
<1>0. now \in Nat /\ MaxTime \in Nat
  BY TimeAssumption DEF IInv, TypeOK
<1> USE DEF IInv, PlanSound, rowVars, waitVars, callVars, fireVars
<1>1. CASE StartWorkflow
  BY <1>1 DEF StartWorkflow
<1>2. CASE StartWorkflowFails
  BY <1>2, ZenonT(30) DEF StartWorkflowFails
<1>3. CASE UpdateReads
  BY <1>3 DEF UpdateReads
<1>4. CASE UpdateCommits
  BY <1>4 DEF UpdateCommits
<1>5. CASE DeleteTask
  BY <1>5 DEF DeleteTask
<1>6. CASE ReadRow
  <2>1. CASE row = Missing \/ ~row.enabled
    BY <1>6, <2>1 DEF ReadRow
  <2>2. CASE row # Missing /\ row.enabled
    <3> DEFINE r == ResolveCatchUp(row.sched, row.next, now, row.policy)
    <3>1. \A o \in r.due : o =< now /\ (r.next = NoFire \/ o < r.next)
      <4>1. r = ResolveCatchUp(row.sched, row.next, now, row.policy)
        OBVIOUS
      <4> HIDE DEF r
      <4>2. QED
        BY <2>2, <4>1, Resolved
    <3>2. /\ plan' = [due |-> r.due, next |-> r.next, write |-> r.due # {} \/ r.next # row.next]
          /\ now' = now /\ pc' = "dispatch"
      BY <1>6, <2>2 DEF ReadRow
    <3> HIDE DEF r
    <3>3. QED
      BY <3>1, <3>2, Zenon
  <2>3. QED
    BY <2>1, <2>2
<1>7. CASE Dispatch
  BY <1>7 DEF Dispatch, TypeOK
<1>8. CASE RecordProgress
  BY <1>8 DEF RecordProgress, NoPlan
<1>9. CASE LoadSnapshot
  BY <1>9 DEF LoadSnapshot
<1>10. CASE NextWaitToken
  BY <1>10 DEF NextWaitToken
<1>11. CASE Recheck
  BY <1>11 DEF Recheck
<1>12. CASE WakeUp
  BY <1>12 DEF WakeUp
<1>13. ASSUME NEW m \in ticks, Tick(m)
      PROVE  Goal
  BY <1>13 DEF Tick
<1>14. CASE RefreshReads
  BY <1>14 DEF RefreshReads
<1>15. CASE RefreshFails
  BY <1>15 DEF RefreshFails
<1>16. ASSUME NEW k \in resolving, RefreshResolves(k)
      PROVE  Goal
  BY <1>16 DEF RefreshResolves
<1>17. CASE Crash
  BY <1>17 DEF Crash, NoPlan
<1>18. CASE TimePasses
  <2>1. \A o \in plan.due : o \in Nat
    BY Constants DEF TypeOK
  <2>2. QED
    BY <1>0, <1>18, <2>1 DEF TimePasses
<1>19. CASE UNCHANGED vars
  BY <1>19 DEF vars
<1>20. QED
    BY <1>1, <1>2, <1>3, <1>4, <1>5, <1>6, <1>7, <1>8, <1>9, <1>10, <1>11, <1>12,
     <1>13, <1>14, <1>15, <1>16, <1>17, <1>18, <1>19, Zenon
  DEF Next, Workflow

\* The pending update stays sound
LEMMA EditStep == IInv /\ [Next]_vars => EditSound'
<1> SUFFICES ASSUME IInv, [Next]_vars
             PROVE  EditSound'
  OBVIOUS
<1> DEFINE Goal == EditSound'
<1> USE DEF IInv, EditSound, From, rowVars, waitVars, callVars, fireVars
<1>1. CASE StartWorkflow
  BY <1>1 DEF StartWorkflow
<1>2. CASE StartWorkflowFails
  BY <1>2 DEF StartWorkflowFails
<1>3. CASE UpdateReads
  <2>1. PICK s \in Schedules, e \in BOOLEAN, p \in Policies :
           edit' = [at |-> now, row |-> [enabled |-> e, sched |-> s, policy |-> p,
                                         next |-> NextFireFrom(s, e)]]
    BY <1>3 DEF UpdateReads
  <2>2. e => \A o \in s : now < o => From(NextFireFrom(s, e), o)
    <3>1. now \in Nat
      BY DEF TypeOK
    <3>2. QED
      BY <3>1, RequestedRow, Zenon
  <2>3. edits < MaxEdits /\ edits' = edits
    BY <1>3 DEF UpdateReads
  <2>4. QED
    BY <2>1, <2>2, <2>3, Zenon
<1>4. CASE UpdateCommits
  BY <1>4 DEF UpdateCommits
<1>5. CASE DeleteTask
  BY <1>5 DEF DeleteTask
<1>6. CASE ReadRow
  BY <1>6 DEF ReadRow
<1>7. CASE Dispatch
  BY <1>7 DEF Dispatch
<1>8. CASE RecordProgress
  BY <1>8 DEF RecordProgress
<1>9. CASE LoadSnapshot
  BY <1>9 DEF LoadSnapshot
<1>10. CASE NextWaitToken
  BY <1>10, SMTT(30) DEF NextWaitToken
<1>11. CASE Recheck
  BY <1>11 DEF Recheck
<1>12. CASE WakeUp
  BY <1>12 DEF WakeUp
<1>13. ASSUME NEW m \in ticks, Tick(m)
      PROVE  Goal
  BY <1>13 DEF Tick
<1>14. CASE RefreshReads
  BY <1>14 DEF RefreshReads
<1>15. CASE RefreshFails
  BY <1>15 DEF RefreshFails
<1>16. ASSUME NEW k \in resolving, RefreshResolves(k)
      PROVE  Goal
  BY <1>16 DEF RefreshResolves
<1>17. CASE Crash
  BY <1>17 DEF Crash
<1>18. CASE TimePasses
  BY <1>18 DEF TimePasses
<1>19. CASE UNCHANGED vars
  BY <1>19 DEF vars
<1>20. QED
    BY <1>1, <1>2, <1>3, <1>4, <1>5, <1>6, <1>7, <1>8, <1>9, <1>10, <1>11, <1>12,
     <1>13, <1>14, <1>15, <1>16, <1>17, <1>18, <1>19, Zenon
  DEF Next, Workflow

\* The dispatches stay accounted for
LEMMA CountedStep == IInv /\ [Next]_vars => Counted'
<1> SUFFICES ASSUME IInv, [Next]_vars
             PROVE  Counted'
  OBVIOUS
<1> DEFINE Goal == Counted'
<1>0. /\ now \in Nat /\ crashes \in Nat /\ edits \in Nat /\ tried \in [Times -> Nat]
      /\ Times \subseteq Nat /\ NoFire \notin Times
  BY TimeAssumption, FaultAssumption, Constants DEF IInv, TypeOK
<1> USE DEF IInv, Counted, DispatchBounded, Accounted, rowVars, waitVars, callVars, fireVars
<1>a. ASSUME UNCHANGED <<now, row, plan, tried, crashes, edits>>
      PROVE  Goal
  BY <1>a
<1>b. \A o \in Times : tried[o] \in Nat /\ o \in Nat
  BY <1>0, Zenon
<1>1. CASE StartWorkflow
  BY <1>a, <1>1, Zenon DEF StartWorkflow
<1>2. CASE StartWorkflowFails
  BY <1>2 DEF StartWorkflowFails
<1>3. CASE UpdateReads
  BY <1>a, <1>3, Zenon DEF UpdateReads
<1>4. CASE UpdateCommits
  <2>1. UNCHANGED <<now, plan, tried, crashes>> /\ edits' = edits + 1
    BY <1>4 DEF UpdateCommits
  <2>2. \A o \in Times : Accounted(o)' /\ tried'[o] =< 1 + crashes' + edits'
    BY <1>0, <1>b, <2>1
  <2>3. QED
    BY <2>1, <2>2
<1>5. CASE DeleteTask
  BY <1>5 DEF DeleteTask
<1>6. CASE ReadRow
  <2>1. CASE row = Missing \/ ~row.enabled
    BY <1>a, <1>6, <2>1, ZenonT(30) DEF ReadRow
  <2>2. CASE row # Missing /\ row.enabled
    <3> DEFINE r == ResolveCatchUp(row.sched, row.next, now, row.policy)
    <3>1. /\ plan' = [due |-> r.due, next |-> r.next, write |-> r.due # {} \/ r.next # row.next]
          /\ UNCHANGED <<now, row, tried, crashes, edits>>
      BY <1>6, <2>2, Zenon DEF ReadRow
    <3>2. r = ResolveCatchUp(row.sched, row.next, now, row.policy)
      OBVIOUS
    <3> HIDE DEF r
    <3>3. /\ r.next \in Times \union {NoFire}
          /\ \A o \in r.due : From(row.next, o)
          /\ r.next # NoFire => r.next > now \/ From(row.next, r.next)
      BY <2>2, <3>2, Resolved, Zenon
    <3>4. \A o \in Times : From(row.next, o) => Accounted(o)
      BY <1>6, <2>2, SMTT(30) DEF ReadRow, PlanSound, NoPlan
    <3>5. ASSUME NEW o \in Times, From(r.next, o)
          PROVE  Accounted(o)
      <4>1. r.next \in Nat /\ r.next # NoFire /\ r.next =< o
        BY <1>0, <3>3, <3>5, Zenon DEF From
      <4>2. CASE r.next > now
        <5>1. ~(o =< now)
          BY <1>0, <1>b, <4>1, <4>2
        <5>2. tried[o] = 0
          BY <1>b, <5>1
        <5>3. QED
          BY <1>0, <5>2
      <4>3. CASE From(row.next, r.next)
        <5>0. row.next \in Times \union {NoFire}
          BY <2>2, RowParts
        <5>1. row.next \in Nat
          BY <5>0, Constants
        <5>2. From(row.next, o)
          BY <1>b, <4>1, <4>3, <5>1, SMTT(30) DEF From
        <5>3. QED
          BY <3>4, <5>2, SMTT(30)
      <4>4. QED
        BY <3>3, <4>1, <4>2, <4>3
    <3>6. plan'.due = r.due /\ plan'.next = r.next
      BY <3>1
    <3>7. QED
      BY <3>1, <3>3, <3>4, <3>5, <3>6
  <2>3. QED
    BY <2>1, <2>2
<1>7. CASE Dispatch
  <2> DEFINE d == Least(plan.due)
  <2>1. plan.due \in SUBSET Times /\ plan.due # {} /\ plan.due \in SUBSET Nat
    BY <1>0, <1>7, SMTT(30) DEF Dispatch, TypeOK
  <2>2. d \in plan.due /\ d \in Times
    BY <2>1, LeastIs
  <2>3. /\ plan' = [plan EXCEPT !.due = @ \ {d}] /\ tried' = [tried EXCEPT ![d] = @ + 1]
        /\ UNCHANGED <<now, row, crashes, edits>>
    BY <1>7 DEF Dispatch
  <2> HIDE DEF d
  <2>4. /\ tried'[d] = tried[d] + 1
        /\ \A o \in Times \ {d} : tried'[o] = tried[o]
    BY <1>0, <2>2, <2>3
  <2>5. /\ plan'.due = plan.due \ {d} /\ plan'.next = plan.next /\ plan'.write = plan.write
    BY <2>3 DEF TypeOK
  <2>6. plan.write /\ d =< now /\ (plan.next = NoFire \/ d < plan.next) /\ Accounted(d)
    BY <2>1, <2>2, SMTT(30) DEF PlanSound
  <2>7. ~From(plan.next, d)
    <3>1. plan.next \in Times \union {NoFire}
      BY DEF TypeOK
    <3>2. plan.next \in Nat /\ d \in Nat
      BY ONLY <1>0, <2>2, <3>1, FireIsNat, Zenon
    <3>3. QED
      BY <2>6, <3>2 DEF From
  <2>8. tried'[d] =< 1 + crashes + edits
    <3>1. tried[d] \in Nat /\ tried[d] =< crashes + edits
      BY <1>b, <2>2, <2>6, Zenon
    <3>2. QED
      BY <1>0, <2>4, <3>1, SMTT(30)
  <2>9. QED
    BY <2>3, <2>4, <2>5, <2>6, <2>7, <2>8
<1>8. CASE RecordProgress
  <2>1. plan' = NoPlan /\ UNCHANGED <<now, tried, crashes, edits>>
    BY <1>8 DEF RecordProgress
  <2>2. plan'.due = {} /\ ~From(plan'.next, 0) /\ plan'.next = NoFire
    BY <2>1 DEF NoPlan, From
  <2>3. CASE plan.write /\ row # Missing
    <3>1. row' = [row EXCEPT !.next = plan.next]
      BY <1>8, <2>3 DEF RecordProgress
    <3>2. row'.next = plan.next
      BY <2>3, <3>1, RowParts DEF Rows
    <3>3. QED
      BY <2>1, <2>2, <3>2 DEF From
  <2>4. CASE ~(plan.write /\ row # Missing)
    <3>1. row' = row
      BY <1>8, <2>4, Zenon DEF RecordProgress
    <3>2. QED
      BY <2>1, <2>2, <2>4, <3>1 DEF From
  <2>5. QED
    BY <2>3, <2>4
<1>9. CASE LoadSnapshot
  BY <1>a, <1>9 DEF LoadSnapshot
<1>10. CASE NextWaitToken
  BY <1>a, <1>10, ZenonT(30) DEF NextWaitToken
<1>11. CASE Recheck
  BY <1>a, <1>11, Zenon DEF Recheck
<1>12. CASE WakeUp
  BY <1>a, <1>12, Zenon DEF WakeUp
<1>13. ASSUME NEW m \in ticks, Tick(m)
      PROVE  Goal
  BY <1>a, <1>13, Zenon DEF Tick
<1>14. CASE RefreshReads
  BY <1>a, <1>14, Zenon DEF RefreshReads
<1>15. CASE RefreshFails
  BY <1>a, <1>15, Zenon DEF RefreshFails
<1>16. ASSUME NEW k \in resolving, RefreshResolves(k)
      PROVE  Goal
  BY <1>a, <1>16, SMTT(30) DEF RefreshResolves
<1>17. CASE Crash
  <2>1. UNCHANGED <<now, row, tried, edits>> /\ crashes' = crashes + 1
    BY <1>17 DEF Crash
  <2>2. \A o \in Times : Accounted(o)' /\ tried'[o] =< 1 + crashes' + edits'
    BY <1>0, <1>b, <2>1
  <2>3. QED
    BY <2>1, <2>2
<1>18. CASE TimePasses
  <2>1. UNCHANGED <<row, plan, tried, crashes, edits>> /\ now' = now + 1
    BY <1>18 DEF TimePasses
  <2>2. \A o \in Times : tried'[o] > 0 => o =< now'
    BY <1>0, <1>b, <2>1, SMTT(30)
  <2>3. QED
    BY <2>1, <2>2, SMTT(30)
<1>19. CASE UNCHANGED vars
  BY <1>a, <1>19 DEF vars
<1>20. QED
    BY <1>1, <1>2, <1>3, <1>4, <1>5, <1>6, <1>7, <1>8, <1>9, <1>10, <1>11, <1>12,
     <1>13, <1>14, <1>15, <1>16, <1>17, <1>18, <1>19, Zenon
  DEF Next, Workflow

\* run_all stays complete
LEMMA CompleteStep == IInv /\ [Next]_vars => Complete'
<1> SUFFICES ASSUME IInv, [Next]_vars
             PROVE  Complete'
  OBVIOUS
<1> DEFINE Goal == Complete'
<1> USE DEF IInv, Complete, rowVars, waitVars, callVars, fireVars
<1>a. ASSUME UNCHANGED <<row, base, raced, plan, tried, outdated>>,
             pc' = "dispatch" => pc = "dispatch"
      PROVE  Goal
  BY <1>a DEF Covered
<1>1. CASE StartWorkflow
  BY <1>a, <1>1, Zenon DEF StartWorkflow
<1>2. CASE StartWorkflowFails
  <2>1. CASE row' = Missing
    BY <2>1
  <2>2. CASE row' = row
    BY <1>a, <1>2, <2>2, Zenon DEF StartWorkflowFails
  <2>3. QED
    BY <1>2, <2>1, <2>2, Zenon DEF StartWorkflowFails
<1>3. CASE UpdateReads
  BY <1>a, <1>3, Zenon DEF UpdateReads
<1>4. CASE UpdateCommits
  <2>1. CASE row = Missing
    BY <1>4, <2>1 DEF UpdateCommits
  <2>2. CASE row # Missing
    <3>1. /\ row' = edit.row /\ base' = edit.at /\ pc' = pc /\ edit # NoEdit
      BY <1>4, <2>2 DEF UpdateCommits
    <3>2. ~raced' => pc # "dispatch"
      BY <1>4, <2>2, Zenon DEF UpdateCommits
    <3>3. row'.enabled => \A o \in row'.sched : base' < o => From(row'.next, o)
      BY <3>1 DEF EditSound
    <3>4. QED
      BY <3>1, <3>2, <3>3 DEF From
  <2>3. QED
    BY <2>1, <2>2
<1>5. CASE DeleteTask
  BY <1>5, Zenon DEF DeleteTask
<1>6. CASE ReadRow
  <2>1. CASE row = Missing \/ ~row.enabled
    BY <1>a, <1>6, <2>1, ZenonT(30) DEF ReadRow
  <2>2. CASE row # Missing /\ row.enabled
    <3> DEFINE r == ResolveCatchUp(row.sched, row.next, now, row.policy)
    <3>1. /\ plan' = [due |-> r.due, next |-> r.next, write |-> r.due # {} \/ r.next # row.next]
          /\ UNCHANGED <<row, base, raced, tried>>
          /\ outdated' = outdated \union {o \in row.sched : row.next =< o /\ o < now - Window}
      BY <1>6, <2>2, Zenon DEF ReadRow
    <3>2. r = ResolveCatchUp(row.sched, row.next, now, row.policy)
      OBVIOUS
    <3> HIDE DEF r
    <3>3. row.policy = "run_all" => \A o \in row.sched :
             From(row.next, o) => From(r.next, o) \/ o \in r.due \/ o < now - Window
      BY <2>2, <3>2, Resolved
    <3>4. plan'.due = r.due /\ plan'.next = r.next
      BY <3>1, Zenon
    <3>5. ASSUME ~raced, row.policy = "run_all", NEW o \in row.sched, base < o
          PROVE  /\ From(row.next, o) \/ Covered(o)'
                 /\ From(r.next, o) \/ Covered(o)' \/ o \in r.due
      <4>1. CASE Covered(o)
        BY <3>1, <4>1 DEF Covered
      <4>2. CASE From(row.next, o) /\ o < now - Window
        BY <3>1, <4>2, Zenon DEF Covered, From
      <4>3. CASE From(row.next, o) /\ ~(o < now - Window)
        BY <3>3, <3>5, <4>3
      <4>4. QED
        BY <2>2, <3>5, <4>1, <4>2, <4>3, Zenon
    <3>6. QED
      BY <3>1, <3>4, <3>5, ZenonT(30) DEF From
  <2>3. QED
    BY <2>1, <2>2
<1>7. CASE Dispatch
  <2> DEFINE d == Least(plan.due)
  <2>1. plan.due \in SUBSET Times /\ plan.due # {} /\ plan.due \in SUBSET Nat
    BY <1>7, Constants DEF Dispatch, TypeOK
  <2>2. d \in plan.due /\ d \in Times
    BY <2>1, LeastIs
  <2>3. /\ plan' = [plan EXCEPT !.due = @ \ {d}] /\ tried' = [tried EXCEPT ![d] = @ + 1]
        /\ UNCHANGED <<row, base, raced, outdated, pc>>
    BY <1>7 DEF Dispatch
  <2> HIDE DEF d
  <2>4. /\ tried'[d] > 0
        /\ \A o \in Times \ {d} : tried'[o] = tried[o]
    BY <2>2, <2>3 DEF TypeOK
  <2>5. plan'.due = plan.due \ {d} /\ plan'.next = plan.next
    BY <2>3 DEF TypeOK
  <2>6. row # Missing => \A o \in row.sched : o \in Times
    BY RowParts
  <2>7. row # Missing => \A o \in row.sched :
           /\ Covered(o) => Covered(o)'
           /\ o \in plan.due => o \in plan'.due \/ Covered(o)'
    BY <2>3, <2>4, <2>5, <2>6, Zenon DEF Covered
  <2>8. QED
    BY <2>3, <2>5, <2>7 DEF From
<1>8. CASE RecordProgress
  <2>1. /\ pc = "dispatch" /\ plan.due = {} /\ pc' # "dispatch"
        /\ UNCHANGED <<tried, outdated, base, raced>>
    BY <1>8 DEF RecordProgress
  <2>2. CASE plan.write /\ row # Missing
    <3>1. row' = [row EXCEPT !.next = plan.next]
      BY <1>8, <2>2 DEF RecordProgress
    <3>2. /\ row'.next = plan.next /\ row'.sched = row.sched
          /\ row'.enabled = row.enabled /\ row'.policy = row.policy
      BY <2>2, <3>1, RowParts, Zenon DEF Rows
    <3>3. QED
      BY <2>1, <2>2, <3>2 DEF From, Covered
  <2>3. CASE ~(plan.write /\ row # Missing)
    <3>1. row' = row
      BY <1>8, <2>3, Zenon DEF RecordProgress
    <3>2. QED
      BY <2>1, <3>1 DEF Covered
  <2>4. QED
    BY <2>2, <2>3
<1>9. CASE LoadSnapshot
  BY <1>a, <1>9 DEF LoadSnapshot
<1>10. CASE NextWaitToken
  BY <1>a, <1>10, Zenon DEF NextWaitToken
<1>11. CASE Recheck
  BY <1>a, <1>11 DEF Recheck
<1>12. CASE WakeUp
  BY <1>a, <1>12, Zenon DEF WakeUp
<1>13. ASSUME NEW m \in ticks, Tick(m)
      PROVE  Goal
  BY <1>a, <1>13, Zenon DEF Tick
<1>14. CASE RefreshReads
  BY <1>a, <1>14, Zenon DEF RefreshReads
<1>15. CASE RefreshFails
  BY <1>a, <1>15, Zenon DEF RefreshFails
<1>16. ASSUME NEW k \in resolving, RefreshResolves(k)
      PROVE  Goal
  BY <1>a, <1>16, Zenon DEF RefreshResolves
<1>17. CASE Crash
  <2>1. UNCHANGED <<row, base, raced, tried, outdated>> /\ pc' = "execute"
    BY <1>17, Zenon DEF Crash
  <2>2. QED
    BY <2>1 DEF Covered
<1>18. CASE TimePasses
  BY <1>a, <1>18, ZenonT(30) DEF TimePasses
<1>19. CASE UNCHANGED vars
  BY <1>a, <1>19, Zenon DEF vars
<1>20. QED
    BY <1>1, <1>2, <1>3, <1>4, <1>5, <1>6, <1>7, <1>8, <1>9, <1>10, <1>11, <1>12,
     <1>13, <1>14, <1>15, <1>16, <1>17, <1>18, <1>19, ZenonT(30)
  DEF Next, Workflow
-----------------------------------------------------------------------------
\* The invariant holds initially
LEMMA InitInv == Init => IInv
<1> SUFFICES ASSUME Init
             PROVE  IInv
  OBVIOUS
<1>0. /\ row \in Rows /\ row.next = NextFireFrom(row.sched, row.enabled)
      /\ row.sched \in SUBSET Times
  BY Constants DEF Init, Rows
<1>1. TypeOK
  <2>1. now \in 0 .. MaxTime /\ crashes \in 0 .. MaxCrashes /\ edits \in 0 .. MaxEdits /\ base \in 0 .. MaxTime
    BY TimeAssumption, FaultAssumption, SMTT(30) DEF Init
  <2>2. plan \in [due : SUBSET Times, next : Times \union {NoFire}, write : BOOLEAN]
        /\ snap \in [enabled : BOOLEAN, next : Times \union {NoFire}]
    BY DEF Init, NoPlan, NoSnap
  <2>3. tried \in [Times -> Nat]
    BY DEF Init
  <2>4. /\ changed \in BOOLEAN /\ woken \in BOOLEAN /\ lost \in BOOLEAN /\ raced \in BOOLEAN
    BY Zenon DEF Init
  <2>5. QED
    BY <1>0, <2>1, <2>2, <2>3, <2>4 DEF Init, TypeOK, Steps
<1>2. Informed
  BY FS_EmptySet, Zenon DEF Init, Informed
<1>3. PlanSound /\ EditSound
  BY DEF Init, PlanSound, EditSound, NoPlan
<1>4. Counted
  BY Constants, SMTT(30) DEF Init, Counted, DispatchBounded, Accounted, NoPlan, From
<1>5. Complete
  <2>1. ASSUME row.enabled, NEW o \in row.sched
        PROVE  From(row.next, o)
    <3>1. row.next = NextFireAfter(row.sched, 0)
      BY <1>0, <2>1 DEF Init, NextFireFrom
    <3>2. o > 0
      BY <1>0, <2>1, TimeAssumption DEF Times
    <3>3. \A x \in row.sched : 0 < x => From(NextFireAfter(row.sched, 0), x)
      BY <1>0, NextFireIs
    <3>4. QED
      BY <2>1, <3>1, <3>2, <3>3
  <2>2. QED
    BY <2>1 DEF Init, Complete
<1>6. QED
  BY <1>1, <1>2, <1>3, <1>4, <1>5 DEF IInv

\* The inductive invariant holds in every reachable state of the workflow,
\* its handlers and the requests on its row
THEOREM ScheduleSafe == Spec => []IInv
<1>1. IInv /\ [Next]_vars => IInv'
  BY TypeStep, InformedStep, PlanStep, EditStep, CountedStep, CompleteStep DEF IInv
<1>2. QED
  BY InitInv, <1>1, PTL DEF Spec

\* Every variable keeps its type
THEOREM TypesCorrect == Spec => []TypeOK
<1>1. IInv => TypeOK
  BY SMTT(30) DEF IInv
<1>2. QED
  BY <1>1, ScheduleSafe, PTL

\* Nothing but a write of the row, which is noted, parts the snapshot from it
LEMMA WatchedStep ==
    ASSUME TypeOK, Watched, [Next]_vars
    PROVE  Watched'
<1> USE DEF Watched, rowVars, waitVars, callVars, fireVars
<1>1. CASE StartWorkflow \/ StartWorkflowFails \/ ReadRow \/ Dispatch \/ RecordProgress
             \/ Crash \/ WakeUp
  BY <1>1 DEF StartWorkflow, StartWorkflowFails, ReadRow, Dispatch, RecordProgress,
     Crash, WakeUp
<1>2. CASE UpdateReads \/ RefreshReads \/ RefreshFails \/ TimePasses \/ UNCHANGED vars
  BY <1>2, Zenon DEF UpdateReads, RefreshReads, RefreshFails, TimePasses, vars
<1>3. CASE UpdateCommits \/ DeleteTask
  <2>1. /\ UNCHANGED <<pc, snap, token, woken, ticks>>
        /\ changed' \/ UNCHANGED <<row, changed>>
    BY <1>3, Zenon DEF UpdateCommits, DeleteTask
  <2>2. QED
    BY <2>1
<1>4. CASE LoadSnapshot
  BY <1>4, SMTT(30) DEF LoadSnapshot
<1>5. CASE NextWaitToken
  BY <1>5, Zenon DEF NextWaitToken
<1>6. CASE Recheck
  BY <1>6, SMTT(30) DEF Recheck
<1>7. ASSUME NEW m \in ticks, Tick(m)
      PROVE  Watched'
  <2>1. woken \/ m.token = token => woken'
    BY <1>7, Zenon DEF Tick
  <2>2. ticks' = ticks \ {m} /\ UNCHANGED <<pc, changed, row, snap, token>>
    BY <1>7 DEF Tick
  <2>3. m = [token |-> token, at |-> snap.next] => m.token = token
    OBVIOUS
  <2>4. QED
    BY <2>1, <2>2, <2>3
<1>8. ASSUME NEW k \in resolving, RefreshResolves(k)
      PROVE  Watched'
  <2>1. woken => woken'
    BY <1>8, Zenon DEF RefreshResolves
  <2>2. UNCHANGED <<pc, changed, row, snap, token, ticks>>
    BY <1>8 DEF RefreshResolves
  <2>3. QED
    BY <2>1, <2>2
<1>9. QED
  BY <1>1, <1>2, <1>3, <1>4, <1>5, <1>6, <1>7, <1>8, Zenon DEF Next, Workflow

\* A workflow that sleeps on a snapshot the row no longer agrees with has been
\* told, is about to be told, or the call that tells it was lost; one that
\* sleeps past its time has besides a tick of its own that is due
THEOREM NoLostWakeUp == Spec => []WaiterInformed
<1>1. Init => Watched
  BY DEF Init, Watched
<1>2. IInv /\ Watched /\ [Next]_vars => Watched'
  BY WatchedStep DEF IInv
<1>3. IInv /\ Watched => WaiterInformed
  <2> SUFFICES ASSUME Informed, Watched, pc = "waiting", Due, ~Told
               PROVE  \E m \in ticks : m.token = token /\ m.at =< now
    BY DEF IInv, Informed, WaiterInformed
  <2>1. ~changed /\ ~woken
    BY DEF Informed, Told
  <2>2. row.enabled = snap.enabled /\ row.next = snap.next
    BY <2>1, SMTT(30) DEF Watched
  <2>3. [token |-> token, at |-> snap.next] \in ticks
    BY <2>1, <2>2 DEF Watched, Due
  <2>4. QED
    BY <2>2, <2>3 DEF Due
<1>4. QED
  BY <1>1, <1>2, <1>3, ScheduleSafe, PTL DEF Spec

\* Only a crash or an update makes the workflow dispatch an occurrence again,
\* and each of them at most once
THEOREM DispatchesBounded == Spec => []DispatchBounded
<1>1. IInv => DispatchBounded
  BY DEF IInv, Counted
<1>2. QED
  BY <1>1, ScheduleSafe, PTL

\* Under run_all every occurrence before next_fire_at was dispatched or had
\* left the catch-up window, unless an update raced with the iteration
THEOREM RunAllIsComplete == Spec => []RunAllComplete
<1>1. IInv => RunAllComplete
  <2> SUFFICES ASSUME IInv
               PROVE  RunAllComplete
    OBVIOUS
  <2>1. row # Missing => row.sched \in SUBSET Times /\ row.next \in Nat /\ Times \subseteq Nat
    <3> SUFFICES ASSUME row # Missing
                 PROVE  row.sched \in SUBSET Times /\ row.next \in Nat /\ Times \subseteq Nat
      BY Constants
    <3>1. row.sched \in SUBSET Times /\ row.next \in Times \union {NoFire}
      BY RowParts DEF IInv
    <3>2. QED
      BY <3>1, FireIsNat, Constants
  <2>2. QED
    BY <2>1 DEF IInv, Complete, RunAllComplete, From, Covered
<1>2. QED
  BY <1>1, ScheduleSafe, PTL
=============================================================================
