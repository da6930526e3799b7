--------------------------- MODULE ScheduledTasks ---------------------------
(***************************************************************************)
(* One scheduled task: its row in roz_scheduled_tasks, the requests that   *)
(* change the row (roz-server grpc/tasks.rs), the durable workflow that    *)
(* fires it (restate/scheduled_task_workflow.rs) and the catch-up rules    *)
(* (roz-core schedule.rs).                                                 *)
(*                                                                         *)
(* Time is a small number, a cron schedule the set of times it fires at.   *)
(* last_fire_at, the name and the template are left out: the workflow only *)
(* compares them, and every write also moves updated_at, so its snapshot   *)
(* comparison is the flag `changed`.  Restate runs the steps of the        *)
(* workflow once each, except that a step (ctx.run) whose result was not   *)
(* recorded when the server went down is run again.                        *)
(***************************************************************************)
EXTENDS Integers, FiniteSets

CONSTANTS
    Schedules,      \* the schedules a request may name, as sets of times
    MaxTime,        \* bound: the last moment
    Window,         \* MAX_CATCH_UP_WINDOW
    MaxEdits,       \* bound: updates that commit
    MaxCrashes      \* bound: server crashes

Times == 1 .. MaxTime
NoFire == 0         \* next_fire_at is None

ASSUME TimeAssumption == MaxTime \in Nat /\ Window \in Nat
ASSUME ScheduleAssumption == Schedules \subseteq SUBSET Times
ASSUME FaultAssumption == MaxEdits \in Nat /\ MaxCrashes \in Nat

VARIABLES
    now,        \* the clock
    row,        \* the row, or Missing
    edit,       \* the row an update is about to write, or NoEdit
    pc,         \* where the workflow stands
    plan,       \* what the current iteration still has to dispatch and record
    snap,       \* the snapshot the workflow goes to wait on
    changed,    \* the row was written since the snapshot was loaded
    token,      \* wait_token, 0 when cleared
    woken,      \* a promise of the current token is resolved
    ticks,      \* the delayed calls of tick
    refreshes,  \* the calls of refresh on their way
    resolving,  \* the tokens that calls of refresh have read and will resolve
    tried,      \* how often each occurrence was handed to dispatch_task
    outdated,   \* the occurrences older than the window when they were due
    base,       \* when next_fire_at was last computed by a request
    crashes, edits, \* counters of the bounds
    lost,       \* a call of refresh was lost
    raced       \* an update committed inside an iteration

vars == <<now, row, edit, pc, plan, snap, changed, token, woken, ticks,
          refreshes, resolving, tried, outdated, base, crashes, edits,
          lost, raced>>
rowVars == <<row, edit, base, edits, raced>>
waitVars == <<snap, token, woken, ticks>>
callVars == <<refreshes, resolving, lost>>
fireVars == <<plan, tried, outdated>>

Policies == {"skip_missed", "run_latest", "run_all"}
Rows == [enabled : BOOLEAN, sched : Schedules, policy : Policies,
         next : Times \union {NoFire}]
Missing == [enabled |-> FALSE, sched |-> {}, policy |-> "none", next |-> NoFire]
NoEdit == [row |-> Missing, at |-> 0]
NoPlan == [due |-> {}, next |-> NoFire, write |-> FALSE]
NoSnap == [enabled |-> FALSE, next |-> NoFire]
Steps == {"absent", "unstarted", "execute", "dispatch", "load", "token",
          "recheck", "waiting", "deleted"}

Least(S) == CHOOSE o \in S : \A p \in S : o =< p
Latest(S) == CHOOSE o \in S : \A p \in S : p =< o

\* next_fire_after
NextFireAfter(s, t) ==
    LET later == {o \in s : o > t} IN IF later = {} THEN NoFire ELSE Least(later)

\* next_fire_from_schedule
NextFireFrom(s, enabled) == IF enabled THEN NextFireAfter(s, now) ELSE NoFire

\* occurrences_between, for a start that is not after the end
OccurrencesBetween(s, start, end) == {o \in s : start =< o /\ o =< end}

\* The occurrences that are due, from next_fire_at or the start of the window
DueOccurrences(s, next, time) ==
    OccurrencesBetween(s, IF next < time - Window THEN time - Window ELSE next, time)

\* Mutant: the first occurrence of the window is left out
DueRunsExclusive(s, next, time, policy) ==
    LET due == DueOccurrences(s, next, time) \ {next} IN
    CASE policy = "skip_missed" -> {}
      [] policy = "run_latest" -> IF due = {} THEN {} ELSE {Latest(due)}
      [] policy = "run_all" -> due

\* The occurrences the policy keeps
DueRuns(s, next, time, policy) ==
    LET due == DueOccurrences(s, next, time) IN
    CASE policy = "skip_missed" -> {}
      [] policy = "run_latest" -> IF due = {} THEN {} ELSE {Latest(due)}
      [] policy = "run_all" -> due

\* Mutant: the cursor stays at the first occurrence that is run
ResolveFromFirst(s, next, time, policy) ==
    CASE next = NoFire -> [due |-> {}, next |-> NextFireAfter(s, time)]
      [] next > time -> [due |-> {}, next |-> next]
      [] OTHER ->
         LET due == DueRuns(s, next, time, policy)
             cursor == IF due = {} THEN time ELSE Least(due)
         IN [due |-> due, next |-> NextFireAfter(s, cursor)]

\* resolve_catch_up
ResolveCatchUp(s, next, time, policy) ==
    CASE next = NoFire -> [due |-> {}, next |-> NextFireAfter(s, time)]
      [] next > time -> [due |-> {}, next |-> next]
      [] next # NoFire /\ next =< time ->
         LET due == DueRuns(s, next, time, policy)
             cursor == IF due = {} THEN time ELSE Latest(due)
         IN [due |-> due, next |-> NextFireAfter(s, cursor)]
-----------------------------------------------------------------------------
\* The state after create_scheduled_task has committed its row
Init ==
    /\ now = 0
    /\ row \in {r \in Rows : r.next = NextFireFrom(r.sched, r.enabled)}
    /\ edit = NoEdit
    /\ pc = "absent"
    /\ plan = NoPlan
    /\ snap = NoSnap
    /\ changed = FALSE
    /\ token = 0
    /\ woken = FALSE
    /\ ticks = {}
    /\ refreshes = 0
    /\ resolving = {}
    /\ tried = [o \in Times |-> 0]
    /\ outdated = {}
    /\ base = 0
    /\ crashes = 0
    /\ edits = 0
    /\ lost = FALSE
    /\ raced = FALSE

TypeOK ==
    /\ now \in 0 .. MaxTime
    /\ row \in Rows \union {Missing}
    /\ edit \in [row : Rows, at : 0 .. MaxTime] \union {NoEdit}
    /\ pc \in Steps
    /\ plan \in [due : SUBSET Times, next : Times \union {NoFire}, write : BOOLEAN]
    /\ snap \in [enabled : BOOLEAN, next : Times \union {NoFire}]
    /\ changed \in BOOLEAN
    /\ token \in Nat
    /\ woken \in BOOLEAN
    /\ ticks \subseteq [token : Nat \ {0}, at : Times]
    /\ refreshes \in Nat
    /\ resolving \subseteq Nat \ {0}
    /\ tried \in [Times -> Nat]
    /\ outdated \subseteq Times
    /\ base \in 0 .. MaxTime
    /\ crashes \in 0 .. MaxCrashes
    /\ edits \in 0 .. MaxEdits
    /\ lost \in BOOLEAN
    /\ raced \in BOOLEAN
-----------------------------------------------------------------------------
\* Requests

StartWorkflow ==
    /\ pc = "absent"
    /\ pc' = "execute"
    /\ UNCHANGED <<now, changed, crashes>>
    /\ UNCHANGED <<rowVars, waitVars, callVars, fireVars>>

\* The call fails, though Restate may have accepted it: the row is deleted, or
\* is left when that fails too
StartWorkflowFails ==
    /\ pc = "absent"
    /\ pc' \in {"unstarted", "execute"}
    /\ row' \in {Missing, row}
    /\ changed' = TRUE
    /\ UNCHANGED <<now, edit, base, edits, raced, crashes>>
    /\ UNCHANGED <<waitVars, callVars, fireVars>>

\* update_scheduled_task reads the row and computes the new one
UpdateReads ==
    /\ edit = NoEdit
    /\ edits < MaxEdits
    /\ row # Missing
    /\ \E s \in Schedules, e \in BOOLEAN, p \in Policies :
          edit' = [at |-> now,
                   row |-> [enabled |-> e, sched |-> s, policy |-> p,
                            next |-> NextFireFrom(s, e)]]
    /\ UNCHANGED <<now, row, base, edits, raced, pc, changed, crashes>>
    /\ UNCHANGED <<waitVars, callVars, fireVars>>

\* The update commits and the workflow is to be refreshed; a row that was
\* deleted meanwhile is not found
UpdateCommits ==
    /\ edit # NoEdit
    /\ edit' = NoEdit
    /\ edits' = edits + 1
    /\ IF row = Missing
       THEN UNCHANGED <<row, base, raced, changed, refreshes>>
       ELSE /\ row' = edit.row
            /\ base' = edit.at
            /\ raced' = (raced \/ pc = "dispatch")
            /\ changed' = TRUE
            /\ refreshes' = refreshes + 1
    /\ UNCHANGED <<now, pc, crashes, resolving, lost>>
    /\ UNCHANGED <<waitVars, fireVars>>

DeleteTask ==
    /\ row # Missing
    /\ row' = Missing
    /\ changed' = TRUE
    /\ refreshes' = refreshes + 1
    /\ UNCHANGED <<now, edit, base, edits, raced, pc, crashes, resolving, lost>>
    /\ UNCHANGED <<waitVars, fireVars>>
-----------------------------------------------------------------------------
\* The workflow: execute_iteration

\* Mutant: a row that is not found is an error, which makes Restate try again
ReadRowPresent ==
    /\ pc = "execute"
    /\ row # Missing
    /\ IF row.enabled
       THEN /\ LET r == ResolveCatchUp(row.sched, row.next, now, row.policy) IN
               plan' = [due |-> r.due, next |-> r.next,
                        write |-> r.due # {} \/ r.next # row.next]
            /\ pc' = "dispatch"
       ELSE pc' = "load" /\ UNCHANGED plan
    /\ UNCHANGED <<now, changed, crashes, tried, outdated>>
    /\ UNCHANGED <<rowVars, waitVars, callVars>>

\* The row is read and, when it is enabled, the due runs are resolved
ReadRow ==
    /\ pc = "execute"
    /\ \/ /\ row = Missing
          /\ pc' = "deleted"
          /\ UNCHANGED <<plan, outdated>>
       \/ /\ row # Missing
          /\ ~row.enabled
          /\ pc' = "load"
          /\ UNCHANGED <<plan, outdated>>
       \/ /\ row # Missing
          /\ row.enabled
          /\ LET r == ResolveCatchUp(row.sched, row.next, now, row.policy) IN
             plan' = [due |-> r.due, next |-> r.next,
                      write |-> r.due # {} \/ r.next # row.next]
          /\ outdated' = outdated \union
                {o \in row.sched : row.next =< o /\ o < now - Window}
          /\ pc' = "dispatch"
    /\ UNCHANGED <<now, changed, crashes, tried>>
    /\ UNCHANGED <<rowVars, waitVars, callVars>>

\* dispatch_task for the next due run; whether it returns the task or an error,
\* which is only noted, the loop goes on
Dispatch ==
    /\ pc = "dispatch"
    /\ plan.due # {}
    /\ LET o == Least(plan.due) IN
       /\ plan' = [plan EXCEPT !.due = @ \ {o}]
       /\ tried' = [tried EXCEPT ![o] = @ + 1]
    /\ UNCHANGED <<now, pc, changed, crashes, outdated>>
    /\ UNCHANGED <<rowVars, waitVars, callVars>>

\* record_fire_progress, when there is progress, and the commit
RecordProgress ==
    /\ pc = "dispatch"
    /\ plan.due = {}
    /\ plan' = NoPlan
    /\ IF plan.write /\ row # Missing
       THEN row' = [row EXCEPT !.next = plan.next] /\ changed' = TRUE
       ELSE UNCHANGED <<row, changed>>
    /\ pc' = IF plan.write /\ row = Missing THEN "deleted" ELSE "load"
    /\ UNCHANGED <<now, edit, base, edits, raced, crashes, tried, outdated>>
    /\ UNCHANGED <<waitVars, callVars>>

\* The server goes down before the result of the iteration is recorded: the
\* transaction is rolled back, or has committed; the iteration is run again
Crash ==
    /\ pc \in {"dispatch", "load"}
    /\ crashes < MaxCrashes
    /\ crashes' = crashes + 1
    /\ plan' = NoPlan
    /\ pc' = "execute"
    /\ UNCHANGED <<now, changed, tried, outdated>>
    /\ UNCHANGED <<rowVars, waitVars, callVars>>
-----------------------------------------------------------------------------
\* The workflow: going to sleep

LoadSnapshot ==
    /\ pc = "load"
    /\ IF row = Missing
       THEN pc' = "deleted" /\ UNCHANGED <<snap, changed>>
       ELSE /\ pc' = "token"
            /\ snap' = [enabled |-> row.enabled, next |-> row.next]
            /\ changed' = FALSE
    /\ UNCHANGED <<now, crashes, token, woken, ticks>>
    /\ UNCHANGED <<rowVars, callVars, fireVars>>

\* next_wait_token: wait_seq makes every token a new one, which is all that
\* matters, so the numbers no call knows any more are used again
NextWaitToken ==
    /\ pc = "token"
    /\ token' = Least((1 .. 1 + Cardinality(ticks) + Cardinality(resolving))
                         \ ({m.token : m \in ticks} \union resolving))
    /\ woken' = FALSE
    /\ pc' = "recheck"
    /\ UNCHANGED <<now, changed, crashes, snap, ticks>>
    /\ UNCHANGED <<rowVars, callVars, fireVars>>

\* Mutant: the workflow waits on its snapshot without looking at the row again
RecheckNothing ==
    /\ pc = "recheck"
    /\ \/ /\ snap.enabled /\ snap.next # NoFire /\ snap.next =< now
          /\ token' = 0
          /\ woken' = FALSE
          /\ snap' = NoSnap
          /\ pc' = "execute"
          /\ UNCHANGED ticks
       \/ /\ snap.enabled /\ snap.next > now
          /\ ticks' = ticks \union {[token |-> token, at |-> snap.next]}
          /\ pc' = "waiting"
          /\ UNCHANGED <<token, woken, snap>>
       \/ /\ ~snap.enabled \/ snap.next = NoFire
          /\ pc' = "waiting"
          /\ UNCHANGED <<token, woken, snap, ticks>>
    /\ UNCHANGED <<now, changed, crashes>>
    /\ UNCHANGED <<rowVars, callVars, fireVars>>

\* Mutant: a fire time that has passed meanwhile is waited for without a tick
RecheckLate ==
    /\ pc = "recheck"
    /\ IF changed
       THEN token' = 0 /\ woken' = FALSE /\ snap' = NoSnap /\ pc' = "execute"
       ELSE pc' = "waiting" /\ UNCHANGED <<token, woken, snap>>
    /\ ticks' = IF ~changed /\ snap.enabled /\ snap.next > now
                THEN ticks \union {[token |-> token, at |-> snap.next]}
                ELSE ticks
    /\ UNCHANGED <<now, changed, crashes>>
    /\ UNCHANGED <<rowVars, callVars, fireVars>>

\* The row is loaded again.  When it differs, or is due by now, the loop goes
\* round; otherwise a tick is sent for next_fire_at, if there is one, and the
\* workflow waits for the promises of its token
Recheck ==
    /\ pc = "recheck"
    /\ \/ /\ changed \/ (snap.enabled /\ snap.next # NoFire /\ snap.next =< now)
          /\ token' = 0
          /\ woken' = FALSE
          /\ snap' = NoSnap
          /\ pc' = "execute"
          /\ UNCHANGED ticks
       \/ /\ ~changed
          /\ snap.enabled /\ snap.next > now
          /\ ticks' = ticks \union {[token |-> token, at |-> snap.next]}
          /\ pc' = "waiting"
          /\ UNCHANGED <<token, woken, snap>>
       \/ /\ ~changed
          /\ ~snap.enabled \/ snap.next = NoFire
          /\ pc' = "waiting"
          /\ UNCHANGED <<token, woken, snap, ticks>>
    /\ UNCHANGED <<now, changed, crashes>>
    /\ UNCHANGED <<rowVars, callVars, fireVars>>

WakeUp ==
    /\ pc = "waiting"
    /\ woken
    /\ token' = 0
    /\ woken' = FALSE
    /\ snap' = NoSnap
    /\ pc' = "execute"
    /\ UNCHANGED <<now, changed, crashes, ticks>>
    /\ UNCHANGED <<rowVars, callVars, fireVars>>
-----------------------------------------------------------------------------
\* The shared handlers, concurrent with the workflow

\* tick resolves the promise of its own token
Tick(m) ==
    /\ m.at =< now
    /\ ticks' = ticks \ {m}
    /\ woken' = (woken \/ m.token = token)
    /\ UNCHANGED <<now, pc, changed, crashes, snap, token>>
    /\ UNCHANGED <<rowVars, callVars, fireVars>>

\* refresh reads the current token, and does nothing when there is none ...
RefreshReads ==
    /\ refreshes > 0
    /\ refreshes' = refreshes - 1
    /\ resolving' = resolving \union ({token} \ {0})
    /\ UNCHANGED <<now, pc, changed, crashes, lost>>
    /\ UNCHANGED <<rowVars, waitVars, fireVars>>

\* ... and resolves the promise of the token it read
RefreshResolves(k) ==
    /\ resolving' = resolving \ {k}
    /\ woken' = (woken \/ k = token)
    /\ UNCHANGED <<now, pc, changed, crashes, snap, token, ticks, refreshes, lost>>
    /\ UNCHANGED <<rowVars, fireVars>>

\* The call after the commit fails, which is logged
RefreshFails ==
    /\ refreshes > 0
    /\ refreshes' = refreshes - 1
    /\ lost' = TRUE
    /\ UNCHANGED <<now, pc, changed, crashes, resolving>>
    /\ UNCHANGED <<rowVars, waitVars, fireVars>>

TimePasses ==
    /\ now < MaxTime
    /\ now' = now + 1
    /\ UNCHANGED <<pc, changed, crashes>>
    /\ UNCHANGED <<rowVars, waitVars, callVars, fireVars>>

Workflow ==
    \/ ReadRow \/ Dispatch \/ RecordProgress
    \/ LoadSnapshot \/ NextWaitToken \/ Recheck \/ WakeUp

Next ==
    \/ StartWorkflow \/ StartWorkflowFails
    \/ UpdateReads \/ UpdateCommits \/ DeleteTask
    \/ Workflow
    \/ \E m \in ticks : Tick(m)
    \/ RefreshReads \/ RefreshFails
    \/ \E k \in resolving : RefreshResolves(k)
    \/ Crash
    \/ TimePasses

Spec == Init /\ [][Next]_vars

\* Restate runs an accepted workflow to its next wait and delivers the calls it
\* has accepted; nothing makes a request arrive or the clock move on.
Fairness ==
    /\ WF_vars(Workflow)
    /\ WF_vars(\E m \in ticks : Tick(m))
    /\ WF_vars(RefreshReads)
    /\ WF_vars(\E k \in resolving : RefreshResolves(k))

FairSpec == Spec /\ Fairness
-----------------------------------------------------------------------------
\* next_fire_at of a schedule whose workflow has started has come
Due ==
    /\ row # Missing
    /\ row.enabled
    /\ row.next # NoFire
    /\ row.next =< now
    /\ pc \notin {"absent", "unstarted"}

\* The waiting workflow is about to be woken by a refresh, or the call was lost
Told == woken \/ refreshes > 0 \/ token \in resolving \/ lost

\* No lost wake-up, whichever way updates, handlers and the clock interleave
\* with the workflow's going to sleep: one that sleeps on a snapshot the row has
\* moved away from has the refresh that tells it so still coming, and one that
\* sleeps past next_fire_at has that or the tick of its own token, due by now.
WaiterInformed ==
    pc = "waiting" =>
       /\ changed => Told
       /\ Due => Told \/ \E m \in ticks : m.token = token /\ m.at =< now

\* An occurrence is dispatched once, and once more at most for every iteration
\* that was run again and for every update (whose next_fire_at may be older
\* than the iteration it overwrites).
DispatchBounded ==
    \A o \in Times : tried[o] =< 1 + crashes + edits

\* run_all leaves nothing out: every occurrence between the last request and
\* next_fire_at was handed to dispatch_task or had left the window, as long as
\* no update committed inside an iteration.
RunAllComplete ==
    row # Missing /\ ~raced =>
       \A o \in row.sched :
          (/\ row.enabled
           /\ row.policy = "run_all"
           /\ row.next # NoFire
           /\ base < o
           /\ o < row.next) => tried[o] > 0 \/ o \in outdated

\* A due schedule is served: the workflow moves next_fire_at past the present,
\* unless the schedule is changed or a refresh was lost.
DueServed == Due ~> (~Due \/ lost)

\* The workflow of a deleted schedule ends, unless a refresh was lost.
DeletedEnds ==
    row = Missing ~> (pc \in {"deleted", "absent", "unstarted"} \/ lost)
=============================================================================
