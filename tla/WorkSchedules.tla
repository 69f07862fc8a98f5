--------------------------- MODULE WorkSchedules ---------------------------
(***************************************************************************)
(* Durable Work schedules of one engine.                                   *)
(*                                                                         *)
(*   store   the SQLite tables work_schedules and work_schedule_runs; every *)
(*           method is one transaction (cc_remote/workspaces.py)           *)
(*   loop    claims due occurrences and starts a task for each claim       *)
(*   task    marks its run running, keeps its lease with a heartbeat, runs *)
(*           the turn and completes the run (machine.py)                   *)
(*                                                                         *)
(* A run is one occurrence of a schedule, UNIQUE(schedule_id,              *)
(* scheduled_for); a task is one attempt at a run. Clock values are        *)
(* abstracted to what the queries compare: how many occurrences of a       *)
(* schedule have come due, and whether lease_until or available_at has     *)
(* passed. A repeating schedule that is behind queues one run and moves    *)
(* next_run_at past every occurrence that has come due in the meantime.    *)
(***************************************************************************)
EXTENDS Integers, FiniteSets

CONSTANTS
    Schedules,      \* schedule ids
    Repeating,      \* those created with repeat_seconds
    MaxAttempts,    \* _WORK_SCHEDULE_MAX_ATTEMPTS
    Limit,          \* limit of claim_due_schedules
    MaxOccurrences, \* bound: occurrences of a schedule that come due
    MaxCrashes,     \* bound: wrapper processes that stop
    MaxStalls       \* bound: suspensions of the machine, failed heartbeats

ASSUME ScheduleAssumption ==
    /\ Repeating \subseteq Schedules
    /\ MaxAttempts \in Nat \ {0}
    /\ Limit \in Nat \ {0}
    /\ MaxOccurrences \in Nat \ {0}

Occurrences == 1..MaxOccurrences
Runs        == {r \in Schedules \X Occurrences : r[1] \in Repeating \/ r[2] = 1}
Tasks       == Runs \X (1..MaxAttempts)

RunOf(t)       == t[1]
ScheduleOf(r)  == r[1]

VARIABLES
    sched,      \* row of the schedule: absent, live, tombstone or gone
    enabled,    \* schedules with enabled = 1
    passed,     \* the occurrences of a schedule whose time has passed
    next,       \* the occurrence that next_run_at stands for
    status,     \* status of the run's row, "none" when there is no row
    attempt,    \* attempt of the run's row
    leased,     \* runs whose lease_until has not passed
    available,  \* runs whose available_at has passed
    task,       \* what the task of an attempt is doing
    beating,    \* tasks whose heartbeat is alive
    through,    \* history: the last occurrence due when a run was queued
    used        \* history: counters for the bounds

storeVars == <<sched, enabled, passed, next, status, attempt, leased, available>>
taskVars  == <<task, beating>>
vars      == <<storeVars, taskVars, through, used>>

Open == {"queued", "claimed", "running"}
Held == {"claimed", "running"}

Init ==
    /\ sched     = [s \in Schedules |-> "absent"]
    /\ enabled   = {}
    /\ passed    = [s \in Schedules |-> 0]
    /\ next      = [s \in Schedules |-> 1]
    /\ status    = [r \in Runs |-> "none"]
    /\ attempt   = [r \in Runs |-> 0]
    /\ leased    = {}
    /\ available = {}
    /\ task      = [t \in Tasks |-> "none"]
    /\ beating   = {}
    /\ through   = [r \in Runs |-> 0]
    /\ used      = [crashes |-> 0, stalls |-> 0]
----------------------------------------------------------------------------
(* Commands of the page *)

\* create_schedule
Create(s) ==
    /\ sched[s] = "absent"
    /\ sched'   = [sched EXCEPT ![s] = "live"]
    /\ enabled' = enabled \cup {s}
    /\ UNCHANGED <<passed, next, status, attempt, leased, available, taskVars, through, used>>

\* ON DELETE CASCADE: the rows of every run of the schedules in S
Cascaded(st, S) == [r \in Runs |-> IF ScheduleOf(r) \in S THEN "none" ELSE st[r]]

\* delete_schedule: queued and claimed runs are deleted; a running one keeps
\* the schedule as a tombstone
Delete(s) ==
    /\ sched[s] \in {"live", "tombstone"}
    /\ LET runs    == {r \in Runs : ScheduleOf(r) = s}
           running == \E r \in runs : status[r] = "running"
           kept    == [r \in Runs |-> IF r \in runs /\ status[r] \in {"queued", "claimed"}
                                      THEN "none" ELSE status[r]]
       IN  /\ sched'  = [sched EXCEPT ![s] = IF running THEN "tombstone" ELSE "gone"]
           /\ status' = IF running THEN kept ELSE Cascaded(kept, {s})
    /\ enabled' = enabled \ {s}
    /\ UNCHANGED <<passed, next, attempt, leased, available, taskVars, through, used>>
----------------------------------------------------------------------------
(* claim_due_schedules, one transaction *)

\* mutants: the sweep without its test of the status, and of claimed runs only
ExpiredSettled == {r \in Runs : status[r] \notin {"none", "queued"} /\ r \notin leased}
ExpiredClaimed == {r \in Runs : status[r] = "claimed" /\ r \notin leased}

\* Runs whose lease has passed: failed when no attempt is left, else queued
Expired == {r \in Runs : status[r] \in Held /\ r \notin leased}
Swept(r) == IF r \notin Expired THEN status[r]
            ELSE IF attempt[r] < MaxAttempts THEN "queued" ELSE "failed"

\* LIMIT: Limit members of S, or all of them when there are fewer
Limited(S) == {T \in SUBSET S : IF Cardinality(S) <= Limit THEN T = S
                                ELSE Cardinality(T) = Limit}

\* Schedules whose next occurrence is due; one with an open run is skipped
DueNow     == {s \in enabled : sched[s] = "live" /\ next[s] <= passed[s]}
HasOpen(s) == \E r \in Runs : ScheduleOf(r) = s /\ Swept(r) \in Open

\* mutant: claims without joining work_schedules
ClaimableDeleted(new) ==
    {r \in Runs : \/ r \in new
                  \/ Swept(r) = "queued" /\ (r \in available \/ r \in Expired)}

\* Runs that may be claimed once the occurrences `new` are queued
Claimable(new) ==
    {r \in Runs : /\ sched[ScheduleOf(r)] = "live"
                  /\ \/ r \in new
                     \/ Swept(r) = "queued" /\ (r \in available \/ r \in Expired)}

\* mutant: one occurrence too many is passed over
SkippedMore(s) == passed[s] - next[s] + 2

\* The occurrences of a schedule that is due which next_run_at moves over: its
\* own, which gets the row, and those missed since, which get none.
Skipped(s) == passed[s] - next[s] + 1

ClaimDue ==
    \E D \in Limited(DueNow) :
      LET started == {s \in D : ~HasOpen(s)}
          new     == {r \in Runs : ScheduleOf(r) \in started /\ r[2] = next[ScheduleOf(r)]}
      IN  \E C \in Limited(Claimable(new)) :
            /\ Expired # {} \/ started # {} \/ C # {}
            /\ status' = [r \in Runs |-> IF r \in C THEN "claimed"
                                         ELSE IF r \in new THEN "queued" ELSE Swept(r)]
            /\ attempt' = [r \in Runs |-> IF r \in C THEN attempt[r] + 1 ELSE attempt[r]]
            /\ leased' = (leased \ Expired) \cup C
            /\ available' = available \cup Expired \cup new
            /\ enabled' = enabled \ (started \ Repeating)
            /\ next' = [s \in Schedules |-> IF s \in started \cap Repeating
                                            THEN next[s] + Skipped(s) ELSE next[s]]
            /\ through' = [r \in Runs |-> IF r \in new THEN passed[ScheduleOf(r)] ELSE through[r]]
            /\ task' = [t \in Tasks |-> IF RunOf(t) \in C /\ t[2] = attempt[RunOf(t)] + 1
                                        THEN "claimed" ELSE task[t]]
            /\ UNCHANGED <<sched, passed, beating, used>>
----------------------------------------------------------------------------
(* _run_work_schedule, one task per claim *)

\* mark_schedule_running, and the heartbeat is started; a task whose run is
\* no longer claimed returns
Start(t) ==
    /\ task[t] = "claimed"
    /\ IF status[RunOf(t)] = "claimed"
       THEN /\ status'  = [status EXCEPT ![RunOf(t)] = "running"]
            /\ leased'  = leased \cup {RunOf(t)}
            /\ task'    = [task EXCEPT ![t] = "executing"]
            /\ beating' = beating \cup {t}
       ELSE /\ task'    = [task EXCEPT ![t] = "ended"]
            /\ UNCHANGED <<status, leased, beating>>
    /\ UNCHANGED <<sched, enabled, passed, next, attempt, available, through, used>>

\* renew_schedule_run: the heartbeat ends when the run is no longer held
Renew(t) ==
    /\ t \in beating
    /\ IF status[RunOf(t)] \in Held
       THEN leased' = leased \cup {RunOf(t)} /\ UNCHANGED beating
       ELSE beating' = beating \ {t} /\ UNCHANGED leased
    /\ UNCHANGED <<sched, enabled, passed, next, status, attempt, available, task, through, used>>

\* lease_task.cancel() in the task's finally
BeatsWithout(t) == beating \ {t}

\* What complete_schedule records for run r
Outcome(r, failed) ==
    IF ~failed THEN "succeeded"
    ELSE IF sched[ScheduleOf(r)] = "live" /\ attempt[r] < MaxAttempts THEN "queued"
    ELSE "failed"

\* complete_schedule, and the task ends with its heartbeat. The row of the run
\* may be gone; one of a tombstone is removed with its schedule. A retry is
\* available after a backoff.
Complete(t, failed) ==
    /\ task[t] = "executing"
    /\ task'    = [task EXCEPT ![t] = "ended"]
    /\ beating' = BeatsWithout(t)
    /\ LET r        == RunOf(t)
           s        == ScheduleOf(r)
           recorded == [status EXCEPT ![r] = Outcome(r, failed)]
       IN  IF status[r] = "none"
           THEN UNCHANGED <<sched, status, leased, available>>
           ELSE /\ sched'  = IF sched[s] = "tombstone" THEN [sched EXCEPT ![s] = "gone"] ELSE sched
                /\ status' = IF sched[s] = "tombstone" THEN Cascaded(recorded, {s}) ELSE recorded
                /\ leased' = leased \ {r}
                /\ available' = IF failed THEN available \ {r} ELSE available
    /\ UNCHANGED <<enabled, passed, next, attempt, through, used>>
----------------------------------------------------------------------------
(* Time and failures *)

\* The time of the next occurrence passes, whether or not the last one has a run
FallDue(s) ==
    /\ s \in enabled
    /\ passed[s] < (IF s \in Repeating THEN MaxOccurrences ELSE 1)
    /\ passed' = [passed EXCEPT ![s] = @ + 1]
    /\ UNCHANGED <<sched, enabled, next, status, attempt, leased, available, taskVars, through, used>>

\* available_at passes
BackOff(r) ==
    /\ status[r] = "queued" /\ r \notin available
    /\ available' = available \cup {r}
    /\ UNCHANGED <<sched, enabled, passed, next, status, attempt, leased, taskVars, through, used>>

\* A task is about to start the run, or its heartbeat renews it in time
Minded(r) == \E t \in Tasks : RunOf(t) = r /\ (task[t] = "claimed" \/ t \in beating)

\* lease_until passes: 90 s in which nobody renewed the run
Lapse(r) ==
    /\ status[r] \in Held /\ r \in leased /\ ~Minded(r)
    /\ leased' = leased \ {r}
    /\ UNCHANGED <<sched, enabled, passed, next, status, attempt, available, taskVars, through, used>>

\* The machine is suspended while the wall clock goes on: the lease passes
\* although its task lives
Suspend(r) ==
    /\ used.stalls < MaxStalls /\ used' = [used EXCEPT !.stalls = @ + 1]
    /\ status[r] \in Held /\ r \in leased /\ Minded(r)
    /\ leased' = leased \ {r}
    /\ UNCHANGED <<sched, enabled, passed, next, status, attempt, available, taskVars, through>>

\* renew_schedule_run raises (the database stays locked): the heartbeat task
\* ends, the task of the run does not
HeartbeatFails(t) ==
    /\ used.stalls < MaxStalls /\ used' = [used EXCEPT !.stalls = @ + 1]
    /\ t \in beating /\ beating' = beating \ {t}
    /\ UNCHANGED <<storeVars, task, through>>

\* The wrapper process stops, by a crash or by cancelling its tasks, and is
\* started again; the tables are all that survives
Crash ==
    /\ used.crashes < MaxCrashes /\ used' = [used EXCEPT !.crashes = @ + 1]
    /\ \E t \in Tasks : task[t] \in {"claimed", "executing"}
    /\ task' = [t \in Tasks |-> IF task[t] = "none" THEN "none" ELSE "ended"]
    /\ beating' = {}
    /\ UNCHANGED <<storeVars, through>>

Next ==
    \/ \E s \in Schedules : Create(s) \/ Delete(s) \/ FallDue(s)
    \/ ClaimDue
    \/ \E t \in Tasks : Start(t) \/ Renew(t) \/ HeartbeatFails(t)
    \/ \E t \in Tasks, failed \in BOOLEAN : Complete(t, failed)
    \/ \E r \in Runs : BackOff(r) \/ Lapse(r) \/ Suspend(r)
    \/ Crash

Spec == Init /\ [][Next]_vars

\* The loop scans every 15 s, tasks run to their end, and time passes
Fairness ==
    /\ WF_vars(ClaimDue)
    /\ \A t \in Tasks : /\ WF_vars(Start(t)) /\ WF_vars(Renew(t))
                        /\ WF_vars(\E failed \in BOOLEAN : Complete(t, failed))
    /\ \A r \in Runs : WF_vars(BackOff(r)) /\ WF_vars(Lapse(r))

FairSpec == Spec /\ Fairness
----------------------------------------------------------------------------
(* Properties *)

\* Every variable has its type, and what is leased, available or has a
\* heartbeat is a run or a task that was claimed once: the tables
\* (workspaces.py) and the tasks of the loop (machine.py).
SchedulesTypeOK ==
    /\ sched \in [Schedules -> {"absent", "live", "tombstone", "gone"}]
    /\ enabled \subseteq Schedules
    /\ passed \in [Schedules -> 0..MaxOccurrences] /\ through \in [Runs -> 0..MaxOccurrences]
    /\ next \in [Schedules -> 1..(MaxOccurrences + 1)]
    /\ status \in [Runs -> Open \cup {"none", "succeeded", "failed"}]
    /\ attempt \in [Runs -> Nat]
    /\ leased \subseteq Runs /\ available \subseteq Runs
    /\ task \in [Tasks -> {"none", "claimed", "executing", "ended"}]
    /\ beating \subseteq {t \in Tasks : task[t] = "executing"}

\* No run is started more often than _WORK_SCHEDULE_MAX_ATTEMPTS, whoever
\* requeues it (the sweep of claim_due_schedules or complete_schedule), and an
\* attempt that has not been claimed has no task.
AttemptsBounded ==
    /\ \A r \in Runs : attempt[r] <= MaxAttempts
    /\ \A t \in Tasks : task[t] # "none" => t[2] <= attempt[RunOf(t)]

\* No run is marked running once its schedule was deleted, whatever was claimed,
\* expired or requeued before (delete_schedule against claim_due_schedules and
\* mark_schedule_running).  A run marked before goes on to its turn.
DeletedNeverStarts ==
    [][\A t \in Tasks : task[t] # "executing" /\ task'[t] = "executing"
                            => sched'[ScheduleOf(RunOf(t))] = "live"]_vars

\* Occurrence o is behind next_run_at
Behind(s, o) == o < next[s] \/ (o = next[s] /\ s \notin enabled)

\* A run stands for the occurrences that had come due when it was queued, from
\* its own on
StandsFor(r, s, o) == ScheduleOf(r) = s /\ status[r] # "none" /\ o \in r[2]..through[r]

\* Until its schedule is deleted, next_run_at has left an occurrence behind only
\* after it came due and with exactly one run to stand for it, queued after that:
\* its own, or that of an earlier occurrence that was late. A missed repeat gets
\* no run of its own; none is passed over ahead of time, answered twice, or left
\* without a run by a crash between queueing, claiming and running
\* (claim_due_schedules).
NoOccurrenceLost ==
    \A s \in Schedules, o \in Occurrences : sched[s] = "live" =>
        LET standing == {r \in Runs : StandsFor(r, s, o)} IN
        IF Behind(s, o) THEN o <= passed[s] /\ \E r \in Runs : standing = {r}
        ELSE standing = {}

\* Two turns of one schedule never run at the same time (lease, heartbeat and
\* the open-run test of claim_due_schedules).
NoOverlap ==
    \A t, u \in Tasks :
        /\ task[t] = "executing" /\ task[u] = "executing"
        /\ ScheduleOf(RunOf(t)) = ScheduleOf(RunOf(u))
        => t = u

\* While no lease has passed under a living task, leases exclude overlap and
\* what follows is certain too (the heartbeat renews every 30 s of 90).
Undisturbed   == used.stalls = 0
LeasesExclude == Undisturbed => NoOverlap

\* A run that succeeded is never taken up again (complete_schedule and the
\* sweep change the status of a run whatever it was).
SuccessIsFinal ==
    [][Undisturbed => \A r \in Runs : status[r] = "succeeded"
                                        => status'[r] \in {"succeeded", "none"}]_vars

\* The row of an executing run stays until its task records the result
\* (delete_schedule's tombstone), unless the run's own completion removes it.
RunnerKeepsRow ==
    Undisturbed => \A t \in Tasks : task[t] = "executing" => status[RunOf(t)] = "running"

\* Every open run of a schedule that is not deleted is settled: it succeeds,
\* fails for good, or its schedule is deleted, through crashes and lost leases.
EveryRunSettles ==
    \A r \in Runs : status[r] \in Open
        ~> (status[r] \notin Open \/ sched[ScheduleOf(r)] # "live")

\* The row of a schedule deleted during a run goes with that run ("The terminal
\* writer removes the tombstone atomically", delete_schedule), unless the
\* wrapper stops or the lease passes first: no scan looks at a tombstone again.
TombstonesGo ==
    \A s \in Schedules : sched[s] = "tombstone"
        ~> (sched[s] # "tombstone" \/ used.crashes > 0 \/ ~Undisturbed)

\* The schedule table always: typed, attempts bounded, no occurrence lost.
SchedulesSafe ==
    /\ SchedulesTypeOK
    /\ AttemptsBounded
    /\ NoOccurrenceLost

\* The tasks that run schedules always: one lease per run, and a row to settle.
RunnersSafe ==
    /\ LeasesExclude
    /\ RunnerKeepsRow

\* Both: what the tables keep, and what the tasks that work on them may rely on.
WorkSafe == SchedulesSafe /\ RunnersSafe

\* Every run settles, and a deleted schedule's row goes with its last run.
SchedulesSettle ==
    /\ EveryRunSettles
    /\ TombstonesGo
============================================================================
