------------------------- MODULE BackgroundProofs -------------------------
(***************************************************************************)
(* Proofs about the two loops that run beside the sessions: the one that   *)
(* claims Work schedules and the transport's queue.                        *)
(*                                                                         *)
(* Schedules: for every set of schedules, every limit and any number of    *)
(* crashes and suspensions, the tables stay well typed, no run is started  *)
(* more often than _WORK_SCHEDULE_MAX_ATTEMPTS, no occurrence is lost, and *)
(* a deleted schedule starts no turn.                                      *)
(*                                                                         *)
(* None of these is inductive alone: that a claim stays within the limit   *)
(* needs that what is queued has an attempt left and that a new occurrence *)
(* was never claimed, and the latter needs that a row stands for nothing   *)
(* that is still before next_run_at. That each occurrence has one row to   *)
(* stand for it needs that rows stand for ranges that do not meet, and     *)
(* that next_run_at is never more than one occurrence ahead of the clock.  *)
(*                                                                         *)
(* Leases: as long as no lease passes under a living task, two turns of a  *)
(* schedule never overlap and a run that succeeded stays so. This needs    *)
(* that a claim is its task's, that an executing run has its heartbeat,    *)
(* and that a schedule has one open run at most.                           *)
(*                                                                         *)
(* Link: for every number of producers, every size of frame and every      *)
(* budget, its types and limits, and that it is a lossy FIFO.  First what  *)
(* the two sums over the queue do when a frame goes in or comes out, then  *)
(* the inductive invariant, then the refinement.                           *)
(***************************************************************************)
EXTENDS WorkSchedules, LinkQueue, InductionLemmas, SequenceTheorems, TLAPS

\* What is queued has an attempt left
QueuedHasAttempt == \A r \in Runs : status[r] = "queued" => attempt[r] < MaxAttempts

\* A claimed run belongs to a schedule that is not deleted
ClaimedIsLive == \A r \in Runs : status[r] = "claimed" => sched[ScheduleOf(r)] = "live"

\* An enabled schedule is not deleted
EnabledIsLive == \A s \in enabled : sched[s] = "live"

\* A run without a row was never claimed, unless its row was deleted
NoRowNoAttempt ==
    \A r \in Runs : sched[ScheduleOf(r)] \in {"absent", "live"} /\ status[r] = "none"
                        => attempt[r] = 0

\* next_run_at is one occurrence ahead of the clock at most; a schedule that does
\* not repeat has one occurrence, and is disabled only once that has come due
NextIsNear ==
    \A s \in Schedules :
        /\ next[s] <= passed[s] + 1
        /\ s \notin Repeating => next[s] = 1 /\ passed[s] <= 1
        /\ sched[s] = "live" /\ s \notin enabled => next[s] <= passed[s] /\ s \notin Repeating

\* A row stands for its own occurrence and for later ones, all of them due and
\* behind next_run_at
RowsStand ==
    \A r \in Runs : sched[ScheduleOf(r)] = "live" /\ status[r] # "none" =>
        /\ r[2] <= through[r] /\ through[r] <= passed[ScheduleOf(r)]
        /\ Behind(ScheduleOf(r), through[r])

\* Two rows of a schedule stand for different occurrences
RowsApart ==
    \A r, q \in Runs :
        /\ sched[ScheduleOf(r)] = "live" /\ ScheduleOf(q) = ScheduleOf(r) /\ r # q
        /\ status[r] # "none" /\ status[q] # "none"
        => through[r] < q[2] \/ through[q] < r[2]

\* What next_run_at has left behind has a row
BehindHasRow ==
    \A s \in Schedules, o \in Occurrences :
        sched[s] = "live" /\ Behind(s, o) => \E r \in Runs : StandsFor(r, s, o)

\* The rows of a schedule and its next_run_at
RowsInv == NextIsNear /\ RowsStand /\ RowsApart /\ BehindHasRow

\* A schedule that was never created has no runs
AbsentIsEmpty ==
    \A r \in Runs : sched[ScheduleOf(r)] = "absent"
                        => status[r] = "none" /\ next[ScheduleOf(r)] = 1

ScheduleInv ==
    /\ SchedulesTypeOK
    /\ AttemptsBounded
    /\ RowsInv
    /\ QueuedHasAttempt
    /\ ClaimedIsLive
    /\ EnabledIsLive
    /\ NoRowNoAttempt
    /\ AbsentIsEmpty
----------------------------------------------------------------------------
\* The parts of a run and of a task (the key columns of work_schedule_runs).
LEMMA RunParts == \A r \in Runs : ScheduleOf(r) \in Schedules /\ r[2] \in Nat \ {0}
    BY DEF Runs, ScheduleOf, Occurrences

LEMMA RunsOf ==
    \A s \in Schedules, o \in Occurrences : s \in Repeating \/ o = 1
        => <<s, o>> \in Runs /\ ScheduleOf(<<s, o>>) = s /\ <<s, o>>[2] = o
    BY DEF Runs, ScheduleOf

LEMMA RunIs ==
    \A r, q \in Runs : ScheduleOf(r) = ScheduleOf(q) /\ r[2] = q[2] => r = q
    BY DEF Runs, ScheduleOf

LEMMA TaskParts == \A t \in Tasks : RunOf(t) \in Runs /\ t[2] \in Nat
    BY DEF Tasks, RunOf

\* The tables are empty at first (work_schedules, work_schedule_runs).
LEMMA ScheduleInit == Init => ScheduleInv
    BY ScheduleAssumption, RunParts, TaskParts
    DEF Init, ScheduleInv, SchedulesTypeOK, AttemptsBounded, RowsInv, NextIsNear, RowsStand,
        RowsApart, BehindHasRow, QueuedHasAttempt, ClaimedIsLive, EnabledIsLive, NoRowNoAttempt,
        AbsentIsEmpty, Open

\* A step that leaves the rows, next_run_at and what is enabled of the schedules
\* that stay live leaves what the rows stand for.
LEMMA RowsKept ==
    ASSUME SchedulesTypeOK, RowsInv, UNCHANGED <<next, through>>,
           passed' \in [Schedules -> Nat], \A s \in Schedules : passed[s] <= passed'[s],
           \A s \in Schedules : s \notin Repeating => passed'[s] <= 1,
           \A s \in Schedules : sched'[s] = "live" => sched[s] = "live" /\ (s \in enabled' <=> s \in enabled),
           \A r \in Runs : sched'[ScheduleOf(r)] = "live" => (status'[r] # "none" <=> status[r] # "none")
    PROVE  RowsInv'
<1> USE RunParts, ScheduleAssumption
<1>1. \A s \in Schedules : next[s] \in Nat /\ passed[s] \in Nat /\ passed'[s] \in Nat
    BY DEF SchedulesTypeOK
<1>2. \A r \in Runs : r[2] \in Nat /\ through[r] \in Nat
    BY DEF SchedulesTypeOK
<1>3. NextIsNear'
    BY <1>1 DEF RowsInv, NextIsNear
<1>4. RowsStand'
    BY <1>1, <1>2 DEF RowsInv, RowsStand, Behind
<1>5. RowsApart'
    BY DEF RowsInv, RowsApart
<1>6. BehindHasRow'
    BY DEF RowsInv, BehindHasRow, Behind, StandsFor
<1>7. QED BY <1>3, <1>4, <1>5, <1>6 DEF RowsInv

\* So does a step that leaves the clock and next_run_at, too.
LEMMA RowsKeptStill ==
    ASSUME SchedulesTypeOK, RowsInv, UNCHANGED <<passed, next, through, enabled>>,
           \A s \in Schedules : sched'[s] = "live" => sched[s] = "live",
           \A r \in Runs : sched'[ScheduleOf(r)] = "live" => (status'[r] # "none" <=> status[r] # "none")
    PROVE  RowsInv'
<1>1. passed' \in [Schedules -> Nat] /\ \A s \in Schedules : passed[s] <= passed'[s]
    BY ScheduleAssumption DEF SchedulesTypeOK
<1>2. \A s \in Schedules : s \notin Repeating => passed'[s] <= 1
    BY DEF RowsInv, NextIsNear
<1>3. QED BY <1>1, <1>2, RowsKept

\* create_schedule keeps the invariant.
LEMMA CreateKeeps ==
    ASSUME ScheduleInv, NEW s \in Schedules, Create(s)
    PROVE  ScheduleInv'
<1> USE RunParts DEF ScheduleInv, Create, taskVars
<1>1. SchedulesTypeOK'
    BY DEF SchedulesTypeOK
<1>2. AttemptsBounded'
    BY DEF AttemptsBounded
<1>3. RowsInv'
  <2>1. UNCHANGED <<next, passed, through, status>> /\ s \in enabled'
    OBVIOUS
  <2>2. \A p \in Schedules \ {s} : sched'[p] = sched[p] /\ (p \in enabled' <=> p \in enabled)
    BY DEF SchedulesTypeOK
  <2>3. next[s] = 1 /\ \A r \in Runs : ScheduleOf(r) = s => status[r] = "none"
    <3>1. <<s, 1>> \in Runs /\ ScheduleOf(<<s, 1>>) = s
      BY RunsOf, ScheduleAssumption DEF Occurrences
    <3>2. QED BY <3>1 DEF AbsentIsEmpty
  <2>4. NextIsNear'
    BY <2>1, <2>2 DEF RowsInv, NextIsNear
  <2>5. RowsStand'
    BY <2>1, <2>2, <2>3 DEF RowsInv, RowsStand, Behind
  <2>6. RowsApart'
    BY <2>1, <2>2, <2>3 DEF RowsInv, RowsApart
  <2>7. BehindHasRow'
    <3> SUFFICES ASSUME NEW p \in Schedules, NEW o \in Occurrences, sched'[p] = "live", Behind(p, o)'
                 PROVE  \E r \in Runs : StandsFor(r, p, o)'
      BY DEF BehindHasRow
    <3>1. p # s
      BY <2>1, <2>3 DEF Behind, Occurrences
    <3>2. QED BY <2>1, <2>2, <3>1 DEF RowsInv, BehindHasRow, Behind, StandsFor
  <2>8. QED BY <2>4, <2>5, <2>6, <2>7 DEF RowsInv
<1>4. QueuedHasAttempt' /\ ClaimedIsLive' /\ EnabledIsLive'
    BY DEF QueuedHasAttempt, ClaimedIsLive, EnabledIsLive, SchedulesTypeOK
<1>5. NoRowNoAttempt' /\ AbsentIsEmpty'
    BY DEF NoRowNoAttempt, AbsentIsEmpty, SchedulesTypeOK
<1>6. QED BY <1>1, <1>2, <1>3, <1>4, <1>5

\* delete_schedule keeps the invariant.
LEMMA DeleteKeeps ==
    ASSUME ScheduleInv, NEW s \in Schedules, Delete(s)
    PROVE  ScheduleInv'
<1> USE RunParts DEF ScheduleInv, Delete, taskVars
<1>1. /\ status' \in [Runs -> Open \cup {"none", "succeeded", "failed"}]
      /\ \A r \in Runs : ScheduleOf(r) = s => status'[r] \notin {"queued", "claimed"}
      /\ \A r \in Runs : ScheduleOf(r) # s => status'[r] = status[r]
    BY DEF Cascaded, SchedulesTypeOK, Open
<1>2. /\ sched' \in [Schedules -> {"absent", "live", "tombstone", "gone"}]
      /\ sched'[s] \in {"tombstone", "gone"}
      /\ \A p \in Schedules \ {s} : sched'[p] = sched[p]
      /\ enabled' = enabled \ {s}
      /\ UNCHANGED <<passed, next, attempt, leased, available, task, beating, through>>
    BY DEF SchedulesTypeOK
<1> HIDE DEF Delete
<1>3. SchedulesTypeOK'
    BY <1>1, <1>2 DEF SchedulesTypeOK
<1>4. AttemptsBounded'
    BY <1>2 DEF AttemptsBounded
<1>5. RowsInv'
  <2>1. \A p \in Schedules : passed[p] \in Nat /\ passed' = passed /\ (p \notin Repeating => passed[p] <= 1)
    BY <1>2, ScheduleAssumption DEF SchedulesTypeOK, RowsInv, NextIsNear
  <2>2. passed' \in [Schedules -> Nat]
    BY <1>2, ScheduleAssumption DEF SchedulesTypeOK
  <2>3. \A p \in Schedules : sched'[p] = "live" => sched[p] = "live" /\ (p \in enabled' <=> p \in enabled)
    BY <1>2
  <2>4. \A r \in Runs : sched'[ScheduleOf(r)] = "live" => status'[r] = status[r]
    BY <1>1, <1>2
  <2>5. QED BY <1>2, <2>1, <2>2, <2>3, <2>4, RowsKept
<1>6. QueuedHasAttempt' /\ ClaimedIsLive' /\ EnabledIsLive'
    BY <1>1, <1>2 DEF QueuedHasAttempt, ClaimedIsLive, EnabledIsLive, SchedulesTypeOK
<1>7. NoRowNoAttempt' /\ AbsentIsEmpty'
    BY <1>1, <1>2 DEF NoRowNoAttempt, AbsentIsEmpty
<1>8. QED BY <1>3, <1>4, <1>5, <1>6, <1>7

\* The occurrence that next_run_at stands for has no row yet.
LEMMA NewHasNoRow ==
    ASSUME ScheduleInv, NEW r \in Runs, sched[ScheduleOf(r)] = "live", ScheduleOf(r) \in enabled,
           r[2] = next[ScheduleOf(r)]
    PROVE  status[r] = "none" /\ attempt[r] = 0
<1>1. through[r] \in Nat /\ r[2] \in Nat
    BY RunParts, ScheduleAssumption DEF ScheduleInv, SchedulesTypeOK
<1>2. status[r] = "none"
    BY <1>1 DEF ScheduleInv, RowsInv, RowsStand, Behind
<1>3. QED BY <1>2 DEF ScheduleInv, NoRowNoAttempt

\* claim_due_schedules keeps the invariant: what it claims is queued with an
\* attempt left, swept with an attempt left, or a new occurrence.
LEMMA ClaimKeeps ==
    ASSUME ScheduleInv, ClaimDue
    PROVE  ScheduleInv'
<1> USE RunParts DEF ScheduleInv
<1>1. PICK D \in Limited(DueNow) :
        LET started == {s \in D : ~HasOpen(s)}
            new     == {r \in Runs : ScheduleOf(r) \in started /\ r[2] = next[ScheduleOf(r)]}
        IN  \E C \in Limited(Claimable(new)) :
            /\ Expired # {} \/ started # {} \/ C # {}
            /\ status' = [r \in Runs |-> IF r \in C THEN "claimed"
                                         ELSE IF r \in new THEN "queued" ELSE Swept(r)]
            /\ attempt' = [r \in Runs |-> IF r \in C THEN attempt[r] + 1 ELSE attempt[r]]
            /\ leased' = (leased \ Expired) \cup C
            /\ available' = available \cup Expired \cup new
            /\ enabled' = enabled \ (started \ Repeating)
            /\ next' = [s \in Schedules |-> IF s \in started \cap Repeating
                                            THEN next[s] + Skipped(s) ELSE next[s]]
            /\ through' = [r \in Runs |-> IF r \in new THEN passed[ScheduleOf(r)] ELSE through[r]]
            /\ task' = [t \in Tasks |-> IF RunOf(t) \in C /\ t[2] = attempt[RunOf(t)] + 1
                                        THEN "claimed" ELSE task[t]]
            /\ UNCHANGED <<sched, passed, beating, used>>
    BY DEF ClaimDue
<1> DEFINE started == {s \in D : ~HasOpen(s)}
           new     == {r \in Runs : ScheduleOf(r) \in started /\ r[2] = next[ScheduleOf(r)]}
<1>2. PICK C \in Limited(Claimable(new)) :
            /\ status' = [r \in Runs |-> IF r \in C THEN "claimed"
                                         ELSE IF r \in new THEN "queued" ELSE Swept(r)]
            /\ attempt' = [r \in Runs |-> IF r \in C THEN attempt[r] + 1 ELSE attempt[r]]
            /\ leased' = (leased \ Expired) \cup C
            /\ available' = available \cup Expired \cup new
            /\ enabled' = enabled \ (started \ Repeating)
            /\ next' = [s \in Schedules |-> IF s \in started \cap Repeating
                                            THEN next[s] + Skipped(s) ELSE next[s]]
            /\ through' = [r \in Runs |-> IF r \in new THEN passed[ScheduleOf(r)] ELSE through[r]]
            /\ task' = [t \in Tasks |-> IF RunOf(t) \in C /\ t[2] = attempt[RunOf(t)] + 1
                                        THEN "claimed" ELSE task[t]]
            /\ UNCHANGED <<sched, passed, beating, used>>
    BY <1>1
<1>3. /\ started \subseteq Schedules /\ started \subseteq enabled
      /\ \A s \in started : next[s] <= passed[s]
      /\ \A s \in started : sched[s] = "live"
    BY DEF Limited, DueNow, SchedulesTypeOK
<1>4. /\ C \subseteq Runs
      /\ \A r \in C : sched[ScheduleOf(r)] = "live"
      /\ \A r \in C : r \in new \/ Swept(r) = "queued"
    BY DEF Limited, Claimable
<1>5. \A r \in Runs : /\ Swept(r) \in Open \cup {"none", "succeeded", "failed"}
                      /\ Swept(r) = "queued" => attempt[r] < MaxAttempts
                      /\ Swept(r) = "claimed" => status[r] = "claimed"
                      /\ Swept(r) = "none" <=> status[r] = "none"
    BY DEF Swept, Expired, SchedulesTypeOK, Open, Held, QueuedHasAttempt
<1>6. \A r \in new : status[r] = "none" /\ attempt[r] = 0
    BY <1>3, NewHasNoRow
<1>7. \A r \in C : attempt[r] < MaxAttempts
    BY <1>4, <1>5, <1>6, ScheduleAssumption
<1>8. new \subseteq Runs /\ \A r \in new : ScheduleOf(r) \in started /\ r[2] = next[ScheduleOf(r)]
    OBVIOUS
<1>9. \A r \in Runs : ScheduleOf(r) \in started /\ r[2] = next[ScheduleOf(r)] => r \in new
    OBVIOUS
<1>10. \A s \in Schedules : next[s] \in Nat /\ passed[s] \in Nat /\ passed[s] <= MaxOccurrences
    BY <1>3, ScheduleAssumption DEF SchedulesTypeOK
<1>11. next' = [s \in Schedules |-> IF s \in started \cap Repeating THEN passed[s] + 1 ELSE next[s]]
    BY <1>2, <1>3, <1>10 DEF Skipped
<1> HIDE DEF started, new
<1>12. SchedulesTypeOK'
  <2>1. status' \in [Runs -> Open \cup {"none", "succeeded", "failed"}]
    BY <1>2, <1>5 DEF Open
  <2>2. attempt' \in [Runs -> Nat] /\ next' \in [Schedules -> 1..(MaxOccurrences + 1)]
    BY <1>2, <1>10, <1>11, ScheduleAssumption DEF SchedulesTypeOK
  <2>3. leased' \subseteq Runs /\ available' \subseteq Runs
    BY <1>2, <1>4, <1>8 DEF SchedulesTypeOK, Expired
  <2>4. /\ enabled' \subseteq Schedules /\ passed' \in [Schedules -> 0..MaxOccurrences]
        /\ through' \in [Runs -> 0..MaxOccurrences]
    BY <1>2 DEF SchedulesTypeOK
  <2>5. \A t \in Tasks : RunOf(t) \in C /\ t[2] = attempt[RunOf(t)] + 1
                            => task[t] # "executing"
    BY TaskParts DEF AttemptsBounded, SchedulesTypeOK
  <2>6. /\ task' \in [Tasks -> {"none", "claimed", "executing", "ended"}]
        /\ beating' \subseteq {t \in Tasks : task'[t] = "executing"}
    BY <1>2, <2>5 DEF SchedulesTypeOK
  <2>7. QED BY <1>2, <2>1, <2>2, <2>3, <2>4, <2>6 DEF SchedulesTypeOK
<1>13. AttemptsBounded'
    BY <1>2, <1>7, TaskParts, ScheduleAssumption DEF AttemptsBounded, SchedulesTypeOK
<1>14. RowsInv'
  <2>1. \A r \in Runs : /\ r \in new => status'[r] # "none" /\ through'[r] = passed[ScheduleOf(r)]
                        /\ r \notin new => /\ status'[r] # "none" <=> status[r] # "none"
                                           /\ through'[r] = through[r]
    BY <1>2, <1>4, <1>5
  <2>2. \A r \in Runs : r[2] \in Nat /\ through[r] \in Nat
    BY ScheduleAssumption DEF SchedulesTypeOK
  <2>3. \A s \in Schedules :
            /\ next'[s] = IF s \in started /\ s \in Repeating THEN passed[s] + 1 ELSE next[s]
            /\ s \in enabled' <=> (s \in enabled /\ ~(s \in started /\ s \notin Repeating))
            /\ sched'[s] = sched[s] /\ passed'[s] = passed[s]
    BY <1>2, <1>11
  <2>4. \A s \in started : next[s] <= passed[s] /\ s \in enabled /\ s \in Schedules
    BY <1>3
  <2>5. NextIsNear'
    BY <1>10, <2>3, <2>4 DEF RowsInv, NextIsNear
  <2>6. \A s \in Schedules \ started, o \in Nat : Behind(s, o)' <=> Behind(s, o)
    BY <2>3 DEF Behind
  <2>7. \A s \in started, o \in Nat : Behind(s, o)' <=> o <= passed[s]
    <3> SUFFICES ASSUME NEW s \in started, NEW o \in Nat PROVE Behind(s, o)' <=> o <= passed[s]
      OBVIOUS
    <3>1. CASE s \in Repeating
      BY <1>10, <2>3, <2>4, <3>1 DEF Behind
    <3>2. CASE s \notin Repeating
      BY <1>10, <2>3, <2>4, <3>2 DEF Behind, RowsInv, NextIsNear
    <3>3. QED BY <3>1, <3>2
  <2>8. \A s \in started, o \in Nat : Behind(s, o) => o < next[s]
    BY <2>4 DEF Behind
  <2>9. \A r \in Runs : r \in new => /\ ScheduleOf(r) \in started /\ r[2] = next[ScheduleOf(r)]
                                     /\ r[2] <= passed[ScheduleOf(r)]
    BY <1>8, <2>4
  <2>10. RowsStand'
    <3> SUFFICES ASSUME NEW r \in Runs, sched'[ScheduleOf(r)] = "live", status'[r] # "none"
                 PROVE  /\ r[2] <= through'[r] /\ through'[r] <= passed'[ScheduleOf(r)]
                        /\ Behind(ScheduleOf(r), through[r])'
      BY DEF RowsStand
    <3>1. CASE r \in new
      <4>1. through'[r] = passed[ScheduleOf(r)] /\ passed[ScheduleOf(r)] \in Nat
        BY <1>10, <2>1, <3>1
      <4>2. Behind(ScheduleOf(r), through[r])'
        BY <1>10, <2>3, <2>4, <2>9, <3>1, <4>1 DEF Behind, RowsInv, NextIsNear
      <4>3. QED BY <1>10, <2>3, <2>9, <3>1, <4>1, <4>2
    <3>2. CASE r \notin new
      <4>1. /\ r[2] <= through[r] /\ through[r] <= passed[ScheduleOf(r)]
            /\ Behind(ScheduleOf(r), through[r]) /\ through'[r] = through[r]
        BY <2>1, <2>3, <3>2 DEF RowsInv, RowsStand
      <4>2. Behind(ScheduleOf(r), through[r])'
        BY <1>10, <2>2, <2>3, <2>4, <4>1 DEF Behind, RowsInv, NextIsNear
      <4>3. QED BY <2>3, <4>1, <4>2
    <3>3. QED BY <3>1, <3>2
  <2>11. \A r, q \in Runs : r \in new /\ q \notin new /\ ScheduleOf(q) = ScheduleOf(r)
                                /\ status[q] # "none" => through[q] < r[2]
    BY <1>3, <2>2, <2>8, <2>9 DEF RowsInv, RowsStand
  <2>12. RowsApart'
    <3> SUFFICES ASSUME NEW r \in Runs, NEW q \in Runs, sched'[ScheduleOf(r)] = "live",
                        ScheduleOf(q) = ScheduleOf(r), r # q, status'[r] # "none", status'[q] # "none"
                 PROVE  through'[r] < q[2] \/ through'[q] < r[2]
      BY DEF RowsApart
    <3>1. CASE r \in new /\ q \in new
      BY <2>9, <3>1, RunIs
    <3>2. CASE r \in new /\ q \notin new
      BY <2>1, <2>11, <3>2
    <3>3. CASE r \notin new /\ q \in new
      BY <2>1, <2>11, <3>3
    <3>4. CASE r \notin new /\ q \notin new
      BY <2>1, <2>3, <3>4 DEF RowsInv, RowsApart
    <3>5. QED BY <3>1, <3>2, <3>3, <3>4
  <2>13. BehindHasRow'
    <3> SUFFICES ASSUME NEW s \in Schedules, NEW o \in Occurrences, sched'[s] = "live", Behind(s, o)'
                 PROVE  \E r \in Runs : StandsFor(r, s, o)'
      BY DEF BehindHasRow
    <3>0. o \in Nat /\ o >= 1
      BY DEF Occurrences
    <3>1. CASE Behind(s, o)
      <4>1. PICK r \in Runs : StandsFor(r, s, o)
        BY <2>3, <3>1 DEF RowsInv, BehindHasRow
      <4>2. status[r] # "none" /\ r \notin new
        BY <1>6, <4>1 DEF StandsFor
      <4>3. QED BY <2>1, <4>1, <4>2 DEF StandsFor
    <3>2. CASE ~Behind(s, o)
      <4>1. s \in started /\ o <= passed[s] /\ next[s] <= o
        BY <1>10, <2>6, <2>7, <3>0, <3>2 DEF Behind
      <4>2. next[s] \in Occurrences /\ (s \in Repeating \/ next[s] = 1)
        BY <1>10, <2>4, <4>1, ScheduleAssumption DEF SchedulesTypeOK, Occurrences, RowsInv, NextIsNear
      <4>3. <<s, next[s]>> \in new /\ ScheduleOf(<<s, next[s]>>) = s /\ <<s, next[s]>>[2] = next[s]
        BY <1>9, <4>1, <4>2, RunsOf
      <4>4. <<s, next[s]>> \in Runs
        BY <1>8, <4>3
      <4>5. PICK r \in Runs : r = <<s, next[s]>>
        BY <4>4
      <4>6. status'[r] # "none" /\ through'[r] = passed[s] /\ r[2] = next[s] /\ ScheduleOf(r) = s
        BY <2>1, <4>3, <4>5
      <4>7. o \in r[2]..passed[s]
        BY <1>10, <3>0, <4>1, <4>6
      <4>8. StandsFor(r, s, o)'
        BY <4>6, <4>7 DEF StandsFor
      <4>9. QED BY <4>8
    <3>3. QED BY <3>1, <3>2
  <2>14. QED BY <2>5, <2>10, <2>12, <2>13 DEF RowsInv
<1>15. QueuedHasAttempt'
    BY <1>2, <1>5, <1>6, ScheduleAssumption DEF QueuedHasAttempt
<1>16. ClaimedIsLive'
    BY <1>2, <1>4, <1>5 DEF ClaimedIsLive
<1>17. EnabledIsLive'
    BY <1>2 DEF EnabledIsLive
<1>18. NoRowNoAttempt'
    BY <1>2, <1>5 DEF NoRowNoAttempt
<1>19. AbsentIsEmpty'
  <2> SUFFICES ASSUME NEW r \in Runs, sched'[ScheduleOf(r)] = "absent"
               PROVE  status'[r] = "none" /\ next'[ScheduleOf(r)] = 1
    BY DEF AbsentIsEmpty
  <2>1. sched[ScheduleOf(r)] = "absent" /\ ScheduleOf(r) \notin started
    BY <1>2, <1>3
  <2>2. r \notin C /\ r \notin new
    BY <1>4, <1>8, <2>1
  <2>3. status[r] = "none" /\ next[ScheduleOf(r)] = 1
    BY <2>1 DEF AbsentIsEmpty
  <2>4. QED BY <1>2, <1>5, <2>1, <2>2, <2>3
<1>20. QED BY <1>12, <1>13, <1>14, <1>15, <1>16, <1>17, <1>18, <1>19

\* mark_schedule_running keeps the invariant.
LEMMA StartKeeps ==
    ASSUME ScheduleInv, NEW t \in Tasks, Start(t)
    PROVE  ScheduleInv'
<1> USE RunParts, TaskParts DEF ScheduleInv, Start
<1>1. SchedulesTypeOK'
    BY DEF SchedulesTypeOK, Open
<1>2. AttemptsBounded' /\ QueuedHasAttempt'
    BY DEF AttemptsBounded, QueuedHasAttempt, SchedulesTypeOK
<1>3. ClaimedIsLive' /\ EnabledIsLive' /\ NoRowNoAttempt' /\ AbsentIsEmpty'
    BY DEF ClaimedIsLive, EnabledIsLive, NoRowNoAttempt, AbsentIsEmpty, SchedulesTypeOK
<1>4. RowsInv'
  <2>1. UNCHANGED <<sched, enabled, passed, next, through>>
    OBVIOUS
  <2>2. \A r \in Runs : status'[r] # "none" <=> status[r] # "none"
    BY DEF SchedulesTypeOK
  <2>3. QED BY <2>1, <2>2, RowsKeptStill
<1>5. QED BY <1>1, <1>2, <1>3, <1>4

\* complete_schedule keeps the invariant: a result is queued again only when
\* an attempt is left, and a tombstone goes with all its runs.
LEMMA CompleteKeeps ==
    ASSUME ScheduleInv, NEW t \in Tasks, NEW failed \in BOOLEAN, Complete(t, failed)
    PROVE  ScheduleInv'
<1> USE RunParts, TaskParts DEF ScheduleInv
<1> DEFINE r == RunOf(t)
           s == ScheduleOf(r)
<1>1. /\ r \in Runs /\ s \in Schedules
      /\ task' = [task EXCEPT ![t] = "ended"] /\ beating' = beating \ {t}
      /\ UNCHANGED <<enabled, passed, next, attempt, through>>
      /\ task[t] = "executing"
    BY DEF Complete, BeatsWithout
<1>2. leased' \subseteq Runs /\ available' \subseteq Runs
    BY DEF Complete, SchedulesTypeOK
<1>3. /\ sched' \in [Schedules -> {"absent", "live", "tombstone", "gone"}]
      /\ \A p \in Schedules : sched'[p] = sched[p] \/ (sched[p] = "tombstone" /\ sched'[p] = "gone")
    BY <1>1 DEF Complete, SchedulesTypeOK
<1>4. Outcome(r, failed) \in {"succeeded", "failed", "queued"}
      /\ (Outcome(r, failed) = "queued" => attempt[r] < MaxAttempts)
    BY DEF Outcome
<1>5. /\ status' \in [Runs -> Open \cup {"none", "succeeded", "failed"}]
      /\ \A q \in Runs : \/ status'[q] = status[q]
                         \/ status'[q] = "none" /\ sched'[ScheduleOf(q)] = "gone"
                         \/ q = r /\ status[q] # "none" /\ status'[q] = Outcome(r, failed)
    BY <1>1, <1>4 DEF Complete, Cascaded, SchedulesTypeOK, Open
<1>6. SchedulesTypeOK'
    BY <1>1, <1>2, <1>3, <1>5 DEF SchedulesTypeOK
<1>7. AttemptsBounded'
    BY <1>1 DEF AttemptsBounded, SchedulesTypeOK
<1>8. RowsInv'
  <2>1. \A p \in Schedules : sched'[p] = "live" => sched[p] = "live"
    BY <1>3
  <2>2. \A q \in Runs : sched'[ScheduleOf(q)] = "live" => (status'[q] # "none" <=> status[q] # "none")
    BY <1>4, <1>5
  <2>3. QED BY <1>1, <2>1, <2>2, RowsKeptStill
<1>9. QueuedHasAttempt' /\ ClaimedIsLive'
    BY <1>1, <1>3, <1>4, <1>5 DEF QueuedHasAttempt, ClaimedIsLive
<1>10. EnabledIsLive' /\ NoRowNoAttempt' /\ AbsentIsEmpty'
    BY <1>1, <1>3, <1>4, <1>5
    DEF EnabledIsLive, NoRowNoAttempt, AbsentIsEmpty, SchedulesTypeOK
<1>11. QED BY <1>6, <1>7, <1>8, <1>9, <1>10

\* The heartbeat, time and failures change no row but a lease or a flag of
\* availability, and end tasks.
LEMMA OthersKeep ==
    ASSUME ScheduleInv,
           \/ \E s \in Schedules : FallDue(s)
           \/ \E t \in Tasks : Renew(t) \/ HeartbeatFails(t)
           \/ \E r \in Runs : BackOff(r) \/ Lapse(r) \/ Suspend(r)
           \/ Crash
           \/ UNCHANGED vars
    PROVE  ScheduleInv'
<1> USE DEF ScheduleInv
<1>1. /\ UNCHANGED <<sched, enabled, next, status, attempt, through>>
      /\ leased' \subseteq Runs /\ available' \subseteq Runs
    BY TaskParts DEF FallDue, Renew, HeartbeatFails, BackOff, Lapse, Suspend, Crash, vars,
                     taskVars, storeVars, SchedulesTypeOK
<1>2. /\ passed' \in [Schedules -> 0..MaxOccurrences]
      /\ \A s \in Schedules : passed[s] <= passed'[s] /\ (s \notin Repeating => passed'[s] <= 1)
  <2>1. CASE \E s \in Schedules : FallDue(s)
    BY <2>1, ScheduleAssumption DEF FallDue, SchedulesTypeOK, RowsInv, NextIsNear
  <2>2. CASE passed' = passed
    BY <2>2, ScheduleAssumption DEF SchedulesTypeOK, RowsInv, NextIsNear
  <2>3. QED BY <2>1, <2>2 DEF Renew, HeartbeatFails, BackOff, Lapse, Suspend, Crash, vars,
                              taskVars, storeVars
<1>3. /\ task' \in [Tasks -> {"none", "claimed", "executing", "ended"}]
      /\ \A t \in Tasks : task[t] = "none" <=> task'[t] = "none"
      /\ beating' \subseteq {t \in Tasks : task'[t] = "executing"}
    BY DEF FallDue, Renew, HeartbeatFails, BackOff, Lapse, Suspend, Crash, vars,
           taskVars, storeVars, SchedulesTypeOK
<1>4. SchedulesTypeOK'
    BY <1>1, <1>2, <1>3 DEF SchedulesTypeOK
<1>5. AttemptsBounded'
    BY <1>1, <1>3 DEF AttemptsBounded
<1>6. RowsInv'
  <2>1. passed' \in [Schedules -> Nat]
    BY <1>2, ScheduleAssumption
  <2>2. QED BY <1>1, <1>2, <2>1, RowsKept
<1>7. QED BY <1>1, <1>4, <1>5, <1>6
    DEF QueuedHasAttempt, ClaimedIsLive, EnabledIsLive, NoRowNoAttempt, AbsentIsEmpty

\* Every step keeps the invariant.
LEMMA ScheduleStep == ScheduleInv /\ [Next]_vars => ScheduleInv'
<1> SUFFICES ASSUME ScheduleInv, [Next]_vars PROVE ScheduleInv'
    OBVIOUS
<1>1. CASE \E s \in Schedules : Create(s)
    BY <1>1, CreateKeeps
<1>2. CASE \E s \in Schedules : Delete(s)
    BY <1>2, DeleteKeeps
<1>3. CASE ClaimDue
    BY <1>3, ClaimKeeps
<1>4. CASE \E t \in Tasks : Start(t)
    BY <1>4, StartKeeps
<1>5. CASE \E t \in Tasks, failed \in BOOLEAN : Complete(t, failed)
    BY <1>5, CompleteKeeps
<1>6. QED BY <1>1, <1>2, <1>3, <1>4, <1>5, OthersKeep DEF Next
----------------------------------------------------------------------------
\* The inductive invariant of the schedule tables and tasks.
THEOREM ScheduleInvariant == Spec => []ScheduleInv
<1>1. Init => ScheduleInv
    BY ScheduleInit
<1>2. ScheduleInv /\ [Next]_vars => ScheduleInv'
    BY ScheduleStep
<1>3. QED BY <1>1, <1>2, PTL DEF Spec

\* The tables and tasks are well typed (workspaces.py, _run_work_schedule).
THEOREM SchedulesTyped == Spec => []SchedulesTypeOK
<1>1. ScheduleInv => SchedulesTypeOK
    BY DEF ScheduleInv
<1>2. QED BY <1>1, ScheduleInvariant, PTL

\* No run is started more often than _WORK_SCHEDULE_MAX_ATTEMPTS.
THEOREM StartsAreBounded == Spec => []AttemptsBounded
<1>1. ScheduleInv => AttemptsBounded
    BY DEF ScheduleInv
<1>2. QED BY <1>1, ScheduleInvariant, PTL

\* claim_due_schedules leaves an occurrence behind only after it came due, and with
\* exactly one run to stand for it: what rows stand for does not meet.
THEOREM OccurrencesAreKept == Spec => []NoOccurrenceLost
<1>1. ScheduleInv => NoOccurrenceLost
  <2> SUFFICES ASSUME ScheduleInv, NEW s \in Schedules, NEW o \in Occurrences, sched[s] = "live"
               PROVE  LET standing == {r \in Runs : StandsFor(r, s, o)} IN
                      IF Behind(s, o) THEN o <= passed[s] /\ \E r \in Runs : standing = {r}
                      ELSE standing = {}
    BY DEF NoOccurrenceLost
  <2> USE RunParts, ScheduleAssumption DEF ScheduleInv, RowsInv
  <2>1. /\ o \in Nat /\ next[s] \in Nat /\ passed[s] \in Nat
        /\ \A r \in Runs : r[2] \in Nat /\ through[r] \in Nat
    BY DEF SchedulesTypeOK, Occurrences
  <2>2. \A r \in Runs : StandsFor(r, s, o) => Behind(s, o)
    BY <2>1 DEF StandsFor, RowsStand, Behind
  <2>3. \A r, q \in Runs : StandsFor(r, s, o) /\ StandsFor(q, s, o) => r = q
    BY <2>1 DEF StandsFor, RowsApart
  <2>4. CASE Behind(s, o)
    <3>1. PICK r \in Runs : StandsFor(r, s, o)
      BY <2>4 DEF BehindHasRow
    <3>2. o <= passed[s]
      BY <2>1, <3>1 DEF StandsFor, RowsStand
    <3>3. {q \in Runs : StandsFor(q, s, o)} = {r}
      BY <2>3, <3>1
    <3>4. QED BY <2>4, <3>2, <3>3
  <2>5. CASE ~Behind(s, o)
    BY <2>2, <2>5
  <2>6. QED BY <2>4, <2>5
<1>2. QED BY <1>1, ScheduleInvariant, PTL

\* The table is typed, no run starts too often and no occurrence is lost.
THEOREM SchedulesAreSafe == Spec => []SchedulesSafe
<1>1. SchedulesTypeOK /\ AttemptsBounded /\ NoOccurrenceLost => SchedulesSafe
    BY DEF SchedulesSafe
<1>2. QED BY <1>1, SchedulesTyped, StartsAreBounded, OccurrencesAreKept, PTL

\* No turn of a deleted schedule begins: only mark_schedule_running starts one,
\* on a claimed run, and what is claimed belongs to a live schedule.
THEOREM DeletedSchedulesStartNothing == Spec => DeletedNeverStarts
<1> DEFINE Quiet == \A t \in Tasks : task[t] # "executing" /\ task'[t] = "executing"
                                        => sched'[ScheduleOf(RunOf(t))] = "live"
<1>1. ScheduleInv /\ [Next]_vars => [Quiet]_vars
  <2> SUFFICES ASSUME ScheduleInv, Next,
                      NEW t \in Tasks, task[t] # "executing", task'[t] = "executing"
               PROVE  sched'[ScheduleOf(RunOf(t))] = "live"
    BY DEF vars
  <2>1. CASE \E u \in Tasks : Start(u)
    BY <2>1, TaskParts DEF Start, ScheduleInv, ClaimedIsLive, SchedulesTypeOK
  <2>2. CASE ClaimDue
    BY <2>2 DEF ClaimDue
  <2>3. CASE \E u \in Tasks, failed \in BOOLEAN : Complete(u, failed)
    BY <2>3 DEF Complete, ScheduleInv, SchedulesTypeOK
  <2>4. CASE \E s \in Schedules : Create(s) \/ Delete(s) \/ FallDue(s)
    BY <2>4 DEF Create, Delete, FallDue, taskVars
  <2>5. CASE \/ \E u \in Tasks : Renew(u) \/ HeartbeatFails(u)
             \/ \E r \in Runs : BackOff(r) \/ Lapse(r) \/ Suspend(r)
             \/ Crash
    BY <2>5 DEF Renew, HeartbeatFails, BackOff, Lapse, Suspend, Crash, taskVars, storeVars
  <2>6. QED BY <2>1, <2>2, <2>3, <2>4, <2>5 DEF Next
<1>2. QED BY <1>1, ScheduleInvariant, PTL DEF Spec, DeletedNeverStarts
----------------------------------------------------------------------------
(* While no lease has passed under a living task. *)

\* The row of an executing run is running and leased, its attempt is the task's,
\* and the task's heartbeat is alive
ExecutingHolds ==
    \A t \in Tasks : task[t] = "executing" =>
        /\ status[RunOf(t)] = "running" /\ attempt[RunOf(t)] = t[2]
        /\ RunOf(t) \in leased /\ t \in beating

\* A claim is still its task's, unless the schedule was deleted in between
ClaimedHolds ==
    \A t \in Tasks : task[t] = "claimed" =>
        \/ sched[ScheduleOf(RunOf(t))] \in {"tombstone", "gone"}
        \/ /\ status[RunOf(t)] = "claimed" /\ attempt[RunOf(t)] = t[2]
           /\ RunOf(t) \in leased

\* A schedule has at most one open run
OneOpen ==
    \A r, q \in Runs : /\ status[r] \in Open /\ status[q] \in Open
                       /\ ScheduleOf(r) = ScheduleOf(q)
                       => r = q

Runners == ExecutingHolds /\ ClaimedHolds /\ OneOpen

RunnerInv ==
    /\ ScheduleInv
    /\ used \in [crashes : Nat, stalls : Nat]
    /\ Undisturbed => Runners

\* Nothing runs at first.
LEMMA RunnerInit == Init => RunnerInv
    BY ScheduleInit, RunParts, TaskParts
    DEF Init, RunnerInv, Runners, ExecutingHolds, ClaimedHolds, OneOpen, Open

\* The page creates a schedule, which has no claims yet; time passes.
LEMMA QuietStepsKeepRunners ==
    ASSUME RunnerInv, Runners,
           \/ \E s \in Schedules : Create(s) \/ FallDue(s)
           \/ \E r \in Runs : BackOff(r)
           \/ UNCHANGED vars
    PROVE  Runners'
<1>1. /\ UNCHANGED <<status, attempt, leased, task, beating>>
      /\ \A s \in Schedules : sched[s] # "absent" => sched'[s] = sched[s]
    BY DEF Create, FallDue, BackOff, vars, storeVars, taskVars, RunnerInv, ScheduleInv,
           SchedulesTypeOK
<1>2. ExecutingHolds' /\ OneOpen'
    BY <1>1 DEF Runners, ExecutingHolds, OneOpen
<1>3. ClaimedHolds'
    BY <1>1, TaskParts, RunParts DEF Runners, ClaimedHolds
<1>4. QED BY <1>2, <1>3 DEF Runners

\* delete_schedule takes the row of a claim only with the claim's schedule, and
\* leaves the row of a run that is executing.
LEMMA DeleteKeepsRunners ==
    ASSUME RunnerInv, Runners, NEW s \in Schedules, Delete(s)
    PROVE  Runners'
<1> USE RunParts, TaskParts
<1>1. /\ UNCHANGED <<attempt, leased, task, beating>>
      /\ sched'[s] \in {"tombstone", "gone"}
      /\ \A p \in Schedules \ {s} : sched'[p] = sched[p]
    BY DEF Delete, taskVars, RunnerInv, ScheduleInv, SchedulesTypeOK
<1>2. /\ \A r \in Runs : ScheduleOf(r) # s => status'[r] = status[r]
      /\ \A r \in Runs : status[r] = "running" => status'[r] = "running"
      /\ \A r \in Runs : status'[r] \in {status[r], "none"}
    BY DEF Delete, Cascaded, RunnerInv, ScheduleInv, SchedulesTypeOK
<1>3. ExecutingHolds'
    BY <1>1, <1>2 DEF Runners, ExecutingHolds
<1>4. ClaimedHolds'
    BY <1>1, <1>2 DEF Runners, ClaimedHolds
<1>5. OneOpen'
    BY <1>2 DEF Runners, OneOpen, Open
<1>6. QED BY <1>3, <1>4, <1>5 DEF Runners

\* mark_schedule_running takes the run of a claim, and nothing else holds it.
LEMMA StartKeepsRunners ==
    ASSUME RunnerInv, Runners, NEW t \in Tasks, Start(t)
    PROVE  Runners'
<1> USE RunParts, TaskParts DEF RunnerInv, ScheduleInv
<1>1. CASE status[RunOf(t)] = "claimed"
  <2>1. /\ sched[ScheduleOf(RunOf(t))] = "live" /\ attempt[RunOf(t)] = t[2]
        /\ RunOf(t) \in leased
    BY <1>1 DEF Start, ClaimedIsLive, Runners, ClaimedHolds
  <2>2. /\ UNCHANGED <<sched, attempt, leased>>
        /\ status' = [status EXCEPT ![RunOf(t)] = "running"]
        /\ task' = [task EXCEPT ![t] = "executing"]
        /\ beating' = beating \cup {t}
    BY <1>1, <2>1 DEF Start
  <2>3. \A u \in Tasks : RunOf(u) = RunOf(t) /\ u[2] = t[2] => u = t
    BY DEF Tasks, RunOf
  <2>4. ExecutingHolds'
    BY <1>1, <2>1, <2>2 DEF Runners, ExecutingHolds, SchedulesTypeOK
  <2>5. ClaimedHolds'
    BY <1>1, <2>1, <2>2, <2>3 DEF Runners, ClaimedHolds, SchedulesTypeOK
  <2>6. OneOpen'
    BY <1>1, <2>2 DEF Runners, OneOpen, Open, SchedulesTypeOK
  <2>7. QED BY <2>4, <2>5, <2>6 DEF Runners
<1>2. CASE status[RunOf(t)] # "claimed"
  <2>1. /\ UNCHANGED <<sched, attempt, leased, status, beating>>
        /\ task' = [task EXCEPT ![t] = "ended"]
    BY <1>2 DEF Start
  <2>2. QED BY <2>1 DEF Runners, ExecutingHolds, ClaimedHolds, OneOpen, SchedulesTypeOK
<1>3. QED BY <1>1, <1>2

\* complete_schedule frees the run of its own task: no other task holds it, and
\* no other run of the schedule goes with a tombstone.
LEMMA CompleteKeepsRunners ==
    ASSUME RunnerInv, Runners, NEW t \in Tasks, NEW failed \in BOOLEAN, Complete(t, failed)
    PROVE  Runners'
<1> USE RunParts, TaskParts DEF RunnerInv, ScheduleInv
<1>1. PICK r \in Runs : r = RunOf(t)
    OBVIOUS
<1>2. PICK s \in Schedules : s = ScheduleOf(r)
    OBVIOUS
<1>3. /\ task[t] = "executing" /\ status[r] = "running" /\ attempt[r] = t[2]
      /\ \A q \in Runs : status[q] \in Open /\ ScheduleOf(q) = s => q = r
    BY <1>1, <1>2 DEF Complete, Runners, ExecutingHolds, OneOpen, Open
<1>4. /\ task' = [task EXCEPT ![t] = "ended"] /\ beating' = beating \ {t}
      /\ leased' = leased \ {r} /\ UNCHANGED attempt
      /\ sched' = IF sched[s] = "tombstone" THEN [sched EXCEPT ![s] = "gone"] ELSE sched
    BY <1>1, <1>2, <1>3 DEF Complete, BeatsWithout
<1>5. /\ \A q \in Runs : ScheduleOf(q) # s => status'[q] = status[q]
      /\ \A q \in Runs : status'[q] \in Open => status[q] \in Open
      /\ status'[r] # "claimed"
      /\ \A q \in Runs : q # r => status'[q] \in {status[q], "none"}
    BY <1>1, <1>2, <1>3 DEF Complete, Outcome, Cascaded, Open, SchedulesTypeOK
<1>6. \A u \in Tasks : RunOf(u) = r /\ task[u] = "executing" => u = t
    BY <1>1, <1>3 DEF Runners, ExecutingHolds, Tasks, RunOf
<1>7. ExecutingHolds'
  <2> SUFFICES ASSUME NEW u \in Tasks, task'[u] = "executing"
               PROVE  /\ status'[RunOf(u)] = "running" /\ attempt'[RunOf(u)] = u[2]
                      /\ RunOf(u) \in leased' /\ u \in beating'
    BY DEF ExecutingHolds
  <2>1. u # t /\ task[u] = "executing"
    BY <1>4 DEF SchedulesTypeOK
  <2>2. /\ status[RunOf(u)] = "running" /\ attempt[RunOf(u)] = u[2]
        /\ RunOf(u) \in leased /\ u \in beating
    BY <2>1 DEF Runners, ExecutingHolds
  <2>3. RunOf(u) # r
    BY <1>6, <2>1
  <2>4. ScheduleOf(RunOf(u)) # s
    BY <1>3, <2>2, <2>3 DEF Open
  <2>5. QED BY <1>4, <1>5, <2>1, <2>2, <2>3, <2>4
<1>8. ClaimedHolds'
  <2> SUFFICES ASSUME NEW u \in Tasks, task'[u] = "claimed",
                      sched'[ScheduleOf(RunOf(u))] \notin {"tombstone", "gone"}
               PROVE  status'[RunOf(u)] = "claimed" /\ attempt'[RunOf(u)] = u[2]
                      /\ RunOf(u) \in leased'
    BY DEF ClaimedHolds
  <2>1. u # t /\ task[u] = "claimed"
    BY <1>4 DEF SchedulesTypeOK
  <2>2. sched[ScheduleOf(RunOf(u))] \notin {"tombstone", "gone"}
    BY <1>4 DEF SchedulesTypeOK
  <2>3. status[RunOf(u)] = "claimed" /\ attempt[RunOf(u)] = u[2] /\ RunOf(u) \in leased
    BY <2>1, <2>2 DEF Runners, ClaimedHolds
  <2>4. RunOf(u) # r
    BY <1>3, <2>3
  <2>5. ScheduleOf(RunOf(u)) # s
    BY <1>3, <2>3, <2>4 DEF Open
  <2>6. QED BY <1>4, <1>5, <2>3, <2>4, <2>5
<1>9. OneOpen'
    BY <1>5 DEF Runners, OneOpen
<1>10. QED BY <1>7, <1>8, <1>9 DEF Runners

\* A heartbeat and a lease that nobody minds leave claimed and executing runs
\* leased; after a crash nothing runs.
LEMMA LeaseStepsKeepRunners ==
    ASSUME RunnerInv, Runners,
           \/ \E t \in Tasks : Renew(t)
           \/ \E r \in Runs : Lapse(r)
           \/ Crash
    PROVE  Runners'
<1> USE RunParts, TaskParts DEF RunnerInv, ScheduleInv
<1>1. ASSUME NEW t \in Tasks, Renew(t) PROVE Runners'
  <2>1. status[RunOf(t)] \in Held
    BY <1>1 DEF Renew, Runners, ExecutingHolds, SchedulesTypeOK, Held
  <2>2. QED BY <1>1, <2>1 DEF Renew, Runners, ExecutingHolds, ClaimedHolds, OneOpen
<1>2. ASSUME NEW r \in Runs, Lapse(r) PROVE Runners'
    BY <1>2 DEF Lapse, Minded, taskVars, Runners, ExecutingHolds, ClaimedHolds, OneOpen
<1>3. ASSUME Crash PROVE Runners'
    BY <1>3 DEF Crash, storeVars, Runners, ExecutingHolds, ClaimedHolds, OneOpen, SchedulesTypeOK
<1>4. QED BY <1>1, <1>2, <1>3

\* claim_due_schedules claims a run that nobody holds: what runs is leased, so the
\* sweep leaves it, and a schedule with an open run gets no new occurrence.
LEMMA ClaimKeepsRunners ==
    ASSUME RunnerInv, Runners, ClaimDue
    PROVE  Runners'
<1>1. PICK D \in Limited(DueNow) :
        LET started == {s \in D : ~HasOpen(s)}
            new     == {r \in Runs : ScheduleOf(r) \in started /\ r[2] = next[ScheduleOf(r)]}
        IN  \E C \in Limited(Claimable(new)) :
            /\ status' = [r \in Runs |-> IF r \in C THEN "claimed"
                                         ELSE IF r \in new THEN "queued" ELSE Swept(r)]
            /\ attempt' = [r \in Runs |-> IF r \in C THEN attempt[r] + 1 ELSE attempt[r]]
            /\ leased' = (leased \ Expired) \cup C
            /\ task' = [t \in Tasks |-> IF RunOf(t) \in C /\ t[2] = attempt[RunOf(t)] + 1
                                        THEN "claimed" ELSE task[t]]
            /\ UNCHANGED <<sched, beating>>
    BY DEF ClaimDue
<1> USE RunParts, TaskParts DEF RunnerInv, ScheduleInv
<1> DEFINE started == {s \in D : ~HasOpen(s)}
           new     == {r \in Runs : ScheduleOf(r) \in started /\ r[2] = next[ScheduleOf(r)]}
<1>2. PICK C \in Limited(Claimable(new)) :
            /\ status' = [r \in Runs |-> IF r \in C THEN "claimed"
                                         ELSE IF r \in new THEN "queued" ELSE Swept(r)]
            /\ attempt' = [r \in Runs |-> IF r \in C THEN attempt[r] + 1 ELSE attempt[r]]
            /\ leased' = (leased \ Expired) \cup C
            /\ task' = [t \in Tasks |-> IF RunOf(t) \in C /\ t[2] = attempt[RunOf(t)] + 1
                                        THEN "claimed" ELSE task[t]]
            /\ UNCHANGED <<sched, beating>>
    BY <1>1
<1>3. /\ C \subseteq Runs
      /\ \A r \in C : r \in new \/ Swept(r) = "queued"
    BY DEF Limited, Claimable
<1>4. \A r \in new : /\ status[r] = "none" /\ r[2] = next[ScheduleOf(r)]
                     /\ ~HasOpen(ScheduleOf(r))
    BY NewHasNoRow DEF Limited, DueNow, SchedulesTypeOK
<1> HIDE DEF started, new
<1>5. \A r \in Runs : /\ r \in leased => Swept(r) = status[r] /\ r \notin Expired
                      /\ Swept(r) \in Open => status[r] \in Open
                      /\ Swept(r) = "claimed" => status[r] = "claimed"
    BY DEF Swept, Expired, SchedulesTypeOK, Open, Held
<1>6. \A r \in Runs : r \in leased /\ status[r] \in Held => r \notin C /\ r \notin new
    BY <1>3, <1>4, <1>5 DEF Held
<1>7. ExecutingHolds'
  <2> SUFFICES ASSUME NEW t \in Tasks, task'[t] = "executing"
               PROVE  /\ status'[RunOf(t)] = "running" /\ attempt'[RunOf(t)] = t[2]
                      /\ RunOf(t) \in leased' /\ t \in beating'
    BY DEF ExecutingHolds
  <2>1. task[t] = "executing"
    BY <1>2
  <2>2. /\ status[RunOf(t)] = "running" /\ attempt[RunOf(t)] = t[2]
        /\ RunOf(t) \in leased /\ t \in beating
    BY <2>1 DEF Runners, ExecutingHolds
  <2>3. QED BY <1>2, <1>5, <1>6, <2>2 DEF Held
<1>8. ClaimedHolds'
  <2> SUFFICES ASSUME NEW t \in Tasks, task'[t] = "claimed",
                      sched[ScheduleOf(RunOf(t))] \notin {"tombstone", "gone"}
               PROVE  status'[RunOf(t)] = "claimed" /\ attempt'[RunOf(t)] = t[2]
                      /\ RunOf(t) \in leased'
    BY <1>2 DEF ClaimedHolds
  <2>1. CASE RunOf(t) \in C /\ t[2] = attempt[RunOf(t)] + 1
    BY <1>2, <2>1
  <2>2. CASE task[t] = "claimed"
    <3>1. status[RunOf(t)] = "claimed" /\ attempt[RunOf(t)] = t[2] /\ RunOf(t) \in leased
      BY <2>2 DEF Runners, ClaimedHolds
    <3>2. QED BY <1>2, <1>5, <1>6, <3>1 DEF Held
  <2>3. QED BY <1>2, <2>1, <2>2
<1>9. OneOpen'
  <2> SUFFICES ASSUME NEW r \in Runs, NEW q \in Runs, status'[r] \in Open, status'[q] \in Open,
                      ScheduleOf(r) = ScheduleOf(q)
               PROVE  r = q
    BY DEF OneOpen
  <2>1. \A p \in Runs : status'[p] \in Open => p \in new \/ Swept(p) \in Open
    BY <1>2, <1>3 DEF Open
  <2>2. \A p \in Runs : p \in new /\ ScheduleOf(p) = ScheduleOf(r) => ~HasOpen(ScheduleOf(r))
    BY <1>4
  <2>3. CASE r \in new \/ q \in new
    <3>1. ~HasOpen(ScheduleOf(r))
      BY <2>2, <2>3
    <3>2. r \in new /\ q \in new
      BY <2>1, <3>1 DEF HasOpen
    <3>3. r[2] = q[2] /\ r[1] = q[1]
      BY <1>4, <3>2 DEF ScheduleOf
    <3>4. QED BY <3>3 DEF Runs
  <2>4. CASE r \notin new /\ q \notin new
    BY <1>5, <2>1, <2>4 DEF Runners, OneOpen
  <2>5. QED BY <2>3, <2>4
<1>10. QED BY <1>7, <1>8, <1>9 DEF Runners

\* The sweep leaves a run that succeeded, and no claim finds it: the next
\* occurrence of a schedule has no row yet.
LEMMA ClaimLeavesSettled ==
    ASSUME ScheduleInv, ClaimDue
    PROVE  \A r \in Runs : status[r] = "succeeded" => status'[r] = "succeeded"
<1> USE RunParts DEF ScheduleInv
<1>1. PICK D \in Limited(DueNow) :
        LET started == {s \in D : ~HasOpen(s)}
            new     == {r \in Runs : ScheduleOf(r) \in started /\ r[2] = next[ScheduleOf(r)]}
        IN  \E C \in Limited(Claimable(new)) :
            status' = [r \in Runs |-> IF r \in C THEN "claimed"
                                      ELSE IF r \in new THEN "queued" ELSE Swept(r)]
    BY DEF ClaimDue
<1> DEFINE started == {s \in D : ~HasOpen(s)}
           new     == {r \in Runs : ScheduleOf(r) \in started /\ r[2] = next[ScheduleOf(r)]}
<1>2. PICK C \in Limited(Claimable(new)) :
            status' = [r \in Runs |-> IF r \in C THEN "claimed"
                                      ELSE IF r \in new THEN "queued" ELSE Swept(r)]
    BY <1>1
<1>3. \A r \in new : status[r] = "none"
    BY NewHasNoRow DEF Limited, DueNow, SchedulesTypeOK
<1>4. \A r \in C : r \in new \/ Swept(r) = "queued"
    BY DEF Limited, Claimable
<1>5. \A r \in Runs : status[r] = "succeeded" => Swept(r) = "succeeded"
    BY DEF Swept, Expired, Held
<1> HIDE DEF started, new
<1>6. QED BY <1>2, <1>3, <1>4, <1>5

\* Stalls are only counted up.
LEMMA StallsAreKept ==
    ASSUME used \in [crashes : Nat, stalls : Nat], [Next]_vars
    PROVE  used' \in [crashes : Nat, stalls : Nat] /\ (used'.stalls = 0 => used' = used \/ Crash)
<1>1. ASSUME \/ \E t \in Tasks : HeartbeatFails(t)
             \/ \E r \in Runs : Suspend(r)
      PROVE  used' \in [crashes : Nat, stalls : Nat] /\ used'.stalls # 0
    BY <1>1 DEF HeartbeatFails, Suspend
<1>2. ASSUME Crash PROVE used' \in [crashes : Nat, stalls : Nat]
    BY <1>2 DEF Crash
<1>3. \/ used' = used
      \/ Crash
      \/ \E t \in Tasks : HeartbeatFails(t)
      \/ \E r \in Runs : Suspend(r)
    BY DEF Next, Create, Delete, FallDue, ClaimDue, Start, Renew, Complete, BackOff, Lapse, vars
<1>4. QED BY <1>1, <1>2, <1>3

\* Every step keeps the runners' invariant.
LEMMA RunnerStep == RunnerInv /\ [Next]_vars => RunnerInv'
<1> SUFFICES ASSUME RunnerInv, [Next]_vars PROVE RunnerInv'
    OBVIOUS
<1>1. ScheduleInv' /\ used' \in [crashes : Nat, stalls : Nat]
    BY ScheduleStep, StallsAreKept DEF RunnerInv
<1>2. ASSUME Undisturbed' PROVE Runners'
  <2>1. Undisturbed /\ (used' = used \/ Crash)
    <3>1. used'.stalls = 0 /\ (used' = used \/ Crash)
      BY <1>2, StallsAreKept DEF RunnerInv, Undisturbed
    <3>2. Crash => used'.stalls = used.stalls
      BY DEF Crash, RunnerInv
    <3>3. QED BY <3>1, <3>2 DEF Undisturbed
  <2>2. Runners
    BY <2>1 DEF RunnerInv
  <2>3. CASE \E t \in Tasks : HeartbeatFails(t)
    BY <2>1, <2>3 DEF HeartbeatFails, RunnerInv, Crash, storeVars
  <2>4. CASE \E r \in Runs : Suspend(r)
    BY <2>1, <2>4 DEF Suspend, RunnerInv, Crash, storeVars
  <2>5. CASE \E s \in Schedules : Delete(s)
    BY <2>2, <2>5, DeleteKeepsRunners
  <2>6. CASE ClaimDue
    BY <2>2, <2>6, ClaimKeepsRunners
  <2>7. CASE \E t \in Tasks : Start(t)
    BY <2>2, <2>7, StartKeepsRunners
  <2>8. CASE \E t \in Tasks, failed \in BOOLEAN : Complete(t, failed)
    BY <2>2, <2>8, CompleteKeepsRunners
  <2>9. CASE \/ \E t \in Tasks : Renew(t)
             \/ \E r \in Runs : Lapse(r)
             \/ Crash
    BY <2>2, <2>9, LeaseStepsKeepRunners
  <2>10. CASE \/ \E s \in Schedules : Create(s) \/ FallDue(s)
              \/ \E r \in Runs : BackOff(r)
              \/ UNCHANGED vars
    BY <2>2, <2>10, QuietStepsKeepRunners
  <2>11. QED BY <2>3, <2>4, <2>5, <2>6, <2>7, <2>8, <2>9, <2>10 DEF Next
<1>3. QED BY <1>1, <1>2 DEF RunnerInv

\* The inductive invariant of the tasks that run schedules.
THEOREM RunnerInvariant == Spec => []RunnerInv
<1>1. Init => RunnerInv
    BY RunnerInit
<1>2. RunnerInv /\ [Next]_vars => RunnerInv'
    BY RunnerStep
<1>3. QED BY <1>1, <1>2, PTL DEF Spec

\* As long as no lease passes under a living task, two turns of a schedule never
\* overlap and the row of an executing run stays (claim_due_schedules, delete_schedule).
THEOREM RunnersAreSafe == Spec => []RunnersSafe
<1>1. RunnerInv => RunnersSafe
  <2> SUFFICES ASSUME RunnerInv, Undisturbed PROVE NoOverlap /\ (\A t \in Tasks :
                      task[t] = "executing" => status[RunOf(t)] = "running")
    BY DEF RunnersSafe, LeasesExclude, RunnerKeepsRow
  <2>1. \A t \in Tasks : task[t] = "executing"
            => status[RunOf(t)] = "running" /\ attempt[RunOf(t)] = t[2]
    BY DEF RunnerInv, Runners, ExecutingHolds
  <2>2. ASSUME NEW t \in Tasks, NEW u \in Tasks, task[t] = "executing", task[u] = "executing",
               ScheduleOf(RunOf(t)) = ScheduleOf(RunOf(u))
        PROVE  t = u
    <3>1. RunOf(t) = RunOf(u)
      BY <2>1, <2>2, TaskParts DEF RunnerInv, Runners, OneOpen, Open
    <3>2. t[1] = u[1] /\ t[2] = u[2]
      BY <2>1, <2>2, <3>1 DEF RunOf
    <3>3. QED BY <3>2 DEF Tasks
  <2>3. QED BY <2>1, <2>2 DEF NoOverlap
<1>2. QED BY <1>1, RunnerInvariant, PTL

\* As long as no lease passes under a living task, no step takes up a run that
\* succeeded: the sweep leaves it, no claim finds it, and a task completes only the
\* run that it holds (complete_schedule writes whatever the status was).
THEOREM SuccessesAreFinal == Spec => SuccessIsFinal
<1> DEFINE Final == Undisturbed => \A r \in Runs : status[r] = "succeeded"
                                        => status'[r] \in {"succeeded", "none"}
<1>1. RunnerInv /\ [Next]_vars => [Final]_vars
  <2> SUFFICES ASSUME RunnerInv, Next, Undisturbed, NEW r \in Runs, status[r] = "succeeded"
               PROVE  status'[r] \in {"succeeded", "none"}
    BY DEF vars
  <2> USE RunParts, TaskParts DEF RunnerInv, ScheduleInv
  <2>1. CASE ClaimDue
    BY <2>1, ClaimLeavesSettled
  <2>2. CASE \E t \in Tasks, failed \in BOOLEAN : Complete(t, failed)
    <3>1. PICK t \in Tasks, failed \in BOOLEAN : Complete(t, failed)
      BY <2>2
    <3>2. RunOf(t) # r
      BY <3>1 DEF Complete, Runners, ExecutingHolds
    <3>3. QED BY <3>1, <3>2 DEF Complete, Cascaded, SchedulesTypeOK
  <2>3. CASE \E t \in Tasks : Start(t)
    BY <2>3 DEF Start, SchedulesTypeOK
  <2>4. CASE \E s \in Schedules : Delete(s)
    BY <2>4 DEF Delete, Cascaded, SchedulesTypeOK
  <2>5. CASE \/ \E s \in Schedules : Create(s) \/ FallDue(s)
             \/ \E t \in Tasks : Renew(t) \/ HeartbeatFails(t)
             \/ \E q \in Runs : BackOff(q) \/ Lapse(q) \/ Suspend(q)
             \/ Crash
    BY <2>5 DEF Create, FallDue, Renew, HeartbeatFails, BackOff, Lapse, Suspend, Crash, storeVars
  <2>6. QED BY <2>1, <2>2, <2>3, <2>4, <2>5 DEF Next
<1>2. QED BY <1>1, RunnerInvariant, PTL DEF Spec, SuccessIsFinal

\* Both together: what the run of the background loops checks of the schedules.
THEOREM WorkIsSafe == Spec => []WorkSafe
<1>1. SchedulesSafe /\ RunnersSafe => WorkSafe
    BY DEF WorkSafe
<1>2. QED BY <1>1, SchedulesAreSafe, RunnersAreSafe, PTL
----------------------------------------------------------------------------
ByteRun(q, u) ==
    /\ u \in [0..Len(q) -> Nat]
    /\ u[0] = 0
    /\ \A i \in 1..Len(q) : u[i] = u[i - 1] + SizeOf[q[i].by]

(* What is in the queue is a frame of some sender, and takes room. *)
LEMMA FrameParts ==
    ASSUME NEW q \in Seq(Framed), NEW i \in 1..Len(q)
    PROVE  q[i] \in Framed /\ q[i].by \in Senders /\ q[i].gen \in Nat /\ SizeOf[q[i].by] \in Nat \ {0}
<1>1. q[i] \in Framed
  BY ElementOfSeq
<1> QED
  BY <1>1, LinkAssumption DEF Framed, Senders

(* The bytes of a queue are the last of its running totals. *)
LEMMA BytesRun ==
    ASSUME NEW q \in Seq(Framed)
    PROVE  \E u : ByteRun(q, u) /\ Bytes(q) = u[Len(q)]
<1> DEFINE n == Len(q)
           step == [i \in 1..n |-> [x \in Nat |-> x + SizeOf[q[i].by]]]
           body(f) == [i \in 0..n |-> IF i = 0 THEN 0 ELSE f[i - 1] + SizeOf[q[i].by]]
           u == CHOOSE f : f = body(f)
<1>1. n \in Nat
  OBVIOUS
<1>2. \A i \in 1..n : SizeOf[q[i].by] \in Nat
  BY FrameParts
<1>3. step \in Steps(n, Nat) /\ 0 \in Nat
  BY <1>2 DEF Steps
<1>4. PICK f : Follows(f, n, Nat, 0, step)
  <2> HIDE DEF step, n
  <2> QED
    BY <1>1, <1>3, RecursionExists
<1>5. \A i \in 1..n : f[i - 1] \in Nat /\ f[i] = f[i - 1] + SizeOf[q[i].by]
  <2> SUFFICES ASSUME NEW i \in 1..n
               PROVE  f[i - 1] \in Nat /\ f[i] = f[i - 1] + SizeOf[q[i].by]
    OBVIOUS
  <2>1. i - 1 \in 0..n
    BY <1>1
  <2>2. f[i - 1] \in Nat /\ step[i] = [x \in Nat |-> x + SizeOf[q[i].by]]
    BY <2>1, <1>4 DEF Follows
  <2>3. step[i][f[i - 1]] = f[i - 1] + SizeOf[q[i].by]
    BY <2>2
  <2> QED
    BY <2>2, <2>3, <1>4 DEF Follows
<1>6. f = body(f)
  BY <1>4, <1>5 DEF Follows
<1>7. u = body(u)
  BY <1>6
<1>8. Bytes(q) = u[n]
  BY DEF Bytes
<1> HIDE DEF u
<1>9. u[0] = 0 /\ \A i \in 1..n : u[i] = u[i - 1] + SizeOf[q[i].by]
  BY <1>1, <1>7
<1> DEFINE P == {i \in 0..n : u[i] = f[i]}
<1>10. \A i \in 0..n : i \in P
  <2>1. 0 \in P
    BY <1>1, <1>4, <1>9 DEF Follows
  <2>2. ASSUME NEW i \in 1..n, i - 1 \in P  PROVE i \in P
    BY <2>2, <1>5, <1>9
  <2> HIDE DEF P, n
  <2> QED
    BY <2>1, <2>2, <1>1, CountUp
<1>11. ByteRun(q, f) /\ Bytes(q) = f[n]
  <2>1. u[n] = f[n]
    BY <1>1, <1>10
  <2>2. \A i \in 1..Len(q) : f[i] = f[i - 1] + SizeOf[q[i].by]
    BY <1>5
  <2> QED
    BY <2>1, <2>2, <1>4, <1>8 DEF ByteRun, Follows
<1> QED
  BY <1>11

(* A queue that drain or close has cleared holds no byte. *)
LEMMA BytesEmpty == Bytes(<<>>) = 0
<1>1. <<>> \in Seq(Framed) /\ Len(<<>>) = 0
  OBVIOUS
<1>2. PICK u : ByteRun(<<>>, u) /\ Bytes(<<>>) = u[0]
  BY <1>1, BytesRun
<1> QED
  BY <1>2 DEF ByteRun

(* put: the count grows by the size of the item (transport.py:55-56). *)
LEMMA BytesAppend ==
    ASSUME NEW q \in Seq(Framed), NEW f \in Framed
    PROVE  Bytes(q) \in Nat /\ Bytes(Append(q, f)) = Bytes(q) + SizeOf[f.by]
<1> DEFINE n == Len(q)
           c == Append(q, f)
<1>1. n \in Nat /\ c \in Seq(Framed) /\ Len(c) = n + 1 /\ c[n + 1] = f
      /\ \A i \in 1..n : c[i] = q[i]
  OBVIOUS
<1>2. PICK u : ByteRun(q, u) /\ Bytes(q) = u[n]
  BY BytesRun
<1> HIDE DEF c
<1>3. PICK v : ByteRun(c, v) /\ Bytes(c) = v[n + 1]
  BY <1>1, BytesRun
<1> DEFINE P == {i \in 0..n : u[i] = v[i]}
<1>4. \A i \in 0..n : i \in P
  <2>1. 0 \in P
    BY <1>1, <1>2, <1>3 DEF ByteRun
  <2>2. ASSUME NEW i \in 1..n, i - 1 \in P  PROVE i \in P
    <3>1. i \in 0..n /\ i \in 1..(n + 1) /\ u[i - 1] = v[i - 1] /\ c[i] = q[i]
      BY <2>2, <1>1
    <3>2. u[i] = u[i - 1] + SizeOf[q[i].by]
      BY <1>2 DEF ByteRun
    <3>3. v[i] = v[i - 1] + SizeOf[c[i].by]
      BY <3>1, <1>1, <1>3 DEF ByteRun
    <3> QED
      BY <3>1, <3>2, <3>3
  <2> HIDE DEF P, n
  <2> QED
    BY <2>1, <2>2, <1>1, CountUp
<1>5. v[n + 1] = v[n] + SizeOf[f.by] /\ v[n] = u[n] /\ u[n] \in Nat
  <2>1. n \in 0..n /\ n + 1 \in 1..(n + 1) /\ (n + 1) - 1 = n
    BY <1>1
  <2>2. v[n] = u[n] /\ u[n] \in Nat
    BY <2>1, <1>2, <1>4 DEF ByteRun
  <2>3. v[n + 1] = v[(n + 1) - 1] + SizeOf[c[n + 1].by]
    BY <2>1, <1>1, <1>3 DEF ByteRun
  <2> QED
    BY <2>1, <2>2, <2>3, <1>1
<1> QED
  BY <1>2, <1>3, <1>5 DEF c

(* get: the count falls by the size of the item, so that the max(0, ...) of *)
(* transport.py:64 never cuts anything off.                                 *)
LEMMA BytesTail ==
    ASSUME NEW q \in Seq(Framed), q # <<>>
    PROVE  Bytes(Tail(q)) \in Nat /\ Bytes(q) = Bytes(Tail(q)) + SizeOf[Head(q).by]
<1> DEFINE n == Len(q)
           t == Tail(q)
           k == SizeOf[q[1].by]
<1>1. n \in Nat \ {0} /\ t \in Seq(Framed) /\ Len(t) = n - 1 /\ Head(q) = q[1]
      /\ \A i \in 1..(n - 1) : t[i] = q[i + 1]
  OBVIOUS
<1>2. PICK u : ByteRun(q, u) /\ Bytes(q) = u[n]
  BY BytesRun
<1> HIDE DEF t
<1>3. PICK v : ByteRun(t, v) /\ Bytes(t) = v[n - 1]
  BY <1>1, BytesRun
<1>4. k \in Nat
  <2>1. 1 \in 1..n
    BY <1>1
  <2> QED
    BY <2>1, FrameParts
<1> HIDE DEF k
<1> DEFINE m == n - 1
           P == {i \in 0..m : u[i + 1] = v[i] + k}
<1>5. \A i \in 0..m : i \in P
  <2>1. 0 \in P
    <3>1. 1 \in 1..n /\ 1 - 1 = 0 /\ 0 \in 0..m /\ 0 + 1 = 1
      BY <1>1
    <3>2. u[1] = u[0] + SizeOf[q[1].by] /\ u[0] = 0 /\ v[0] = 0
      BY <3>1, <1>2, <1>3 DEF ByteRun
    <3>3. SizeOf[q[1].by] = k
      BY <1>1 DEF k
    <3>4. u[0 + 1] = v[0] + k
      BY <3>1, <3>2, <3>3, <1>4
    <3> QED
      BY <3>1, <3>4
  <2>2. ASSUME NEW i \in 1..m, i - 1 \in P  PROVE i \in P
    <3>1. i \in 0..m /\ i \in 1..(n - 1) /\ i + 1 \in 1..n /\ (i + 1) - 1 = i /\ (i - 1) + 1 = i
          /\ i - 1 \in 0..(n - 1) /\ i \in 0..(n - 1)
      BY <1>1
    <3>2. u[i] = v[i - 1] + k /\ v[i - 1] \in Nat
      BY <2>2, <3>1, <1>1, <1>3 DEF ByteRun
    <3>3. u[i + 1] = u[i] + SizeOf[q[i + 1].by] /\ v[i] = v[i - 1] + SizeOf[t[i].by] /\ t[i] = q[i + 1]
      BY <3>1, <1>1, <1>2, <1>3 DEF ByteRun
    <3>4. SizeOf[q[i + 1].by] \in Nat
      BY <3>1, FrameParts
    <3> QED
      BY <3>1, <3>2, <3>3, <3>4, <1>4
  <2>3. m \in Nat
    BY <1>1
  <2> HIDE DEF P, m
  <2> QED
    BY <2>1, <2>2, <2>3, CountUp
<1>6. u[n] = v[n - 1] + k /\ v[n - 1] \in Nat
  <2>1. n - 1 \in 0..m /\ (n - 1) + 1 = n
    BY <1>1
  <2> QED
    BY <2>1, <1>1, <1>3, <1>5 DEF ByteRun
<1> QED
  BY <1>1, <1>2, <1>3, <1>6 DEF t, k
-----------------------------------------------------------------------------
IsNames(s) == s \in Seq(Senders)

NameRun(q, g, u) ==
    /\ u \in [0..Len(q) -> Seq(Senders)]
    /\ u[0] = <<>>
    /\ \A i \in 1..Len(q) : u[i] = IF q[i].gen = g THEN Append(u[i - 1], q[i].by) ELSE u[i - 1]

(* Whose frames of a generation a queue holds: the last of a run that goes *)
(* through it frame by frame.                                              *)
LEMMA NamesRun ==
    ASSUME NEW q \in Seq(Framed), NEW g
    PROVE  \E u : NameRun(q, g, u) /\ Names(q, g) = u[Len(q)]
<1> DEFINE n == Len(q)
           S == Seq(Senders)
           more(i, x) == IF q[i].gen = g THEN Append(x, q[i].by) ELSE x
           step == [i \in 1..n |-> [x \in S |-> more(i, x)]]
           body(f) == [i \in 0..n |-> IF i = 0 THEN <<>> ELSE more(i, f[i - 1])]
           u == CHOOSE f : f = body(f)
<1>1. n \in Nat /\ <<>> \in S
  OBVIOUS
<1>2. \A i \in 1..n : \A x \in S : more(i, x) \in S
  BY FrameParts
<1>3. step \in Steps(n, S)
  <2> HIDE DEF S, more
  <2> QED
    BY <1>2 DEF Steps
<1>4. PICK f : Follows(f, n, S, <<>>, step)
  <2> HIDE DEF step, n, S
  <2> QED
    BY <1>1, <1>3, RecursionExists
<1>5. \A i \in 1..n : f[i] = more(i, f[i - 1])
  <2> SUFFICES ASSUME NEW i \in 1..n  PROVE f[i] = more(i, f[i - 1])
    OBVIOUS
  <2>1. i - 1 \in 0..n
    BY <1>1
  <2>2. f[i - 1] \in S /\ step[i] = [x \in S |-> more(i, x)] /\ f[i] = step[i][f[i - 1]]
    BY <2>1, <1>4 DEF Follows
  <2> HIDE DEF step, more, S
  <2> QED
    BY <2>2
<1>6. f = body(f)
  <2>1. f = [i \in 0..n |-> f[i]] /\ f[0] = <<>>
    BY <1>4 DEF Follows
  <2>2. \A i \in 0..n : f[i] = IF i = 0 THEN <<>> ELSE more(i, f[i - 1])
    <3> HIDE DEF more
    <3> SUFFICES ASSUME NEW i \in 0..n, i # 0  PROVE f[i] = more(i, f[i - 1])
      BY <2>1
    <3>1. i \in 1..n
      BY <1>1
    <3> QED
      BY <3>1, <1>5
  <2> HIDE DEF more, n
  <2> QED
    BY <2>1, <2>2
<1>7. u = body(u)
  <2> HIDE DEF body
  <2> QED
    BY <1>6
<1>8. Names(q, g) = u[n]
  BY DEF Names
<1> HIDE DEF u
<1>9. u[0] = <<>> /\ \A i \in 1..n : u[i] = more(i, u[i - 1])
  <2> HIDE DEF more
  <2> QED
    BY <1>1, <1>7
<1> DEFINE P == {i \in 0..n : u[i] = f[i]}
<1>10. \A i \in 0..n : i \in P
  <2>1. 0 \in P
    BY <1>1, <1>4, <1>9 DEF Follows
  <2>2. ASSUME NEW i \in 1..n, i - 1 \in P  PROVE i \in P
    <3> HIDE DEF more
    <3> QED
      BY <2>2, <1>5, <1>9
  <2> HIDE DEF P, n
  <2> QED
    BY <2>1, <2>2, <1>1, CountUp
<1>11. NameRun(q, g, f)
  <2>1. f \in [0..n -> S] /\ f[0] = <<>>
    BY <1>4 DEF Follows
  <2> QED
    BY <2>1, <1>5 DEF NameRun
<1>12. u[n] = f[n]
  BY <1>1, <1>10
<1> QED
  BY <1>8, <1>11, <1>12

(* No frame of a generation, no name. *)
LEMMA NamesNone ==
    ASSUME NEW q \in Seq(Framed), NEW g, \A i \in 1..Len(q) : q[i].gen # g
    PROVE  Names(q, g) = <<>>
<1> DEFINE n == Len(q)
<1>1. n \in Nat
  OBVIOUS
<1>2. PICK u : NameRun(q, g, u) /\ Names(q, g) = u[n]
  BY NamesRun
<1> DEFINE P == {i \in 0..n : u[i] = <<>>}
<1>3. \A i \in 0..n : i \in P
  <2>1. 0 \in P
    BY <1>1, <1>2 DEF NameRun
  <2>2. ASSUME NEW i \in 1..n, i - 1 \in P  PROVE i \in P
    <3>1. u[i] = u[i - 1]
      BY <1>2 DEF NameRun
    <3> QED
      BY <3>1, <2>2
  <2> HIDE DEF P, n
  <2> QED
    BY <2>1, <2>2, <1>1, CountUp
<1> QED
  BY <1>1, <1>2, <1>3

(* put: the last name, if the frame is of that generation. *)
LEMMA NamesAppend ==
    ASSUME NEW q \in Seq(Framed), NEW f \in Framed, NEW g
    PROVE  /\ Names(q, g) \in Seq(Senders)
           /\ Names(Append(q, f), g) =
                 IF f.gen = g THEN Append(Names(q, g), f.by) ELSE Names(q, g)
<1> DEFINE n == Len(q)
           c == Append(q, f)
<1>1. n \in Nat /\ c \in Seq(Framed) /\ Len(c) = n + 1 /\ c[n + 1] = f
      /\ \A i \in 1..n : c[i] = q[i]
  OBVIOUS
<1>2. PICK u : NameRun(q, g, u) /\ Names(q, g) = u[n]
  BY NamesRun
<1> HIDE DEF c
<1>3. PICK v : NameRun(c, g, v) /\ Names(c, g) = v[n + 1]
  BY <1>1, NamesRun
<1> DEFINE P == {i \in 0..n : u[i] = v[i]}
<1>4. \A i \in 0..n : i \in P
  <2>1. 0 \in P
    BY <1>1, <1>2, <1>3 DEF NameRun
  <2>2. ASSUME NEW i \in 1..n, i - 1 \in P  PROVE i \in P
    <3>1. i \in 0..n /\ i \in 1..(n + 1) /\ u[i - 1] = v[i - 1] /\ c[i] = q[i]
      BY <2>2, <1>1
    <3>2. u[i] = IF q[i].gen = g THEN Append(u[i - 1], q[i].by) ELSE u[i - 1]
      BY <1>2 DEF NameRun
    <3>3. v[i] = IF c[i].gen = g THEN Append(v[i - 1], c[i].by) ELSE v[i - 1]
      BY <3>1, <1>1, <1>3 DEF NameRun
    <3> QED
      BY <3>1, <3>2, <3>3
  <2> HIDE DEF P, n
  <2> QED
    BY <2>1, <2>2, <1>1, CountUp
<1>5. n \in 0..n /\ n + 1 \in 1..(n + 1) /\ (n + 1) - 1 = n
  BY <1>1
<1>6. v[n] = u[n] /\ u[n] \in Seq(Senders)
  BY <1>5, <1>2, <1>4 DEF NameRun
<1>7. v[n + 1] = IF c[n + 1].gen = g THEN Append(v[n], c[n + 1].by) ELSE v[n]
  BY <1>5, <1>1, <1>3 DEF NameRun
<1> QED
  BY <1>1, <1>2, <1>3, <1>6, <1>7 DEF c

(* What is appended behind is appended to the second part. *)
LEMMA ConcatAppend ==
    ASSUME NEW s, IsNames(s), NEW t, IsNames(t), NEW x \in Senders
    PROVE  Append(s \o t, x) = s \o Append(t, x)
  BY DEF IsNames

(* get: the first name, if the frame is of that generation. *)
LEMMA NamesTail ==
    ASSUME NEW q \in Seq(Framed), q # <<>>, NEW g
    PROVE  Names(q, g) = IF Head(q).gen = g THEN <<Head(q).by>> \o Names(Tail(q), g)
                         ELSE Names(Tail(q), g)
<1> DEFINE n == Len(q)
           m == n - 1
           t == Tail(q)
           h == IF q[1].gen = g THEN <<q[1].by>> ELSE <<>>
<1>1. n \in Nat \ {0} /\ m \in Nat /\ t \in Seq(Framed) /\ Len(t) = m /\ Head(q) = q[1]
      /\ \A i \in 1..m : t[i] = q[i + 1]
  OBVIOUS
<1>2. PICK u : NameRun(q, g, u) /\ Names(q, g) = u[n]
  BY NamesRun
<1> HIDE DEF t
<1>3. PICK v : NameRun(t, g, v) /\ Names(t, g) = v[m]
  BY <1>1, NamesRun
<1>4. h \in Seq(Senders)
  <2>1. 1 \in 1..n
    BY <1>1
  <2>2. q[1].by \in Senders
    BY <2>1, FrameParts
  <2> QED
    BY <2>2
<1> DEFINE P == {i \in 0..m : u[i + 1] = h \o v[i]}
<1>5. \A i \in 0..m : i \in P
  <2>1. 0 \in P
    <3>1. 1 \in 1..n /\ 0 \in 0..m /\ 1 - 1 = 0 /\ 0 + 1 = 1
      BY <1>1
    <3>2. u[1] = IF q[1].gen = g THEN Append(u[0], q[1].by) ELSE u[0]
      BY <3>1, <1>2 DEF NameRun
    <3>3. u[0] = <<>> /\ v[0] = <<>>
      BY <1>2, <1>3 DEF NameRun
    <3>4. h \o <<>> = h /\ u[1] = h
      BY <1>4, <3>2, <3>3
    <3>5. u[0 + 1] = h \o v[0]
      BY <3>1, <3>3, <3>4
    <3> HIDE DEF h, m
    <3> QED
      BY <3>1, <3>5
  <2>2. ASSUME NEW i \in 1..m, i - 1 \in P  PROVE i \in P
    <3>1. i \in 0..m /\ i + 1 \in 1..n /\ (i + 1) - 1 = i /\ (i - 1) + 1 = i /\ i - 1 \in 0..m
      BY <1>1
    <3>2. u[i] = h \o v[i - 1] /\ v[i - 1] \in Seq(Senders)
      BY <2>2, <3>1, <1>1, <1>3 DEF NameRun
    <3>3. u[i + 1] = IF q[i + 1].gen = g THEN Append(u[i], q[i + 1].by) ELSE u[i]
      BY <3>1, <1>2 DEF NameRun
    <3>4. v[i] = (IF t[i].gen = g THEN Append(v[i - 1], t[i].by) ELSE v[i - 1]) /\ t[i] = q[i + 1]
      BY <3>1, <1>1, <1>3 DEF NameRun
    <3>5. \A x \in Senders : Append(h \o v[i - 1], x) = h \o Append(v[i - 1], x)
      <4>1. IsNames(h) /\ IsNames(v[i - 1])
        BY <3>2, <1>4 DEF IsNames
      <4> HIDE DEF h
      <4> QED
        BY <4>1, ConcatAppend
    <3>6. q[i + 1].by \in Senders
      BY <3>1, FrameParts
    <3> HIDE DEF h
    <3> QED
      BY <3>1, <3>2, <3>3, <3>4, <3>5, <3>6
  <2> HIDE DEF P, m
  <2> QED
    BY <2>1, <2>2, <1>1, CountUp
<1>6. u[n] = h \o v[m] /\ v[m] \in Seq(Senders)
  <2>1. m \in 0..m /\ m + 1 = n
    BY <1>1
  <2>2. v[m] \in Seq(Senders)
    BY <2>1, <1>1, <1>3 DEF NameRun
  <2> QED
    BY <2>1, <2>2, <1>5
<1>7. Names(q, g) = h \o Names(t, g) /\ Names(t, g) \in Seq(Senders)
  <2> HIDE DEF h, m
  <2> QED
    BY <1>2, <1>3, <1>6
<1>8. <<>> \o Names(t, g) = Names(t, g)
  BY <1>7, ConcatEmptySeq
<1>9. CASE q[1].gen = g
  BY <1>1, <1>7, <1>9 DEF t
<1>10. CASE q[1].gen # g
  <2>1. h = <<>>
    BY <1>10
  <2> HIDE DEF h
  <2> QED
    BY <2>1, <1>1, <1>7, <1>8, <1>10 DEF t
<1> QED
  BY <1>9, <1>10
-----------------------------------------------------------------------------
(* The inductive invariant. *)

\* A frame is of its own task, and of a generation that has been.
Dated(f) == f.gen \in 1..generation

FramesDated ==
    /\ \A i \in 1..Len(queue) : Dated(queue[i])
    /\ \A t \in Senders : waiting[t] # NoFrame => waiting[t].by = t /\ Dated(waiting[t])

\* What the sender holds is of the present generation.
SendsCurrent == sending # NoFrame => run = "up" /\ sending.gen = generation

\* A hello waits only in front of a queue that nobody empties.
HelloStuck ==
    waiting[HelloTask] # NoFrame =>
        \/ run = "stopped"
        \/ run = "greeting" /\ ~(Len(queue) < MaxItems /\ queued + SizeOf[HelloTask] <= MaxBytes)

StoppedIsClosed == (run = "stopped") <=> closed

\* A link that is open has a generation of its own.
OpenIsDated == LinkOpen => generation >= 1

\* Nothing is written before the sender of the socket starts.
GreetingIsSilent == run = "greeting" => wire = <<>>

LinkInv ==
    /\ LinkTypeOK /\ FramesDated /\ SendsCurrent /\ HelloStuck
    /\ StoppedIsClosed /\ OpenIsDated /\ GreetingIsSilent

(* A wrapper that starts satisfies the invariant. *)
LEMMA InitInv == LinkInit => LinkInv
<1> SUFFICES ASSUME LinkInit PROVE LinkInv
  OBVIOUS
<1> USE LinkAssumption
<1>1. LinkTypeOK
  <2>1. NoFrame \in Framed /\ <<>> \in Seq(Framed) /\ Len(<<>>) = 0
    BY DEF NoFrame, Framed, Senders
  <2>2. Bytes(queue) = 0
    BY BytesEmpty DEF LinkInit
  <2>3. queue \in Seq(Framed) /\ wire \in Seq(Framed) /\ queued = Bytes(queue)
        /\ queued <= MaxBytes /\ Len(queue) <= MaxItems
    BY <2>1, <2>2 DEF LinkInit
  <2>4. waiting \in [Senders -> Framed] /\ sending \in Framed /\ woken \subseteq Senders
    BY <2>1 DEF LinkInit
  <2>5. /\ run \in {"down", "greeting", "up", "lost", "stopped"} /\ socket \in BOOLEAN
        /\ receiver \in {"idle", "waiting"} /\ closed \in BOOLEAN /\ crammed \in BOOLEAN
    BY DEF LinkInit
  <2>6. /\ generation \in Nat /\ inbox \in 0 .. InboxCap /\ frames \in 0 .. MaxFrames
        /\ commands \in 0 .. MaxCommands /\ losses \in 0 .. MaxLosses
    BY DEF LinkInit
  <2> QED
    BY <2>3, <2>4, <2>5, <2>6 DEF LinkTypeOK
<1>2. FramesDated /\ SendsCurrent /\ HelloStuck /\ StoppedIsClosed /\ OpenIsDated /\ GreetingIsSilent
  BY DEF LinkInit, FramesDated, SendsCurrent, HelloStuck, StoppedIsClosed, OpenIsDated,
         GreetingIsSilent, LinkOpen, Senders
<1> QED
  BY <1>1, <1>2 DEF LinkInv

(* A frame for which there is room keeps the queue in its budget. *)
LEMMA EnqueuesInv ==
    ASSUME LinkInv, NEW f \in Framed, Enqueues(f), generation' \in Nat, generation <= generation',
           f.gen \in 1..generation', Len(queue) < MaxItems, queued + SizeOf[f.by] <= MaxBytes
    PROVE  /\ queue' \in Seq(Framed)
           /\ queued' = Bytes(queue') /\ queued' <= MaxBytes /\ Len(queue') <= MaxItems
           /\ \A i \in 1..Len(queue') : queue'[i].gen \in 1..generation'
           /\ Len(queue') = Len(queue) + 1 /\ queued' > queued /\ queued \in Nat /\ queued' \in Nat
<1>1. queue \in Seq(Framed) /\ queued = Bytes(queue) /\ Len(queue) \in Nat
  BY DEF LinkInv, LinkTypeOK
<1>2. queue' = Append(queue, f) /\ queued' = queued + SizeOf[f.by]
  BY DEF Enqueues
<1>3. Bytes(queue) \in Nat /\ Bytes(queue') = queued' /\ SizeOf[f.by] \in Nat \ {0}
  BY <1>1, <1>2, BytesAppend, LinkAssumption DEF Framed, Senders
<1>4. queue' \in Seq(Framed) /\ Len(queue') = Len(queue) + 1 /\ queue'[Len(queue) + 1] = f
      /\ \A i \in 1..Len(queue) : queue'[i] = queue[i]
  BY <1>1, <1>2
<1>5. \A i \in 1..Len(queue) : queue[i].gen \in 1..generation'
  BY DEF LinkInv, LinkTypeOK, FramesDated, Dated
<1>6. ASSUME NEW i \in 1..Len(queue')  PROVE queue'[i].gen \in 1..generation'
  <2>1. CASE i = Len(queue) + 1
    BY <2>1, <1>4
  <2>2. CASE i # Len(queue) + 1
    <3>1. i \in 1..Len(queue)
      BY <2>2, <1>1, <1>4
    <3> QED
      BY <3>1, <1>4, <1>5
  <2> QED
    BY <2>1, <2>2
<1> QED
  BY <1>1, <1>2, <1>3, <1>4, <1>6, LinkAssumption

(* A frame taken out leaves a queue within its budget (transport.py:59-67). *)
LEMMA DequeuesInv ==
    ASSUME LinkInv, queue # <<>>, Dequeues
    PROVE  /\ queue' \in Seq(Framed)
           /\ queued' = Bytes(queue') /\ queued' <= MaxBytes /\ Len(queue') <= MaxItems
           /\ \A i \in 1..Len(queue') : queue'[i].gen \in 1..generation
           /\ Head(queue) \in Framed
<1>1. queue \in Seq(Framed) /\ queued = Bytes(queue) /\ Len(queue) \in Nat /\ Len(queue) <= MaxItems
      /\ queued <= MaxBytes
  BY DEF LinkInv, LinkTypeOK
<1>2. queue' = Tail(queue) /\ Head(queue) \in Framed /\ Head(queue) = queue[1] /\ Len(queue) > 0
  BY <1>1 DEF Dequeues
<1>3. Bytes(queue') \in Nat /\ Bytes(queue) = Bytes(queue') + SizeOf[Head(queue).by]
      /\ SizeOf[Head(queue).by] \in Nat
  <2>1. SizeOf[Head(queue).by] \in Nat
    BY <1>2, LinkAssumption DEF Framed, Senders
  <2> QED
    BY <2>1, <1>1, <1>2, BytesTail
<1>4. queued' = Bytes(queue')
  BY <1>1, <1>3 DEF Dequeues
<1>5. queue' \in Seq(Framed) /\ Len(queue') = Len(queue) - 1
      /\ \A i \in 1..(Len(queue) - 1) : queue'[i] = queue[i + 1]
  BY <1>1, <1>2
<1>6. \A i \in 1..Len(queue) : queue[i].gen \in 1..generation
  BY DEF LinkInv, LinkTypeOK, FramesDated, Dated
<1>7. ASSUME NEW i \in 1..Len(queue')  PROVE queue'[i].gen \in 1..generation
  <2>1. i + 1 \in 1..Len(queue) /\ i \in 1..(Len(queue) - 1)
    BY <1>1, <1>5
  <2> QED
    BY <2>1, <1>5, <1>6
<1>8. queued' <= MaxBytes /\ Len(queue') <= MaxItems
  BY <1>1, <1>3, <1>4, <1>5, LinkAssumption
<1> QED
  BY <1>2, <1>4, <1>5, <1>7, <1>8

(* Every step keeps the invariant: sends and waits, links that come and go, *)
(* drains and the stop.                                                    *)
LEMMA StepInv == LinkInv /\ [LinkNext]_linkVars => LinkInv'
<1> SUFFICES ASSUME LinkInv, [LinkNext]_linkVars  PROVE LinkInv'
  OBVIOUS
<1> USE LinkAssumption
<1>0. generation \in Nat /\ queue \in Seq(Framed) /\ Len(queue) \in Nat
      /\ waiting \in [Senders -> Framed] /\ NoFrame \in Framed /\ HelloTask \in Senders
      /\ SizeOf[HelloTask] \in Nat
  BY DEF LinkInv, LinkTypeOK, NoFrame, Framed, Senders
<1>1. ASSUME NEW p \in Producers, Send(p)  PROVE LinkInv'
  <2> DEFINE f == [by |-> p, gen |-> generation']
  <2>1. f \in Framed /\ p \in Senders /\ p # HelloTask /\ generation' = generation /\ generation >= 1
        /\ f # NoFrame /\ f.by = p /\ f.gen \in 1..generation'
    BY <1>1, <1>0 DEF Send, Framed, Senders, LinkInv, OpenIsDated, NoFrame, LinkOpen
  <2>2. CASE SizeOf[p] > MaxBytes
    BY <1>1, <2>2 DEF Send, LinkInv, LinkTypeOK, FramesDated, SendsCurrent, HelloStuck,
       StoppedIsClosed, OpenIsDated, GreetingIsSilent, LinkOpen, Dated
  <2>3. CASE ~(SizeOf[p] > MaxBytes) /\ Fits(p)
    <3>1. Enqueues(f) /\ woken' = Waiters /\ waiting' = waiting
      BY <1>1, <2>3 DEF Send, Puts
    <3>2. Len(queue) < MaxItems /\ queued + SizeOf[f.by] <= MaxBytes
      BY <2>3, <2>1 DEF Fits
    <3> HIDE DEF f
    <3>3. /\ queue' \in Seq(Framed)
          /\ queued' = Bytes(queue') /\ queued' <= MaxBytes /\ Len(queue') <= MaxItems
          /\ \A i \in 1..Len(queue') : queue'[i].gen \in 1..generation'
          /\ Len(queue') = Len(queue) + 1 /\ queued' > queued /\ queued \in Nat /\ queued' \in Nat
      BY <2>1, <3>1, <3>2, <1>0, EnqueuesInv DEF Dated
    <3>4. Waiters \subseteq Senders
      BY DEF Waiters
    <3>5. LinkTypeOK'
      BY <1>1, <3>1, <3>3, <3>4 DEF Send, LinkInv, LinkTypeOK
    <3>6. FramesDated'
      BY <2>1, <3>1, <3>3 DEF LinkInv, FramesDated, Dated
    <3>7. HelloStuck'
      BY <1>1, <1>0, <3>1, <3>3 DEF Send, LinkInv, HelloStuck
    <3> QED
      BY <1>1, <3>5, <3>6, <3>7 DEF Send, LinkInv, SendsCurrent, StoppedIsClosed, OpenIsDated,
         GreetingIsSilent, LinkOpen
  <2>4. CASE ~(SizeOf[p] > MaxBytes) /\ ~Fits(p)
    <3>1. waiting' = [waiting EXCEPT ![p] = f] /\ queue' = queue /\ queued' = queued /\ woken' = woken
      BY <1>1, <2>4 DEF Send, Puts
    <3> HIDE DEF f
    <3>2. waiting' \in [Senders -> Framed] /\ waiting'[HelloTask] = waiting[HelloTask]
          /\ waiting'[p] = f /\ \A t \in Senders : t # p => waiting'[t] = waiting[t]
      BY <3>1, <2>1, <1>0
    <3>3. LinkTypeOK'
      BY <1>1, <3>1, <3>2 DEF Send, LinkInv, LinkTypeOK
    <3>4. FramesDated'
      BY <1>0, <2>1, <3>1, <3>2 DEF LinkInv, FramesDated, Dated
    <3> QED
      BY <1>1, <3>1, <3>2, <3>3, <3>4 DEF Send, LinkInv, SendsCurrent, HelloStuck, StoppedIsClosed,
         OpenIsDated, GreetingIsSilent, LinkOpen
  <2> QED
    BY <2>2, <2>3, <2>4
<1>2. ASSUME NEW t \in Senders, Recheck(t)  PROVE LinkInv'
  <2> DEFINE f == waiting[t]
  <2>1. f \in Framed /\ f.by = t /\ Dated(f) /\ generation' = generation /\ run' = run
    BY <1>0, <1>2 DEF Recheck, LinkInv, FramesDated
  <2>2. CASE ~closed /\ Fits(t)
    <3>1. Enqueues(f) /\ waiting' = [waiting EXCEPT ![t] = NoFrame] /\ woken' = Waiters \ {t}
      BY <1>2, <2>2 DEF Recheck
    <3>2. Len(queue) < MaxItems /\ queued + SizeOf[f.by] <= MaxBytes
      BY <2>2, <2>1 DEF Fits
    <3> HIDE DEF f
    <3>3. /\ queue' \in Seq(Framed)
          /\ queued' = Bytes(queue') /\ queued' <= MaxBytes /\ Len(queue') <= MaxItems
          /\ \A i \in 1..Len(queue') : queue'[i].gen \in 1..generation'
          /\ Len(queue') = Len(queue) + 1 /\ queued' > queued /\ queued \in Nat /\ queued' \in Nat
      BY <2>1, <3>1, <3>2, <1>0, EnqueuesInv DEF Dated
    <3>4. waiting' \in [Senders -> Framed]
          /\ \A x \in Senders : waiting'[x] = NoFrame \/ waiting'[x] = waiting[x]
      BY <3>1, <1>0
    <3>5. LinkTypeOK'
      BY <1>2, <3>1, <3>3, <3>4 DEF Recheck, LinkInv, LinkTypeOK, Waiters
    <3>6. FramesDated'
      BY <2>1, <3>3, <3>4 DEF LinkInv, FramesDated, Dated
    <3>7. HelloStuck'
      BY <1>0, <2>1, <3>3, <3>4 DEF LinkInv, HelloStuck
    <3> QED
      BY <1>2, <3>5, <3>6, <3>7 DEF Recheck, LinkInv, SendsCurrent, StoppedIsClosed, OpenIsDated,
         GreetingIsSilent, LinkOpen
  <2>3. CASE ~(~closed /\ Fits(t))
    <3>1. queue' = queue /\ queued' = queued /\ woken' \subseteq Senders
          /\ waiting' \in [Senders -> Framed]
          /\ \A x \in Senders : waiting'[x] = NoFrame \/ waiting'[x] = waiting[x]
      BY <1>0, <1>2, <2>3 DEF Recheck, LinkInv, LinkTypeOK
    <3>2. LinkTypeOK'
      BY <1>2, <3>1 DEF Recheck, LinkInv, LinkTypeOK
    <3>3. FramesDated' /\ HelloStuck'
      BY <2>1, <3>1, <1>0 DEF LinkInv, FramesDated, HelloStuck, Dated
    <3> QED
      BY <1>2, <3>2, <3>3 DEF Recheck, LinkInv, SendsCurrent, StoppedIsClosed, OpenIsDated,
         GreetingIsSilent, LinkOpen
  <2> QED
    BY <2>2, <2>3
<1>3. ASSUME Connect  PROVE LinkInv'
  <2> DEFINE f == [by |-> HelloTask, gen |-> generation']
  <2>1. f \in Framed /\ f.by = HelloTask /\ generation' = generation + 1 /\ f # NoFrame
        /\ f.gen \in 1..generation' /\ sending = NoFrame /\ sending' = NoFrame /\ run' = "greeting"
    BY <1>3, <1>0 DEF Connect, Framed, NoFrame, LinkInv, SendsCurrent
  <2>2. wire' = <<>> /\ <<>> \in Seq(Framed)
    BY <1>3 DEF Connect
  <2>3. LinkTypeOK' /\ FramesDated' /\ HelloStuck'
    <3>1. CASE Fits(HelloTask)
      <4>1. Enqueues(f) /\ woken' = Waiters /\ waiting' = waiting
        BY <1>3, <3>1 DEF Connect, Puts
      <4>2. Len(queue) < MaxItems /\ queued + SizeOf[f.by] <= MaxBytes
        BY <3>1, <2>1 DEF Fits
      <4> HIDE DEF f
      <4>3. /\ queue' \in Seq(Framed)
            /\ queued' = Bytes(queue') /\ queued' <= MaxBytes /\ Len(queue') <= MaxItems
            /\ \A i \in 1..Len(queue') : queue'[i].gen \in 1..generation'
        BY <2>1, <4>1, <4>2, <1>0, EnqueuesInv
      <4>4. LinkTypeOK'
        BY <1>3, <4>1, <4>3, <2>1, <2>2, <1>0 DEF Connect, LinkInv, LinkTypeOK, Waiters
      <4>5. FramesDated'
        <5>1. ASSUME NEW t \in Senders, waiting[t] # NoFrame
              PROVE  waiting[t].by = t /\ waiting[t].gen \in 1..generation'
          BY <5>1, <1>0, <2>1 DEF LinkInv, FramesDated, Dated
        <5> QED
          BY <4>1, <4>3, <5>1 DEF FramesDated, Dated
      <4>6. HelloStuck'
        BY <1>3, <4>1 DEF Connect, LinkInv, HelloStuck
      <4> QED
        BY <4>4, <4>5, <4>6
    <3>2. CASE ~Fits(HelloTask)
      <4>1. waiting' = [waiting EXCEPT ![HelloTask] = f] /\ queue' = queue /\ queued' = queued
            /\ woken' = woken
        BY <1>3, <3>2 DEF Connect, Puts
      <4> HIDE DEF f
      <4>2. waiting' \in [Senders -> Framed] /\ waiting'[HelloTask] = f
            /\ \A t \in Senders : t # HelloTask => waiting'[t] = waiting[t]
        BY <4>1, <2>1, <1>0
      <4>3. LinkTypeOK'
        BY <1>3, <4>1, <4>2, <2>1, <2>2, <1>0 DEF Connect, LinkInv, LinkTypeOK
      <4>4. FramesDated'
        BY <1>0, <2>1, <4>1, <4>2 DEF LinkInv, FramesDated, Dated
      <4>5. HelloStuck'
        BY <2>1, <3>2, <4>1 DEF HelloStuck, Fits
      <4> QED
        BY <4>3, <4>4, <4>5
    <3> QED
      BY <3>1, <3>2
  <2> QED
    BY <1>3, <1>0, <2>1, <2>2, <2>3 DEF Connect, LinkInv, SendsCurrent, StoppedIsClosed, OpenIsDated,
       GreetingIsSilent, LinkOpen
<1>4. CASE Greeted
  BY <1>4, <1>0 DEF Greeted, LinkInv, LinkTypeOK, FramesDated, SendsCurrent, HelloStuck,
     StoppedIsClosed, OpenIsDated, GreetingIsSilent, LinkOpen, Dated
<1>5. CASE Take
  <2>1. Dequeues /\ queue # <<>> /\ waiting' = waiting /\ generation' = generation /\ run' = run
        /\ run = "up"
    BY <1>5 DEF Take
  <2>2. /\ queue' \in Seq(Framed)
        /\ queued' = Bytes(queue') /\ queued' <= MaxBytes /\ Len(queue') <= MaxItems
        /\ \A i \in 1..Len(queue') : queue'[i].gen \in 1..generation
        /\ Head(queue) \in Framed
    BY <2>1, DequeuesInv
  <2>3. LinkTypeOK'
    BY <1>5, <1>0, <2>2 DEF Take, LinkInv, LinkTypeOK, Waiters
  <2>4. FramesDated' /\ HelloStuck'
    BY <2>1, <2>2 DEF LinkInv, FramesDated, HelloStuck, Dated
  <2>5. SendsCurrent'
    BY <1>5 DEF Take, SendsCurrent, Stale
  <2> QED
    BY <1>5, <2>3, <2>4, <2>5 DEF Take, LinkInv, StoppedIsClosed, OpenIsDated, GreetingIsSilent,
       LinkOpen
<1>6. CASE Write
  <2>1. wire' \in Seq(Framed)
    BY <1>6 DEF Write, LinkInv, LinkTypeOK
  <2> QED
    BY <1>6, <1>0, <2>1 DEF Write, LinkInv, LinkTypeOK, FramesDated, SendsCurrent, HelloStuck,
       StoppedIsClosed, OpenIsDated, GreetingIsSilent, LinkOpen, Dated
<1>7. CASE Receive
  BY <1>7 DEF Receive, LinkInv, LinkTypeOK, FramesDated, SendsCurrent, HelloStuck,
     StoppedIsClosed, OpenIsDated, GreetingIsSilent, LinkOpen, Dated
<1>8. CASE Incoming
  <2>1. inbox \in Nat /\ inbox <= InboxCap /\ inbox' \in 0..InboxCap
    BY <1>8 DEF Incoming, LinkInv, LinkTypeOK
  <2>2. receiver' \in {"idle", "waiting"}
    BY <1>8 DEF Incoming, LinkInv, LinkTypeOK
  <2> QED
   BY <1>8, <2>1, <2>2 DEF Incoming, LinkInv, LinkTypeOK, FramesDated, SendsCurrent, HelloStuck,
     StoppedIsClosed, OpenIsDated, GreetingIsSilent, LinkOpen, Dated
<1>9. CASE SocketDies
  <2>1. losses' \in 0..MaxLosses
    BY <1>9 DEF SocketDies, LinkInv, LinkTypeOK
  <2>2. LinkTypeOK'
    BY <1>9, <2>1 DEF SocketDies, LinkInv, LinkTypeOK
  <2> QED
   BY <1>9, <2>2 DEF SocketDies, LinkInv, LinkTypeOK, FramesDated, SendsCurrent, HelloStuck,
     StoppedIsClosed, OpenIsDated, GreetingIsSilent, LinkOpen, Dated
<1>10. CASE LinkLost
  BY <1>10, <1>0 DEF LinkLost, LinkInv, LinkTypeOK, FramesDated, SendsCurrent, HelloStuck,
     StoppedIsClosed, OpenIsDated, GreetingIsSilent, LinkOpen, Dated
<1>11. CASE Drain
  <2>1. queue' = <<>> /\ queue' \in Seq(Framed) /\ Len(queue') = 0 /\ wire' \in Seq(Framed)
        /\ queued' = Bytes(queue') /\ queued' = 0
    BY <1>11, BytesEmpty DEF Drain
  <2>2. LinkTypeOK'
    BY <1>11, <2>1 DEF Drain, LinkInv, LinkTypeOK, Waiters
  <2> QED
    BY <1>11, <1>0, <2>1, <2>2 DEF Drain, LinkInv, FramesDated, SendsCurrent, HelloStuck,
       StoppedIsClosed, OpenIsDated, GreetingIsSilent, LinkOpen, Dated
<1>12. CASE StopTransport
  <2>1. queue' = <<>> /\ queue' \in Seq(Framed) /\ Len(queue') = 0
        /\ queued' = Bytes(queue') /\ queued' = 0
    BY <1>12, BytesEmpty DEF StopTransport
  <2>2. inbox' \in 0..InboxCap /\ run' \in {"stopped"} /\ receiver' \in {"idle"} /\ closed' = TRUE
        /\ socket' = FALSE /\ sending' = NoFrame /\ woken' \subseteq Senders
        /\ UNCHANGED <<generation, waiting, wire, frames, commands, losses, crammed>>
    BY <1>12 DEF StopTransport, Waiters
  <2>3. LinkTypeOK'
    <3>1. /\ generation' \in Nat /\ waiting' \in [Senders -> Framed] /\ wire' \in Seq(Framed)
          /\ frames' \in 0 .. MaxFrames /\ commands' \in 0 .. MaxCommands
          /\ losses' \in 0 .. MaxLosses /\ crammed' \in BOOLEAN
      BY <2>2 DEF LinkInv, LinkTypeOK
    <3>2. queued' <= MaxBytes /\ Len(queue') <= MaxItems /\ sending' \in Framed
      BY <2>1, <2>2, <1>0
    <3> QED
      BY <2>1, <2>2, <3>1, <3>2 DEF LinkTypeOK
  <2> QED
    BY <1>12, <1>0, <2>1, <2>3 DEF StopTransport, LinkInv, FramesDated, SendsCurrent, HelloStuck,
       StoppedIsClosed, OpenIsDated, GreetingIsSilent, LinkOpen, Dated
<1>13. CASE UNCHANGED linkVars
  BY <1>13 DEF linkVars, LinkInv, LinkTypeOK, FramesDated, SendsCurrent, HelloStuck,
     StoppedIsClosed, OpenIsDated, GreetingIsSilent, LinkOpen, Dated
<1> QED
  BY <1>1, <1>2, <1>3, <1>4, <1>5, <1>6, <1>7, <1>8, <1>9, <1>10, <1>11, <1>12, <1>13 DEF LinkNext

(* Whatever producers, sockets and commands do, neither limit of the send  *)
(* queue is exceeded and its count of bytes is exact: a disconnect, a drain *)
(* and a wake-up in between lose or count twice nothing (transport.py:42-83). *)
THEOREM LinkTyped == LinkSpec => []LinkTypeOK
<1>1. LinkInv => LinkTypeOK
  BY DEF LinkInv
<1> QED
  BY <1>1, InitInv, StepInv, PTL DEF LinkSpec
-----------------------------------------------------------------------------
(* The refinement. *)

(* Between two links the promised FIFO is empty and stays it. *)
LEMMA NotUp ==
    ASSUME ~LinkUp, ~LinkUp'
    PROVE  UNCHANGED Lossy!vars
<1>1. Accepted = <<>> /\ Accepted' = <<>>
  BY DEF Accepted
<1>2. Written = <<>> /\ Written' = <<>>
  BY DEF Written
<1>3. LinkUp' = LinkUp
  BY Zenon DEF LinkUp
<1> QED
  BY <1>1, <1>2, <1>3 DEF Lossy!vars

(* A step that touches neither queue nor link is none of the FIFO. *)
LEMMA NothingMoves ==
    ASSUME LinkUp' = LinkUp, UNCHANGED <<queue, generation, sending, wire>>
    PROVE  UNCHANGED Lossy!vars
  BY DEF Lossy!vars, Accepted, Written

(* What the FIFO holds: the frame being written, then those of this link. *)
LEMMA AcceptedShape ==
    ASSUME LinkInv, LinkUp
    PROVE  /\ Names(queue, generation) \in Seq(Senders)
           /\ IsNames(Names(queue, generation))
           /\ sending = NoFrame => Accepted = Names(queue, generation)
           /\ sending # NoFrame => /\ Accepted = <<sending.by>> \o Names(queue, generation)
                                   /\ sending.by \in Senders /\ sending.gen = generation
<1>1. queue \in Seq(Framed) /\ sending \in Framed
  BY DEF LinkInv, LinkTypeOK
<1>2. PICK u : NameRun(queue, generation, u) /\ Names(queue, generation) = u[Len(queue)]
  BY <1>1, NamesRun
<1>3. Names(queue, generation) \in Seq(Senders)
  <2>1. Len(queue) \in 0..Len(queue)
    BY <1>1
  <2> QED
    BY <2>1, <1>2 DEF NameRun
<1>4. <<>> \o Names(queue, generation) = Names(queue, generation)
  BY <1>3, ConcatEmptySeq
<1> QED
  BY <1>1, <1>3, <1>4 DEF Accepted, LinkInv, SendsCurrent, Framed, IsNames

(* A frame put into the queue of an open link. *)
LEMMA PutRefines ==
    ASSUME LinkInv, LinkUp, LinkUp', NEW f \in Framed, f.by \in Producers, Enqueues(f),
           UNCHANGED <<generation, sending, wire>>
    PROVE  Lossy!Put \/ UNCHANGED Lossy!vars
<1>1. queue \in Seq(Framed) /\ queue' = Append(queue, f)
  BY DEF LinkInv, LinkTypeOK, Enqueues
<1>2. Names(queue', generation) =
        IF f.gen = generation THEN Append(Names(queue, generation), f.by) ELSE Names(queue, generation)
  BY <1>1, NamesAppend
<1>3. CASE f.gen # generation
  <2>1. Names(queue', generation) = Names(queue, generation)
    BY <1>2, <1>3
  <2>2. Accepted' = Accepted /\ Written' = Written
    BY <2>1 DEF Accepted, Written
  <2> QED
    BY <2>2 DEF Lossy!vars
<1>4. CASE f.gen = generation
  <2>1. Names(queue', generation') = Append(Names(queue, generation), f.by)
    BY <1>2, <1>4
  <2>2. Accepted' = Append(Accepted, f.by)
    <3>1. CASE sending = NoFrame
      <4>1. Accepted' = <<>> \o Append(Names(queue, generation), f.by)
        BY <2>1, <3>1 DEF Accepted
      <4>2. Append(Names(queue, generation), f.by) \in Seq(Senders)
        BY AcceptedShape, <1>1 DEF Senders
      <4>3. Accepted' = Append(Names(queue, generation), f.by)
        BY <4>1, <4>2, ConcatEmptySeq
      <4> QED
        BY <4>3, <3>1, AcceptedShape
    <3>2. CASE sending # NoFrame
      <4>1. Accepted' = <<sending.by>> \o Append(Names(queue, generation), f.by)
        BY <2>1, <3>2 DEF Accepted
      <4>2. IsNames(<<sending.by>>) /\ IsNames(Names(queue, generation)) /\ f.by \in Senders
        BY <3>2, AcceptedShape DEF Senders, IsNames
      <4>3. Append(<<sending.by>> \o Names(queue, generation), f.by)
              = <<sending.by>> \o Append(Names(queue, generation), f.by)
        BY <4>2, ConcatAppend
      <4> QED
        BY <4>1, <4>3, <3>2, AcceptedShape
    <3> QED
      BY <3>1, <3>2
  <2>3. Written' = Written
    BY DEF Written
  <2> QED
    BY <2>2, <2>3 DEF Lossy!Put
<1> QED
  BY <1>3, <1>4

(* The transport starts as a FIFO without a link. *)
LEMMA RefInit == LinkInit => Lossy!Init
  BY DEF LinkInit, Lossy!Init, LinkUp, Accepted, Written

(* Every step is one of the lossy FIFO, or none it can see. *)
LEMMA RefStep == LinkInv /\ LinkInv' /\ [LinkNext]_linkVars => [Lossy!Next]_(Lossy!vars)
<1> SUFFICES ASSUME LinkInv, LinkInv', [LinkNext]_linkVars
             PROVE  Lossy!Next \/ UNCHANGED Lossy!vars
  OBVIOUS
<1>0. queue \in Seq(Framed) /\ waiting \in [Senders -> Framed] /\ HelloTask \in Senders
      /\ generation \in Nat
  BY DEF LinkInv, LinkTypeOK, Senders
<1>1. ASSUME NEW p \in Producers, Send(p)  PROVE Lossy!Next \/ UNCHANGED Lossy!vars
  <2> DEFINE f == [by |-> p, gen |-> generation']
  <2>1. p # HelloTask /\ p \in Senders /\ f \in Framed /\ f.by = p
    BY <1>1, <1>0, LinkAssumption DEF Send, Senders, Framed
  <2>2. waiting'[HelloTask] = waiting[HelloTask]
    BY <1>1, <1>0, <2>1 DEF Send, Puts
  <2>3. LinkUp' = LinkUp
    BY <1>1, <2>2 DEF Send, LinkUp
  <2>4. CASE SizeOf[p] > MaxBytes \/ ~Fits(p)
    <3>1. UNCHANGED <<queue, generation, sending, wire>>
      BY <1>1, <2>4 DEF Send, Puts
    <3> QED
      BY <3>1, <2>3, NothingMoves
  <2>5. CASE ~(SizeOf[p] > MaxBytes) /\ Fits(p)
    <3>1. Enqueues(f) /\ UNCHANGED <<generation, sending, wire>>
      BY <1>1, <2>5 DEF Send, Puts
    <3> HIDE DEF f
    <3>2. CASE LinkUp
      BY <3>1, <3>2, <2>1, <2>3, PutRefines DEF Lossy!Next
    <3>3. CASE ~LinkUp
      BY <3>3, <2>3, NotUp
    <3> QED
      BY <3>2, <3>3
  <2> QED
    BY <2>4, <2>5
<1>2. ASSUME NEW t \in Senders, Recheck(t)  PROVE Lossy!Next \/ UNCHANGED Lossy!vars
  <2>1. UNCHANGED <<run, generation, sending, wire>> /\ waiting[t] # NoFrame
    BY <1>2 DEF Recheck
  <2>2. CASE t = HelloTask
    <3>1. CASE run = "stopped"
      BY <2>1, <3>1, NotUp DEF LinkUp
    <3>2. CASE run # "stopped"
      <4>1. run = "greeting" /\ ~Fits(HelloTask) /\ ~closed
        BY <2>1, <2>2, <3>2 DEF LinkInv, HelloStuck, StoppedIsClosed, Fits
      <4>2. waiting' = waiting
        BY <1>2, <2>2, <4>1 DEF Recheck
      <4> QED
        BY <4>1, <4>2, <2>1, <2>2, NotUp DEF LinkUp
    <3> QED
      BY <3>1, <3>2
  <2>3. CASE t # HelloTask
    <3>1. waiting'[HelloTask] = waiting[HelloTask]
      BY <1>0, <1>2, <2>3 DEF Recheck
    <3>2. LinkUp' = LinkUp
      BY <2>1, <3>1 DEF LinkUp
    <3>3. CASE ~closed /\ Fits(t) /\ LinkUp
      <4> DEFINE f == waiting[t]
      <4>1. f \in Framed /\ f.by \in Producers
        BY <1>0, <2>1, <2>3 DEF LinkInv, FramesDated, Senders
      <4>2. Enqueues(f)
        BY <1>2, <3>3 DEF Recheck
      <4> HIDE DEF f
      <4> QED
        BY <4>1, <4>2, <2>1, <3>2, <3>3, PutRefines DEF Lossy!Next
    <3>4. CASE ~LinkUp
      BY <3>2, <3>4, NotUp
    <3>5. CASE ~(~closed /\ Fits(t))
      <4>1. queue' = queue
        BY <1>2, <3>5 DEF Recheck
      <4> QED
        BY <4>1, <2>1, <3>2, NothingMoves
    <3> QED
      BY <3>3, <3>4, <3>5
  <2> QED
    BY <2>2, <2>3
<1>3. ASSUME Connect  PROVE Lossy!Next \/ UNCHANGED Lossy!vars
  <2> DEFINE f == [by |-> HelloTask, gen |-> generation']
  <2>1. f \in Framed /\ f.gen = generation' /\ f.by = HelloTask /\ f # NoFrame
        /\ generation' = generation + 1 /\ run' = "greeting" /\ ~LinkUp /\ sending' = NoFrame
        /\ wire' = <<>>
    BY <1>3, <1>0 DEF Connect, Framed, NoFrame, LinkUp, LinkInv, SendsCurrent
  <2>2. CASE Fits(HelloTask)
    <3>1. queue' = Append(queue, f) /\ waiting' = waiting
      BY <1>3, <2>2 DEF Connect, Puts, Enqueues
    <3>2. LinkUp'
      BY <1>3, <2>1, <3>1 DEF Connect, LinkUp, LinkInv, HelloStuck
    <3>3. \A i \in 1..Len(queue) : queue[i].gen # generation'
      BY <1>0, <2>1 DEF LinkInv, FramesDated, Dated
    <3>4. Names(queue, generation') = <<>>
      BY <1>0, <3>3, NamesNone
    <3> HIDE DEF f
    <3>5. Names(queue', generation') = Append(Names(queue, generation'), HelloTask)
      BY <1>0, <2>1, <3>1, NamesAppend
    <3>6. Names(queue', generation') = <<HelloTask>>
      BY <3>4, <3>5
    <3>7. Accepted' = <<HelloTask>>
      BY <2>1, <3>2, <3>6 DEF Accepted
    <3>8. Written' = <<>>
      BY <2>1 DEF Written
    <3> QED
      BY <2>1, <3>2, <3>7, <3>8 DEF Lossy!Next, Lossy!Up
  <2>3. CASE ~Fits(HelloTask)
    <3>1. waiting'[HelloTask] = f
      BY <1>0, <1>3, <2>3 DEF Connect, Puts
    <3> QED
      BY <2>1, <3>1, NotUp DEF LinkUp
  <2> QED
    BY <2>2, <2>3
<1>4. CASE Greeted
  BY <1>4, NothingMoves DEF Greeted, LinkUp
<1>5. CASE Take
  <2>1. LinkUp /\ LinkUp' /\ UNCHANGED <<generation, wire>> /\ sending = NoFrame
        /\ queue # <<>> /\ queue' = Tail(queue)
        /\ sending' = IF Stale(Head(queue)) THEN NoFrame ELSE Head(queue)
    BY <1>5 DEF Take, LinkUp, Dequeues
  <2>2. Names(queue, generation) =
          IF Head(queue).gen = generation THEN <<Head(queue).by>> \o Names(queue', generation)
          ELSE Names(queue', generation)
    BY <1>0, <2>1, NamesTail
  <2>3. Accepted' = Accepted
    <3>1. CASE Stale(Head(queue))
      <4>1. sending' = NoFrame /\ Names(queue', generation') = Names(queue, generation)
        BY <2>1, <2>2, <3>1 DEF Stale
      <4> QED
        BY <4>1, <2>1 DEF Accepted
    <3>2. CASE ~Stale(Head(queue))
      <4>1. sending' = Head(queue) /\ Head(queue).gen = generation
        BY <2>1, <3>2 DEF Stale
      <4>2. sending' # NoFrame
        <5>1. generation >= 1
          BY <1>5 DEF Take, LinkInv, OpenIsDated, LinkOpen
        <5> QED
          BY <4>1, <5>1, <1>0 DEF NoFrame
      <4>3. Accepted' = <<sending'.by>> \o Names(queue', generation')
        BY <4>2, <2>1 DEF Accepted
      <4>4. Accepted = Names(queue, generation)
        BY <2>1, AcceptedShape
      <4> QED
        BY <4>1, <4>3, <4>4, <2>1, <2>2
    <3> QED
      BY <3>1, <3>2
  <2>4. Written' = Written
    BY <2>1 DEF Written
  <2> QED
    BY <2>1, <2>3, <2>4 DEF Lossy!vars
<1>6. CASE Write
  <2>1. LinkUp /\ LinkUp' /\ UNCHANGED <<generation, queue>> /\ sending # NoFrame
        /\ sending' = NoFrame /\ wire' = Append(wire, sending)
    BY <1>6 DEF Write, LinkUp
  <2>2. Accepted = <<sending.by>> \o Names(queue, generation) /\ Names(queue, generation) \in Seq(Senders)
        /\ sending.by \in Senders
    BY <2>1, AcceptedShape
  <2>3. Accepted' = Names(queue, generation)
    <3>1. Accepted' = <<>> \o Names(queue, generation)
      BY <2>1 DEF Accepted
    <3> QED
      BY <3>1, <2>2, ConcatEmptySeq
  <2>4. Accepted # <<>> /\ Head(Accepted) = sending.by /\ Tail(Accepted) = Names(queue, generation)
    BY <2>2
  <2>5. Written' = Append(Written, sending.by)
    <3>1. wire \in Seq(Framed) /\ sending \in Framed
      BY DEF LinkInv, LinkTypeOK
    <3>2. Written = [i \in 1..Len(wire) |-> wire[i].by]
          /\ Written' = [i \in 1..Len(wire') |-> wire'[i].by]
      BY <2>1 DEF Written
    <3>3. Len(wire') = Len(wire) + 1 /\ Len(wire) \in Nat /\ wire'[Len(wire) + 1] = sending
          /\ \A i \in 1..Len(wire) : wire'[i] = wire[i]
      BY <2>1, <3>1
    <3>4. Append(Written, sending.by)
            = [i \in 1..(Len(wire) + 1) |-> IF i = Len(wire) + 1 THEN sending.by ELSE wire[i].by]
      BY <3>2, <3>3
    <3> QED
      BY <3>2, <3>3, <3>4
  <2> QED
    BY <2>1, <2>3, <2>4, <2>5 DEF Lossy!Next, Lossy!Write
<1>7. CASE Receive
  BY <1>7, NothingMoves DEF Receive, LinkUp
<1>8. CASE Incoming
  BY <1>8, NothingMoves DEF Incoming, LinkUp
<1>9. CASE SocketDies
  BY <1>9, NothingMoves DEF SocketDies, LinkUp
<1>10. CASE LinkLost
  <2>1. LinkUp /\ ~LinkUp'
    BY <1>10 DEF LinkLost, LinkUp
  <2> QED
    BY <2>1 DEF Lossy!Next, Lossy!Down, Accepted, Written
<1>11. CASE Drain
  BY <1>11, NotUp DEF Drain, LinkUp
<1>12. CASE StopTransport
  <2>1. ~LinkUp'
    BY <1>12 DEF StopTransport, LinkUp
  <2>2. CASE LinkUp
    BY <2>1, <2>2 DEF Lossy!Next, Lossy!Down, Accepted, Written
  <2>3. CASE ~LinkUp
    BY <2>1, <2>3, NotUp
  <2> QED
    BY <2>2, <2>3
<1>13. CASE UNCHANGED linkVars
  BY <1>13, NothingMoves DEF linkVars, LinkUp
<1> QED
  BY <1>1, <1>2, <1>3, <1>4, <1>5, <1>6, <1>7, <1>8, <1>9, <1>10, <1>11, <1>12, <1>13 DEF LinkNext

(* The transport is the lossy FIFO that the reconnect models use, for every  *)
(* queue and every order of losses: a frame of an earlier link is not written *)
(* on a later one, nothing is written twice or out of order, and the hello is *)
(* in front (transport.py:5-8, 157-163, 212).  HelloStuck is what makes the  *)
(* invariant inductive: a hello that has to wait is never sent, because only *)
(* the sender that it holds up would make room.                              *)
THEOREM LinkRefines == LinkSpec => LinkIsLossyFifo
<1>1. LinkSpec => []LinkInv
  BY InitInv, StepInv, PTL DEF LinkSpec
<1> QED
  BY <1>1, RefInit, RefStep, PTL DEF LinkSpec, LinkIsLossyFifo, Lossy!Spec
=============================================================================
