---------------------------- MODULE CronScheduler ----------------------------
(***************************************************************************)
(* The cron scheduler and the other writers of the cron state store:       *)
(*   - scheduler processes, each looping over run_loop / tick;             *)
(*   - manual runs, each one call of run_job_now (Admin "run now");        *)
(*   - Admin requests that create, enable, disable or delete a job.        *)
(* They share the Admin configuration and a store with one row per job     *)
(* (MysqlCronStateStore).  Reading a row and saving it are separate        *)
(* statements, so every read-modify-write of the code is two steps here    *)
(* and a row held in memory may be stale when it is saved back.  Times are *)
(* natural numbers; NextFire abstracts the schedule, Backoff the retry     *)
(* delay.                                                                  *)
(*                                                                         *)
(* A definition named Op_Suffix is a faulty form of Op, kept to see that   *)
(* the properties notice it; the specification does not use it.            *)
(***************************************************************************)
EXTENDS Integers, FiniteSets

CONSTANTS
    Jobs,               \* job ids
    Schedulers,         \* scheduler processes
    Manuals,            \* manual runs: each calls run_job_now once
    Admins,             \* Admin requests: each changes one job once
    NoRow,              \* the store has no row for the job
    NextFire(_, _),     \* NextFire(j, t): next fire time of j's schedule after t
    Backoff(_),         \* Backoff(n): delay before the retry after n failures
    MaxAttempts,        \* retry_policy.max_attempts in a scheduler (--retries)
    MaxConcurrentRuns,  \* max_concurrent_runs of every job
    StaleAfter,         \* stale_after_seconds of every job
    GuardWindow,        \* the 5 s double-run guard of run_job_now
    RunImmediately,     \* --run-immediately
    MaxTime,            \* bound on the clock
    MaxFaults           \* bound on crashes and store errors

NoTime == -1
Procs  == Schedulers \cup Manuals \cup Admins

CronJobStatus == {"idle", "running", "succeeded", "failed", "disabled"}
JobRunStatus  == {"succeeded", "failed", "skipped"}
ConfigValue   == {"enabled", "disabled", "absent"}

Row == [status   : CronJobStatus,
        running  : Nat,                     \* running_count
        failures : Nat,                     \* consecutive_failures
        runs     : Nat,                     \* run_count
        started  : Nat \cup {NoTime},       \* last_started_at
        next     : Nat \cup {NoTime}]       \* next_run_at

ASSUME CronAssumption ==
    /\ Jobs # {}
    /\ Schedulers \cap Manuals = {} /\ Schedulers \cap Admins = {}
    /\ Manuals \cap Admins = {} /\ IsFiniteSet(Procs)
    /\ NoRow \notin Row
    /\ \A j \in Jobs, t \in 0..MaxTime : NextFire(j, t) \in Nat /\ NextFire(j, t) > t
    /\ \A n \in 1..MaxAttempts - 1 : Backoff(n) \in Nat
    /\ MaxAttempts \in Nat \ {0} /\ MaxConcurrentRuns \in Nat \ {0}
    /\ StaleAfter \in Nat \ {0} /\ GuardWindow \in Nat
    /\ RunImmediately \in BOOLEAN
    /\ MaxTime \in Nat /\ MaxFaults \in Nat

VARIABLES
    clock,    \* the current time
    config,   \* Admin configuration of each job
    db,       \* the cron_job_states table
    history,  \* number of rows of the cron_job_runs table, per job
    pc,       \* what each process does next
    frame,    \* local variables of each process
    first,    \* run_loop's first_tick of each scheduler
    faults    \* crashes and store errors so far

vars == <<clock, config, db, history, pc, frame, first, faults>>

Labels == {"down", "idle", "clear", "mark", "markSave", "tick", "create",
           "judge", "exec", "append", "skip", "toggle", "toggleSave", "done"}

Frame == [job    : Jobs,            \* the job being handled
          row    : Row,             \* its state object, as last read
          now    : 0..MaxTime,      \* `current` of the tick
          loaded : SUBSET Jobs,     \* jobs of the configuration it read
          plan   : SUBSET Jobs,     \* those of them that are enabled
          todo   : SUBSET Jobs]     \* those not handled yet

-----------------------------------------------------------------------------
(* CronJobState objects and the functions that change them. *)

BlankRow == [status |-> "idle", running |-> 0, failures |-> 0, runs |-> 0,
             started |-> NoTime, next |-> NoTime]

FreshRow(j, t) == [BlankRow EXCEPT !.next = NextFire(j, t)]

ReadRow(j) == IF db[j] = NoRow THEN BlankRow ELSE db[j]

IsStale(r, t) == r.status = "running" /\ r.started # NoTime
                                      /\ r.started + StaleAfter <= t

RecoverStaleRunning_Never(r, t) == r

RecoverStaleRunning(r, t) ==
    IF IsStale(r, t)
    THEN [r EXCEPT !.status = "failed", !.running = 0, !.failures = @ + 1]
    ELSE r

IsDue(r, t) == r.next # NoTime /\ r.next <= t

CanStart(r) == r.running < MaxConcurrentRuns

MarkStarted(r, t) ==
    [r EXCEPT !.status = "running", !.started = t, !.running = @ + 1]

Released_Kept(r) == r.running

Released(r) == IF r.running = 0 THEN 0 ELSE r.running - 1

\* A manual run builds its job with retries = 1.
Attempts(p) == IF p \in Manuals THEN 1 ELSE MaxAttempts

CanRetry(p, n) == n < Attempts(p)

NextRetryAt(n, t) == t + Backoff(n)

StatusAfter(outcome) == IF outcome = "skipped" THEN "idle" ELSE outcome

MarkFinished(p, j, r, outcome, t) ==
    LET failures == CASE outcome = "succeeded" -> 0
                      [] outcome = "failed"    -> r.failures + 1
                      [] outcome = "skipped"   -> r.failures
    IN  [r EXCEPT !.status = StatusAfter(outcome), !.running = Released(r),
                  !.failures = failures, !.runs = @ + 1,
                  !.next = IF outcome = "failed" /\ CanRetry(p, failures)
                           THEN NextRetryAt(failures, t) ELSE NextFire(j, t)]

MarkJobDue(r, t) ==
    [r EXCEPT !.status = IF @ = "running" THEN @ ELSE "idle", !.next = t]

ClearStuck(r) == [r EXCEPT !.status = "idle", !.running = 0]

Toggled_ConfigValue(r, value) == [r EXCEPT !.status = value]

Toggled(r, value) ==
    [r EXCEPT !.status = IF value = "disabled" THEN "disabled" ELSE "idle"]

EmptyFrame == [job |-> CHOOSE j \in Jobs : TRUE, row |-> BlankRow, now |-> 0,
               loaded |-> {}, plan |-> {}, todo |-> {}]

-----------------------------------------------------------------------------
Goto(p, label) == pc' = [pc EXCEPT ![p] = label]

SetFrame(p, f) == frame' = [frame EXCEPT ![p] = f]

\* A call returns and its local variables are gone.
Return(p, label) == Goto(p, label) /\ SetFrame(p, EmptyFrame)

Save(j, r) == db' = [db EXCEPT ![j] = r]

\* A row that is not read again is forgotten.
Forget(p) == [frame[p] EXCEPT !.row = BlankRow]

\* The loop of a tick goes on to its next job.
NextJob(p) ==
    /\ Goto(p, "tick")
    /\ SetFrame(p, [Forget(p) EXCEPT !.todo = @ \ {frame[p].job},
                                     !.job = EmptyFrame.job])

\* _run_scheduler_tick: read the clock and the configuration.
BeginTick(p) ==
    LET all     == {j \in Jobs : config[j] # "absent"}
        enabled == {j \in Jobs : config[j] = "enabled"}
        marking == RunImmediately /\ first[p] /\ enabled # {}
    IN  /\ pc[p] = "idle" /\ p \in Schedulers
        /\ Goto(p, IF marking THEN "mark" ELSE "tick")
        /\ SetFrame(p, [frame[p] EXCEPT
              !.now = clock, !.loaded = all, !.plan = enabled,
              !.todo = IF marking THEN enabled ELSE all])
        /\ UNCHANGED <<clock, config, db, history, first, faults>>

\* run_job_now reads the row: refuse, clear a stuck run, or mark the job due.
ManualRun(p, j) ==
    LET r      == ReadRow(j)
        recent == r.started # NoTime /\ clock - r.started < GuardWindow
    IN  /\ pc[p] = "idle" /\ p \in Manuals
        /\ config[j] # "absent"
        /\ Goto(p, IF r.status # "running" THEN "mark"
                   ELSE IF recent THEN "skip" ELSE "clear")
        /\ SetFrame(p, [job |-> j, now |-> clock,
                        row |-> IF r.status = "running" THEN r ELSE BlankRow,
                        loaded |-> {j}, plan |-> {j}, todo |-> {j}])
        /\ UNCHANGED <<clock, config, db, history, first, faults>>

ManualClear(p) ==
    /\ pc[p] = "clear"
    /\ Save(frame[p].job, ClearStuck(frame[p].row))
    /\ Goto(p, "mark")
    /\ SetFrame(p, Forget(p))
    /\ UNCHANGED <<clock, config, history, first, faults>>

\* The SKIPPED result of a manual run that did not execute.
ManualSkip(p) ==
    /\ pc[p] = "skip"
    /\ history' = [history EXCEPT ![frame[p].job] = @ + 1]
    /\ Return(p, "done")
    /\ UNCHANGED <<clock, config, db, first, faults>>

\* _mark_job_due: read the row, then save it with next_run_at = now.
MarkRead(p, j) ==
    /\ pc[p] = "mark" /\ j \in frame[p].todo
    /\ Goto(p, "markSave")
    /\ SetFrame(p, [frame[p] EXCEPT !.job = j, !.row = ReadRow(j)])
    /\ UNCHANGED <<clock, config, db, history, first, faults>>

MarkSave(p) ==
    LET left == frame[p].todo \ {frame[p].job}
    IN  /\ pc[p] = "markSave"
        /\ Save(frame[p].job, MarkJobDue(frame[p].row, frame[p].now))
        /\ Goto(p, IF left = {} THEN "tick" ELSE "mark")
        /\ SetFrame(p, [Forget(p) EXCEPT
              !.todo = IF left = {} THEN frame[p].loaded ELSE left])
        /\ UNCHANGED <<clock, config, history, first, faults>>

\* _state_for: read the row, or make one and save it.
TickRead(p, j) ==
    /\ pc[p] = "tick" /\ j \in frame[p].todo
    /\ Goto(p, IF db[j] = NoRow THEN "create" ELSE "judge")
    /\ SetFrame(p, [frame[p] EXCEPT !.job = j,
          !.row = IF db[j] = NoRow THEN FreshRow(j, frame[p].now) ELSE db[j]])
    /\ UNCHANGED <<clock, config, db, history, first, faults>>

TickCreate(p) ==
    /\ pc[p] = "create"
    /\ Save(frame[p].job, frame[p].row)
    /\ Goto(p, "judge")
    /\ UNCHANGED <<clock, config, history, frame, first, faults>>

\* The body of tick for one job: recover, then save the row and pass it over ...
Recovered(p) == RecoverStaleRunning(frame[p].row, frame[p].now)

Startable(p) ==
    /\ frame[p].job \in frame[p].plan
    /\ IsDue(Recovered(p), frame[p].now)
    /\ CanStart(Recovered(p))

PassOver_DisabledUnsaved(p) ==
    /\ pc[p] = "judge" /\ ~Startable(p)
    /\ IF frame[p].job \in frame[p].plan
       THEN Save(frame[p].job, Recovered(p)) ELSE UNCHANGED db
    /\ IF p \in Manuals
       THEN Goto(p, "skip") /\ SetFrame(p, Forget(p))
       ELSE NextJob(p)
    /\ UNCHANGED <<clock, config, history, first, faults>>

PassOver(p) ==
    /\ pc[p] = "judge" /\ ~Startable(p)
    /\ Save(frame[p].job,
            IF frame[p].job \in frame[p].plan THEN Recovered(p)
            ELSE [Recovered(p) EXCEPT !.status = "disabled"])
    /\ IF p \in Manuals
       THEN Goto(p, "skip") /\ SetFrame(p, Forget(p))
       ELSE NextJob(p)
    /\ UNCHANGED <<clock, config, history, first, faults>>

\* ... or claim a slot and call the executor.
StartRun(p) ==
    LET r == MarkStarted(Recovered(p), frame[p].now)
    IN  /\ pc[p] = "judge" /\ Startable(p)
        /\ Save(frame[p].job, r)
        /\ Goto(p, "exec")
        /\ SetFrame(p, [frame[p] EXCEPT !.row = r])
        /\ UNCHANGED <<clock, config, history, first, faults>>

\* The executor returns (an exception counts as "failed").  The object held
\* since the tick read it is saved whole.
FinishRun(p, outcome) ==
    /\ pc[p] = "exec"
    /\ Save(frame[p].job,
            MarkFinished(p, frame[p].job, frame[p].row, outcome, clock))
    /\ Goto(p, "append")
    /\ SetFrame(p, Forget(p))
    /\ UNCHANGED <<clock, config, history, first, faults>>

AppendRun_Forgotten(p) ==
    /\ pc[p] = "append"
    /\ IF p \in Manuals THEN Return(p, "done") ELSE NextJob(p)
    /\ UNCHANGED <<clock, config, db, history, first, faults>>

AppendRun(p) ==
    /\ pc[p] = "append"
    /\ history' = [history EXCEPT ![frame[p].job] = @ + 1]
    /\ IF p \in Manuals THEN Return(p, "done") ELSE NextJob(p)
    /\ UNCHANGED <<clock, config, db, first, faults>>

EndTick(p) ==
    /\ pc[p] = "tick" /\ frame[p].todo = {}
    /\ Return(p, "idle")
    /\ first' = [first EXCEPT ![p] = FALSE]
    /\ UNCHANGED <<clock, config, db, history, faults>>

\* Admin writes the configuration of a job: POST creates (or replaces) it and
\* DELETE removes it, both leaving its row alone ...
AdminCreateDelete(p, j, value) ==
    /\ pc[p] = "idle" /\ p \in Admins
    /\ value = "absent" => config[j] # "absent"
    /\ config' = [config EXCEPT ![j] = value]
    /\ Goto(p, "done")
    /\ UNCHANGED <<clock, db, history, frame, first, faults>>

\* ... and PUT "enabled" goes on to read the row and to save its new status.
AdminUpdate(p, j, value) ==
    /\ pc[p] = "idle" /\ p \in Admins
    /\ config[j] # "absent" /\ value # "absent"
    /\ config' = [config EXCEPT ![j] = value]
    /\ Goto(p, "toggle")
    /\ SetFrame(p, [frame[p] EXCEPT !.job = j,
          !.plan = IF value = "enabled" THEN {j} ELSE {}])
    /\ UNCHANGED <<clock, db, history, first, faults>>

ToggleRead(p) ==
    /\ pc[p] = "toggle"
    /\ Goto(p, "toggleSave")
    /\ SetFrame(p, [frame[p] EXCEPT !.row = ReadRow(frame[p].job)])
    /\ UNCHANGED <<clock, config, db, history, first, faults>>

ToggleSave(p) ==
    LET j == frame[p].job
    IN  /\ pc[p] = "toggleSave"
        /\ Save(j, Toggled(frame[p].row,
                           IF j \in frame[p].plan THEN "enabled" ELSE "disabled"))
        /\ Return(p, "done")
        /\ UNCHANGED <<clock, config, history, first, faults>>

\* A process dies between two statements; its container restarts a scheduler.
Crash(p) ==
    /\ faults < MaxFaults /\ faults' = faults + 1
    /\ pc[p] \notin {"idle", "down", "done"}
    /\ Return(p, IF p \in Schedulers THEN "down" ELSE "done")
    /\ UNCHANGED <<clock, config, db, history, first>>

Restart(p) ==
    /\ pc[p] = "down"
    /\ Goto(p, "idle")
    /\ first' = [first EXCEPT ![p] = TRUE]
    /\ UNCHANGED <<clock, config, db, history, frame, faults>>

\* The store raises and run_loop tries the tick again.
TickFails(p) ==
    /\ faults < MaxFaults /\ faults' = faults + 1
    /\ p \in Schedulers /\ pc[p] \notin {"idle", "down"}
    /\ Return(p, "idle")
    /\ UNCHANGED <<clock, config, db, history, first>>

Tick ==
    /\ clock < MaxTime
    /\ clock' = clock + 1
    /\ UNCHANGED <<config, db, history, pc, frame, first, faults>>

-----------------------------------------------------------------------------
Init ==
    /\ clock = 0
    /\ config \in [Jobs -> ConfigValue]
    /\ db = [j \in Jobs |-> NoRow]
    /\ history = [j \in Jobs |-> 0]
    /\ pc = [p \in Procs |-> "idle"]
    /\ frame = [p \in Procs |-> EmptyFrame]
    /\ first = [p \in Schedulers |-> TRUE]
    /\ faults = 0

\* The statements of a process, in the order it reaches them.
Step(p) ==
    \/ BeginTick(p) \/ EndTick(p) \/ Restart(p)
    \/ \E j \in Jobs : MarkRead(p, j) \/ TickRead(p, j)
    \/ ManualClear(p) \/ ManualSkip(p) \/ MarkSave(p)
    \/ TickCreate(p) \/ PassOver(p) \/ StartRun(p)
    \/ \E outcome \in JobRunStatus : FinishRun(p, outcome)
    \/ AppendRun(p) \/ ToggleRead(p) \/ ToggleSave(p)

Request(p) ==
    \/ \E j \in Jobs : ManualRun(p, j)
    \/ \E j \in Jobs, value \in ConfigValue :
           AdminCreateDelete(p, j, value) \/ AdminUpdate(p, j, value)

Next ==
    \/ \E p \in Procs : Step(p) \/ Request(p) \/ Crash(p) \/ TickFails(p)
    \/ Tick

Spec == Init /\ [][Next]_vars

\* Time passes, started calls go on, executors return (git and HTTP calls have
\* timeouts) and docker-compose restarts a scheduler ("unless-stopped").
FairSpec == Spec /\ WF_vars(Tick) /\ \A p \in Procs : WF_vars(Step(p))
-----------------------------------------------------------------------------
(* Properties. *)

\* Every variable keeps its type: rows are those CronJobState validates.
TypeOK ==
    /\ clock \in 0..MaxTime
    /\ config \in [Jobs -> ConfigValue]
    /\ db \in [Jobs -> Row \cup {NoRow}]
    /\ history \in [Jobs -> Nat]
    /\ pc \in [Procs -> Labels]
    /\ frame \in [Procs -> Frame]
    /\ first \in [Schedulers -> BOOLEAN]
    /\ faults \in Nat

Stored(j) == db[j] # NoRow

DueNow(j)     == Stored(j) /\ IsDue(db[j], clock)
RunningNow(j) == Stored(j) /\ db[j].status = "running"
StaleNow(j)   == Stored(j) /\ IsStale(db[j], clock)

Executing(j) == {p \in Procs : pc[p] = "exec" /\ frame[p].job = j}

\* A slot is taken by a row that does not say "running": recover_stale_running
\* and run_job_now only ever free the slots of "running" rows.
Wedged(j) == Stored(j) /\ db[j].status # "running" /\ ~CanStart(db[j])

\* Whatever stale rows are written back, a stored row that says "running" holds
\* at least one slot, at most max_concurrent_runs of them, and has the start
\* time recover_stale_running needs to free it after a crash.
RunningRowRecoverable ==
    \A j \in Jobs : Stored(j) =>
        /\ db[j].running <= MaxConcurrentRuns
        /\ db[j].status = "running" => db[j].running > 0 /\ db[j].started # NoTime

\* A row that records the result of a run, finished or recovered, always leaves
\* a slot for the next one: no result row is ever refused by can_start.
SettledRowFreesSlot ==
    \A j \in Jobs : Stored(j) /\ db[j].status \in {"succeeded", "failed"}
                     => CanStart(db[j])

\* Both: no interleaving of saves leaves a row from which its job cannot go on.
RowsStayUsable == RunningRowRecoverable /\ SettledRowFreesSlot

\* run_count never claims runs the run history does not have, but for results
\* being appended and those a crash kept from being appended.
RunCountBacked ==
    \A j \in Jobs : Stored(j) =>
        db[j].runs <= history[j] + faults
            + Cardinality({p \in Procs : pc[p] = "append" /\ frame[p].job = j})

\* An enabled job that is due, is not claimed by a live or recent run and is not
\* wedged never stays that way: some tick starts it.
Neglected(j) ==
    /\ config[j] = "enabled" /\ DueNow(j) /\ Executing(j) = {}
    /\ RunningNow(j) => StaleNow(j)
    /\ ~Wedged(j)

DueJobStarts == \A j \in Jobs : ~<>[]Neglected(j)

\* The row of a run that died is taken over once stale_after_seconds have passed,
\* as long as the job stays configured.
DeadRunRecovered ==
    \A j \in Jobs :
        ~<>[](StaleNow(j) /\ Executing(j) = {} /\ config[j] # "absent")

\* Both: a job goes on, whoever died or was interrupted.
JobsGoOn == DueJobStarts /\ DeadRunRecovered

\* A job that stays disabled ends up with a row that says so for good, whatever
\* late results of runs or stale rows were written over it.
DisabledJobSettles ==
    \A j \in Jobs : <>[](config[j] = "disabled")
                     => <>[](Stored(j) /\ db[j].status = "disabled")

(* What the documents and comments say and the code does not do. *)

\* 13-cron-scheduler.md: a tick refused by can_start is tried again by the next.
RefusedJobRunsLater ==
    \A j \in Jobs :
        (config[j] = "enabled" /\ DueNow(j) /\ ~CanStart(db[j]))
        ~> (Executing(j) # {} \/ config[j] # "enabled")

=============================================================================
