---------------------------- MODULE TaskRuntime ----------------------------
(***************************************************************************)
(* Workers and submitters around one persistent task store.                *)
(*                                                                         *)
(* A worker loops over run_once; a submitter is one call of the replay     *)
(* handler of a cron job, which submits a task and calls run_once itself.  *)
(* run_once takes a task id from the queue of its process or, when that is *)
(* empty, the oldest pending task of the store, whoever submitted it.      *)
(* Nothing claims a task: taking its id, reading its record and saving it  *)
(* as running are separate statements.                                     *)
(*                                                                         *)
(* A definition named Op_Suffix is a faulty form of Op, kept to see that   *)
(* the properties notice it; the specification does not use it.            *)
(***************************************************************************)
EXTENDS Integers, Sequences, FiniteSets

CONSTANTS
    Tasks,       \* task ids
    Workers,     \* worker processes
    Submitters,  \* calls of the replay handler: each submits one task
    SeedDemo,    \* --seed-demo: a worker submits a task when it starts
    NoTask,      \* no task; also: the store has no record of the task
    MaxFaults    \* bound on crashes

Procs == Workers \cup Submitters

TaskStatus == {"pending", "running", "completed", "failed"}
Outcomes   == {"completed", "failed", "raised"}

\* A task record: its status and whose execution wrote result_ref.
Record == [status : TaskStatus, result : Procs \cup {NoTask}]

ASSUME TaskAssumption ==
    /\ Workers \cap Submitters = {}
    /\ NoTask \notin Tasks /\ NoTask \notin Procs /\ NoTask \notin Record
    /\ SeedDemo \in BOOLEAN /\ MaxFaults \in Nat

VARIABLES
    store,    \* the tasks table
    created,  \* the tasks of the store by created_at
    queue,    \* TaskQueue of each process
    pc,       \* what each process does next
    task,     \* the task each process handles
    held,     \* the TaskRecord object it holds
    runs,     \* executions of each task by each process
    faults    \* crashes so far

vars == <<store, created, queue, pc, task, held, runs, faults>>

Labels == {"start", "idle", "get", "claim", "exec", "report", "down", "done"}

NewTask == [status |-> "pending", result |-> NoTask]

Known   == {t \in Tasks : store[t] # NoTask}
Pending == {t \in Known : store[t].status = "pending"}

-----------------------------------------------------------------------------
Goto(p, label) == pc' = [pc EXCEPT ![p] = label]

Save(t, record) == store' = [store EXCEPT ![t] = record]

\* A submitter calls run_once once; a worker process that ends is restarted.
Ended(p) == IF p \in Workers THEN "down" ELSE "done"

\* _next_pending_task_id: the oldest pending task.
IsOldest(t, ts) ==
    \E i \in DOMAIN created :
        /\ created[i] = t /\ t \in ts
        /\ \A k \in 1..i - 1 : created[k] \notin ts

\* submit: save a pending record, then queue its id.
Submit(p, t) ==
    /\ pc[p] = "start" /\ (p \in Submitters \/ SeedDemo)
    /\ t \notin Known
    /\ Save(t, NewTask)
    /\ created' = Append(created, t)
    /\ queue' = [queue EXCEPT ![p] = Append(@, t)]
    /\ Goto(p, "idle")
    /\ UNCHANGED <<task, held, runs, faults>>

\* A worker enters its loop.
EnterLoop(p) ==
    /\ pc[p] = "start" /\ p \in Workers
    /\ SeedDemo => Known = Tasks
    /\ Goto(p, "idle")
    /\ UNCHANGED <<store, created, queue, task, held, runs, faults>>

\* run_once: the first id of the queue, or the oldest pending task.
Take_QueueOnly(p) ==
    /\ pc[p] = "idle"
    /\ queue[p] # <<>>
    /\ task' = [task EXCEPT ![p] = Head(queue[p])]
    /\ queue' = [queue EXCEPT ![p] = Tail(@)]
    /\ Goto(p, "get")
    /\ UNCHANGED <<store, created, held, runs, faults>>

Take(p) ==
    /\ pc[p] = "idle"
    /\ IF queue[p] # <<>>
       THEN /\ task' = [task EXCEPT ![p] = Head(queue[p])]
            /\ queue' = [queue EXCEPT ![p] = Tail(@)]
       ELSE /\ \E t \in Pending : IsOldest(t, Pending) /\ task' = [task EXCEPT ![p] = t]
            /\ UNCHANGED queue
    /\ Goto(p, "get")
    /\ UNCHANGED <<store, created, held, runs, faults>>

\* execute: read the record ...
Get(p) ==
    /\ pc[p] = "get"
    /\ held' = [held EXCEPT ![p] = store[task[p]]]
    /\ Goto(p, "claim")
    /\ UNCHANGED <<store, created, queue, task, runs, faults>>

\* ... save it as running, and run it ...
Claim(p) ==
    LET record == [held[p] EXCEPT !.status = "running"]
    IN  /\ pc[p] = "claim"
        /\ Save(task[p], record)
        /\ held' = [held EXCEPT ![p] = record]
        /\ runs' = [runs EXCEPT ![p][task[p]] = @ + 1]
        /\ Goto(p, "exec")
        /\ UNCHANGED <<created, queue, task, faults>>

\* ... and save its result, or the failure of an execution that raised.
Finished_RaiseUnsaved(p, outcome) ==
    IF outcome = "raised" THEN held[p]
    ELSE [status |-> outcome, result |-> p]

Finished_Unmapped(p, outcome) == [status |-> outcome, result |-> p]

Finished(p, outcome) ==
    IF outcome = "raised" THEN [held[p] EXCEPT !.status = "failed"]
    ELSE [status |-> outcome, result |-> p]

Finish(p, outcome) ==
    LET record == Finished(p, outcome)
    IN  /\ pc[p] = "exec"
        /\ Save(task[p], record)
        /\ held' = [held EXCEPT ![p] = record]
        /\ Goto(p, IF outcome = "raised" THEN Ended(p) ELSE "report")
        /\ queue' = IF outcome = "raised" THEN [queue EXCEPT ![p] = <<>>] ELSE queue
        /\ UNCHANGED <<created, task, runs, faults>>

\* run_once returns the record as the store has it now.  The loop of a worker
\* ends on a task that is not completed.
Report(p) ==
    LET status == store[task[p]].status
    IN  /\ pc[p] = "report"
        /\ Goto(p, IF p \in Workers /\ status = "completed" THEN "idle" ELSE Ended(p))
        /\ queue' = IF p \in Workers /\ status = "completed" THEN queue
                    ELSE [queue EXCEPT ![p] = <<>>]
        /\ UNCHANGED <<store, created, task, held, runs, faults>>

Crash(p) ==
    /\ faults < MaxFaults /\ faults' = faults + 1
    /\ pc[p] \notin {"down", "done"}
    /\ Goto(p, Ended(p))
    /\ queue' = [queue EXCEPT ![p] = <<>>]
    /\ UNCHANGED <<store, created, task, held, runs>>

Restart(p) ==
    /\ pc[p] = "down"
    /\ Goto(p, "start")
    /\ UNCHANGED <<store, created, queue, task, held, runs, faults>>

-----------------------------------------------------------------------------
Init ==
    /\ store = [t \in Tasks |-> NoTask]
    /\ created = <<>>
    /\ queue = [p \in Procs |-> <<>>]
    /\ pc = [p \in Procs |-> "start"]
    /\ task = [p \in Procs |-> NoTask]
    /\ held = [p \in Procs |-> NewTask]
    /\ runs = [p \in Procs |-> [t \in Tasks |-> 0]]
    /\ faults = 0

Step(p) ==
    \/ EnterLoop(p) \/ Take(p) \/ Get(p) \/ Claim(p) \/ Report(p) \/ Restart(p)
    \/ \E outcome \in Outcomes : Finish(p, outcome)

Next ==
    \E p \in Procs :
        \/ Step(p) \/ Crash(p)
        \/ \E t \in Tasks : Submit(p, t)

Spec == Init /\ [][Next]_vars

\* Executions end (their calls have timeouts) and docker-compose restarts a
\* worker ("unless-stopped").
FairSpec ==
    Spec /\ \A p \in Workers : WF_vars(Step(p) \/ \E t \in Tasks : Submit(p, t))
-----------------------------------------------------------------------------
(* Properties. *)

\* Every variable keeps its type: a stored record has a status of TaskStatus.
TypeOK ==
    /\ store \in [Tasks -> Record \cup {NoTask}]
    /\ created \in Seq(Tasks)
    /\ queue \in [Procs -> Seq(Tasks)]
    /\ pc \in [Procs -> Labels]
    /\ task \in [Procs -> Tasks \cup {NoTask}]
    /\ held \in [Procs -> Record]
    /\ runs \in [Procs -> [Tasks -> Nat]]
    /\ faults \in Nat

\* However many processes take the same pending task, none of them executes a
\* task twice, over restarts too: the claims and results they save over each
\* other never make a task pending again.
OncePerProcess == \A p \in Procs, t \in Tasks : runs[p][t] <= 1

\* A task is only left running with nobody executing it by a crash: a failure is
\* saved before the exception leaves execute, and a claim that overwrites a
\* result is the claim of a process that is going to save its own.
RunningTaskExecuted ==
    \A t \in Known : store[t].status = "running" /\ faults = 0
                     => \E p \in Procs : pc[p] = "exec" /\ task[p] = t

\* A task that says it was completed has the result of an execution of it.
CompletedHasResult ==
    \A t \in Known : store[t].status = "completed"
                     => \E p \in Procs : store[t].result = p /\ runs[p][t] > 0

\* Executions of several processes leave rows that are honest about them.
ExecutionsKept == OncePerProcess /\ RunningTaskExecuted /\ CompletedHasResult

\* A pending task is taken in the end, though its submitter died before running
\* it, by a worker that crashes and restarts.
PendingTaken == \A t \in Tasks : ~<>[](t \in Pending)
=============================================================================
