------------------------- MODULE TaskRuntimeProofs -------------------------
(***************************************************************************)
(* What holds of the task store for every set of processes and tasks and   *)
(* every interleaving of their reads and saves.                            *)
(*                                                                         *)
(* OncePerProcess is not inductive: that a process does not take a task it *)
(* has executed rests on that task never being pending again (RanOnce),    *)
(* which rests on what the process holds of it between taking its id and   *)
(* saving it as running (Handling), and on its queue (Queued).             *)
(***************************************************************************)
EXTENDS TaskRuntime, TLAPS

Types ==
    /\ store \in [Tasks -> Record \cup {NoTask}]
    /\ pc \in [Procs -> Labels]
    /\ task \in [Procs -> Tasks \cup {NoTask}]
    /\ held \in [Procs -> Record]
    /\ queue \in [Procs -> Seq(Tasks)]
    /\ runs \in [Procs -> [Tasks -> {0, 1}]]

\* A task that a process executed is not pending.
RanOnce ==
    \A p \in Procs, t \in Tasks :
        runs[p][t] = 1 => store[t] # NoTask /\ store[t].status # "pending"

\* A process that has taken a task has not executed it before; one that is past
\* its claim has.
Handling ==
    \A p \in Procs :
        /\ pc[p] \in {"get", "claim"} =>
              task[p] \in Tasks /\ store[task[p]] # NoTask /\ runs[p][task[p]] = 0
        /\ pc[p] \in {"exec", "report"} =>
              task[p] \in Tasks /\ runs[p][task[p]] = 1

\* The queue of a process holds at most the task it submitted and has not taken.
Queued ==
    \A p \in Procs :
        \/ queue[p] = <<>>
        \/ /\ pc[p] = "idle"
           /\ \E t \in Tasks : queue[p] = <<t>> /\ store[t] # NoTask /\ runs[p][t] = 0

IInv == Types /\ RanOnce /\ Handling /\ Queued /\ CompletedHasResult

-----------------------------------------------------------------------------
LEMMA EmptyQueue == <<>> \in Seq(Tasks)
OBVIOUS

LEMMA InitOK == Init => IInv
<1> SUFFICES ASSUME Init
             PROVE  IInv
  OBVIOUS
<1>1. NewTask \in Record
  BY DEF NewTask, Record, TaskStatus
<1>2. Types
  BY <1>1, EmptyQueue DEF Init, Types, Labels
<1>3. RanOnce /\ Handling /\ Queued /\ CompletedHasResult
  BY DEF Init, RanOnce, Handling, Queued, CompletedHasResult, Known
<1> QED
  BY <1>2, <1>3 DEF IInv

LEMMA SubmitOK ==
    ASSUME IInv, NEW p \in Procs, NEW t \in Tasks, Submit(p, t)
    PROVE  IInv'
<1> USE DEF IInv
<1>1. queue[p] = <<>> /\ queue'[p] = <<t>>
  <2>1. queue[p] = <<>>
    BY DEF Submit, Queued
  <2>2. queue'[p] = Append(queue[p], t)
    BY DEF Submit, Types
  <2>3. Append(<<>>, t) = <<t>>
    OBVIOUS
  <2> QED
    BY <2>1, <2>2, <2>3
<1>2. store[t] = NoTask /\ \A q \in Procs : runs[q][t] = 0
  BY DEF Submit, Known, RanOnce, Types
<1>3. NewTask \in Record /\ NewTask # NoTask /\ NewTask.status = "pending"
  BY TaskAssumption DEF NewTask, Record, TaskStatus
<1>4. Types'
  <2>1. <<t>> \in Seq(Tasks) /\ queue' = [queue EXCEPT ![p] = <<t>>]
    BY <1>1 DEF Submit, Types
  <2> QED
    BY <1>3, <2>1 DEF Submit, Types, Save, Goto, Labels
<1>5. /\ \A u \in Tasks : store'[u] = IF u = t THEN NewTask ELSE store[u]
      /\ UNCHANGED runs
  BY DEF Submit, Save, Types
<1>6. RanOnce'
  BY <1>2, <1>5 DEF RanOnce, Types
<1>7. Handling'
  BY <1>2, <1>3, <1>5 DEF Submit, Handling, Goto, Types
<1>8. Queued'
  <2> SUFFICES ASSUME NEW q \in Procs
               PROVE  Queued!(q)'
    BY DEF Queued
  <2>1. CASE q = p
    BY <1>1, <1>2, <1>3, <1>5, <2>1 DEF Submit, Goto, Types
  <2>2. CASE q # p
    BY <1>3, <1>5, <2>2 DEF Submit, Goto, Types, Queued
  <2> QED
    BY <2>1, <2>2
<1>9. CompletedHasResult'
  BY <1>3, <1>5 DEF CompletedHasResult, Known, Types
<1> QED
  BY <1>4, <1>6, <1>7, <1>8, <1>9

LEMMA TakeOK ==
    ASSUME IInv, NEW p \in Procs, Take(p)
    PROVE  IInv'
<1> USE DEF IInv
<1>1. UNCHANGED <<store, runs, held>> /\ pc' = [pc EXCEPT ![p] = "get"]
  BY DEF Take, Goto
<1>2. PICK t \in Tasks : /\ task' = [task EXCEPT ![p] = t]
                         /\ store[t] # NoTask /\ runs[p][t] = 0
                         /\ queue' = [queue EXCEPT ![p] = <<>>]
  <2>1. CASE queue[p] # <<>>
    <3>1. PICK t \in Tasks : queue[p] = <<t>> /\ store[t] # NoTask /\ runs[p][t] = 0
      BY <2>1 DEF Queued
    <3>2. Head(queue[p]) = t /\ Tail(queue[p]) = <<>>
      BY <3>1
    <3> QED
      BY <2>1, <3>1, <3>2 DEF Take
  <2>2. CASE queue[p] = <<>>
    <3>1. PICK t \in Pending : task' = [task EXCEPT ![p] = t]
      BY <2>2 DEF Take
    <3>2. t \in Tasks /\ store[t] # NoTask /\ store[t].status = "pending"
      BY DEF Pending, Known
    <3>3. runs[p][t] = 0
      BY <3>2 DEF RanOnce, Types
    <3>4. queue' = [queue EXCEPT ![p] = <<>>]
      BY <2>2 DEF Take, Types
    <3> QED
      BY <3>1, <3>2, <3>3, <3>4
  <2> QED
    BY <2>1, <2>2
<1>3. Types'
  BY <1>1, <1>2, EmptyQueue DEF Types, Labels
<1>4. RanOnce' /\ CompletedHasResult'
  BY <1>1 DEF RanOnce, CompletedHasResult, Known
<1>5. Handling'
  BY <1>1, <1>2 DEF Handling, Types
<1>6. Queued'
  BY <1>1, <1>2 DEF Queued, Types
<1> QED
  BY <1>3, <1>4, <1>5, <1>6

LEMMA GetOK ==
    ASSUME IInv, NEW p \in Procs, Get(p)
    PROVE  IInv'
<1> USE DEF IInv
<1>1. store[task[p]] \in Record
  BY DEF Get, Handling, Types
<1>2. Types'
  BY <1>1 DEF Get, Goto, Types, Labels
<1>3. RanOnce' /\ CompletedHasResult'
  BY DEF Get, RanOnce, CompletedHasResult, Known
<1>4. Handling'
  BY DEF Get, Goto, Handling, Types
<1>5. Queued'
  BY DEF Get, Goto, Queued, Types
<1> QED
  BY <1>2, <1>3, <1>4, <1>5

LEMMA ClaimOK ==
    ASSUME IInv, NEW p \in Procs, Claim(p)
    PROVE  IInv'
<1> USE DEF IInv
<1> DEFINE t == task[p]
           record == [held[p] EXCEPT !.status = "running"]
<1>1. t \in Tasks /\ store[t] # NoTask /\ runs[p][t] = 0
  BY DEF Claim, Handling
<1>2. record \in Record /\ record.status = "running" /\ record # NoTask
  <2>1. held[p] \in Record
    BY DEF Types
  <2>2. record \in Record /\ record.status = "running"
    BY <2>1 DEF Record, TaskStatus
  <2> QED
    BY <2>2, TaskAssumption
<1>3. /\ store' = [store EXCEPT ![t] = record]
      /\ held' = [held EXCEPT ![p] = record]
      /\ runs' = [runs EXCEPT ![p][t] = 1]
      /\ pc' = [pc EXCEPT ![p] = "exec"] /\ pc[p] = "claim"
      /\ UNCHANGED <<queue, task>>
  BY <1>1 DEF Claim, Save, Goto, Types
<1> HIDE DEF record
<1>4. /\ \A u \in Tasks : store'[u] = IF u = t THEN record ELSE store[u]
      /\ \A q \in Procs, u \in Tasks :
            runs'[q][u] = IF q = p /\ u = t THEN 1 ELSE runs[q][u]
  BY <1>1, <1>3 DEF Types
<1>5. Types'
  BY <1>1, <1>2, <1>3 DEF Types, Labels
<1>6. RanOnce'
  BY <1>2, <1>4 DEF RanOnce
<1>7. Handling'
  BY <1>1, <1>2, <1>3, <1>4 DEF Handling, Types
<1>8. Queued'
  <2> SUFFICES ASSUME NEW q \in Procs
               PROVE  Queued!(q)'
    BY DEF Queued
  <2>1. CASE q = p
    BY <1>3, <2>1 DEF Queued
  <2>2. CASE q # p
    BY <1>2, <1>3, <1>4, <2>2 DEF Queued, Types
  <2> QED
    BY <2>1, <2>2
<1>9. CompletedHasResult'
  BY <1>2, <1>4 DEF CompletedHasResult, Known, Types
<1> QED
  BY <1>5, <1>6, <1>7, <1>8, <1>9

LEMMA FinishOK ==
    ASSUME IInv, NEW p \in Procs, NEW outcome \in Outcomes, Finish(p, outcome)
    PROVE  IInv'
<1> USE DEF IInv
<1> DEFINE t == task[p]
           record == Finished(p, outcome)
<1>1. t \in Tasks /\ runs[p][t] = 1 /\ store[t] # NoTask
  BY DEF Finish, Handling, RanOnce
<1>2. /\ record \in Record /\ record # NoTask /\ record.status # "pending"
      /\ record.status = "completed" => record.result = p
  <2>1. record \in Record /\ record.status # "pending"
        /\ (record.status = "completed" => record.result = p)
    BY DEF Finished, Outcomes, Types, Record, TaskStatus
  <2> QED
    BY <2>1, TaskAssumption
<1>3. /\ store' = [store EXCEPT ![t] = record]
      /\ held' = [held EXCEPT ![p] = record]
      /\ \E label \in {"down", "done", "report"} : pc' = [pc EXCEPT ![p] = label]
      /\ pc[p] = "exec"
      /\ UNCHANGED <<task, runs>>
  BY DEF Finish, Save, Goto, Ended
<1>4. queue' = queue /\ queue[p] = <<>>
  BY <1>3 DEF Finish, Queued, Types
<1> HIDE DEF record
<1>5. \A u \in Tasks : store'[u] = IF u = t THEN record ELSE store[u]
  BY <1>3 DEF Types
<1>6. Types'
  BY <1>1, <1>2, <1>3, <1>4 DEF Types, Labels
<1>7. RanOnce'
  BY <1>2, <1>3, <1>5 DEF RanOnce
<1>8. Handling'
  BY <1>1, <1>2, <1>3, <1>5 DEF Handling, Types
<1>9. Queued'
  BY <1>2, <1>3, <1>4, <1>5 DEF Queued, Types
<1>10. CompletedHasResult'
  BY <1>1, <1>2, <1>3, <1>5 DEF CompletedHasResult, Known, Types
<1> QED
  BY <1>6, <1>7, <1>8, <1>9, <1>10

LEMMA RestOK ==
    ASSUME IInv, NEW p \in Procs,
           Report(p) \/ Crash(p) \/ EnterLoop(p) \/ Restart(p)
    PROVE  IInv'
<1> USE DEF IInv
<1>1. /\ UNCHANGED <<store, task, held, runs>>
      /\ \E label \in {"idle", "down", "done", "start"} : pc' = [pc EXCEPT ![p] = label]
      /\ queue' = queue \/ queue' = [queue EXCEPT ![p] = <<>>]
      /\ queue' = queue => pc[p] # "idle" \/ queue[p] = <<>>
  <2>1. CASE Report(p)
    BY <2>1 DEF Report, Goto, Ended
  <2>2. CASE Crash(p)
    BY <2>2 DEF Crash, Goto, Ended, Types
  <2>3. CASE EnterLoop(p) \/ Restart(p)
    BY <2>3 DEF EnterLoop, Restart, Goto
  <2> QED
    BY <2>1, <2>2, <2>3
<1>2. Types'
  BY <1>1, EmptyQueue DEF Types, Labels
<1>3. RanOnce' /\ CompletedHasResult'
  BY <1>1 DEF RanOnce, CompletedHasResult, Known
<1>4. Handling'
  BY <1>1 DEF Handling, Types
<1>5. Queued'
  BY <1>1 DEF Queued, Types
<1> QED
  BY <1>2, <1>3, <1>4, <1>5

LEMMA Inductive == IInv /\ [Next]_vars => IInv'
<1> SUFFICES ASSUME IInv, [Next]_vars
             PROVE  IInv'
  OBVIOUS
<1>1. CASE UNCHANGED vars
  BY <1>1 DEF vars, IInv, Types, RanOnce, Handling, Queued, CompletedHasResult, Known
<1>2. ASSUME NEW p \in Procs, NEW t \in Tasks, Submit(p, t)
      PROVE  IInv'
  BY <1>2, SubmitOK
<1>3. ASSUME NEW p \in Procs, Step(p) \/ Crash(p)
      PROVE  IInv'
  BY <1>3, TakeOK, GetOK, ClaimOK, FinishOK, RestOK DEF Step
<1> QED
  BY <1>1, <1>2, <1>3 DEF Next

LEMMA Invariance == Spec => []IInv
<1>1. Init => IInv
  BY InitOK
<1>2. IInv /\ [Next]_vars => IInv'
  BY Inductive
<1> QED
  BY <1>1, <1>2, PTL DEF Spec

-----------------------------------------------------------------------------
\* What TypeOK says of the two variables that IInv leaves out.
RestTyped == created \in Seq(Tasks) /\ faults \in Nat

LEMMA RestTypedOK ==
    ASSUME RestTyped, [Next]_vars
    PROVE  RestTyped'
<1>1. CASE UNCHANGED vars
  BY <1>1 DEF vars, RestTyped
<1>2. ASSUME NEW p \in Procs, NEW t \in Tasks, Submit(p, t)
      PROVE  RestTyped'
  BY <1>2 DEF Submit, RestTyped
<1>3. ASSUME NEW p \in Procs, Crash(p)
      PROVE  RestTyped'
  BY <1>3 DEF Crash, RestTyped
<1>4. ASSUME NEW p \in Procs, Step(p)
      PROVE  RestTyped'
  BY <1>4 DEF Step, EnterLoop, Take, Get, Claim, Finish, Report, Restart, RestTyped
<1> QED
  BY <1>1, <1>2, <1>3, <1>4 DEF Next

\* A claim makes its process the one that executes; a result, of whichever
\* process, takes "running" away from the row.
LEMMA RunningExecutedOK ==
    ASSUME IInv, RestTyped, RunningTaskExecuted, [Next]_vars
    PROVE  RunningTaskExecuted'
<1> SUFFICES ASSUME NEW t \in Tasks, store'[t] # NoTask,
                    store'[t].status = "running", faults' = 0
             PROVE  \E p \in Procs : pc'[p] = "exec" /\ task'[p] = t
  BY DEF RunningTaskExecuted, Known
<1>1. ASSUME store[t] # NoTask, store[t].status = "running", faults = 0
      PROVE  \E p \in Procs : pc[p] = "exec" /\ task[p] = t
  BY <1>1 DEF RunningTaskExecuted, Known
<1>2. CASE UNCHANGED vars
  BY <1>1, <1>2 DEF vars
<1>3. ASSUME NEW p \in Procs, NEW u \in Tasks, Submit(p, u)
      PROVE  \E q \in Procs : pc'[q] = "exec" /\ task'[q] = t
  <2>1. /\ store'[t] = IF t = u THEN NewTask ELSE store[t]
        /\ NewTask.status = "pending"
    BY <1>3 DEF IInv, Types, Submit, Save, NewTask
  <2>2. /\ pc[p] = "start" /\ pc' = [pc EXCEPT ![p] = "idle"]
        /\ UNCHANGED <<task, faults>>
    BY <1>3 DEF Submit, Goto
  <2> QED
    BY <1>1, <2>1, <2>2 DEF IInv, Types
<1>4. ASSUME NEW p \in Procs, Crash(p)
      PROVE  FALSE
  BY <1>4 DEF Crash, RestTyped
<1>5. ASSUME NEW p \in Procs,
             EnterLoop(p) \/ Take(p) \/ Get(p) \/ Report(p) \/ Restart(p)
      PROVE  \E q \in Procs : pc'[q] = "exec" /\ task'[q] = t
  <2>1. /\ UNCHANGED <<store, faults>> /\ pc[p] # "exec"
        /\ \A q \in Procs \ {p} : pc'[q] = pc[q] /\ task'[q] = task[q]
    BY <1>5 DEF EnterLoop, Take, Get, Report, Restart, Goto, IInv, Types
  <2> QED
    BY <1>1, <2>1
<1>6. ASSUME NEW p \in Procs, Claim(p)
      PROVE  \E q \in Procs : pc'[q] = "exec" /\ task'[q] = t
  <2>1. /\ UNCHANGED <<task, faults>>
        /\ pc' = [pc EXCEPT ![p] = "exec"] /\ pc[p] = "claim"
        /\ t # task[p] => store'[t] = store[t]
    BY <1>6 DEF Claim, Save, Goto, IInv, Types
  <2> QED
    BY <1>1, <2>1 DEF IInv, Types
<1>7. ASSUME NEW p \in Procs, NEW outcome \in Outcomes, Finish(p, outcome)
      PROVE  \E q \in Procs : pc'[q] = "exec" /\ task'[q] = t
  <2>1. task[p] \in Tasks
    BY <1>7 DEF Finish, IInv, Handling
  <2>2. Finished(p, outcome).status # "running"
    BY DEF Finished, Outcomes, IInv, Types, Record
  <2>3. /\ store'[task[p]] = Finished(p, outcome)
        /\ t # task[p] => store'[t] = store[t]
    BY <1>7, <2>1 DEF Finish, Save, IInv, Types
  <2>4. /\ UNCHANGED <<task, faults>>
        /\ \A q \in Procs \ {p} : pc'[q] = pc[q]
    BY <1>7 DEF Finish, Goto, IInv, Types
  <2> QED
    BY <1>1, <2>2, <2>3, <2>4
<1> QED
  BY <1>2, <1>3, <1>4, <1>5, <1>6, <1>7 DEF Next, Step

LEMMA TaskInvariance == Spec => [](IInv /\ RestTyped /\ RunningTaskExecuted)
<1> DEFINE All == IInv /\ RestTyped /\ RunningTaskExecuted
<1>1. Init => All
  BY InitOK, EmptyQueue DEF Init, RestTyped, RunningTaskExecuted, Known
<1>2. All /\ [Next]_vars => All'
  BY Inductive, RestTypedOK, RunningExecutedOK
<1> QED
  BY <1>1, <1>2, PTL DEF Spec

-----------------------------------------------------------------------------
\* The rows, the queues and what the processes hold keep their types, for any
\* number of processes and tasks.
THEOREM TypeCorrect == Spec => []TypeOK
<1>1. IInv /\ RestTyped => TypeOK
  <2> SUFFICES ASSUME IInv, RestTyped
               PROVE  TypeOK
    OBVIOUS
  <2>1. runs \in [Procs -> [Tasks -> {0, 1}]]
    BY DEF IInv, Types
  <2>2. \A p \in Procs, t \in Tasks : runs[p][t] \in Nat
    BY <2>1
  <2>3. runs \in [Procs -> [Tasks -> Nat]]
    BY <2>1, <2>2, Zenon
  <2> QED
    BY <2>3, Zenon DEF IInv, Types, RestTyped, TypeOK
<1> QED
  BY <1>1, TaskInvariance, PTL

\* No process executes a task twice, whatever claims and results are saved over
\* each other, wherever processes crash and however often they restart.
THEOREM NoProcessRunsTwice == Spec => []OncePerProcess
<1>1. IInv => OncePerProcess
  <2> SUFFICES ASSUME IInv, NEW p \in Procs, NEW t \in Tasks PROVE runs[p][t] <= 1
    BY DEF OncePerProcess
  <2>1. runs \in [Procs -> [Tasks -> {0, 1}]]
    BY DEF IInv, Types
  <2>2. runs[p][t] \in {0, 1}
    BY <2>1
  <2> QED
    BY <2>2
<1> QED
  BY <1>1, Invariance, PTL

\* A task that says it was completed has the result of an execution of it, for
\* any number of processes that execute it at once.
THEOREM CompletedTasksHaveResults == Spec => []CompletedHasResult
<1>1. IInv => CompletedHasResult
  BY DEF IInv
<1> QED
  BY <1>1, Invariance, PTL

\* Without crashes a row that says "running" is being executed, whatever claims
\* and results are saved over each other.
THEOREM RunningTasksExecuted == Spec => []RunningTaskExecuted
BY TaskInvariance, PTL

\* The three together, as the run checks them.
THEOREM ExecutionsAreKept == Spec => []ExecutionsKept
<1>1. OncePerProcess /\ RunningTaskExecuted /\ CompletedHasResult => ExecutionsKept
  BY DEF ExecutionsKept
<1> QED
  BY <1>1, NoProcessRunsTwice, RunningTasksExecuted, CompletedTasksHaveResults, PTL
=============================================================================
