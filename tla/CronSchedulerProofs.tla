------------------------ MODULE CronSchedulerProofs ------------------------
(***************************************************************************)
(* What holds of the rows of the cron state store for every set of         *)
(* processes and jobs and every interleaving of their reads and saves.     *)
(*                                                                         *)
(* A row travels: it is read into a frame, changed there by one of the row *)
(* functions, and saved later, over whatever was saved meanwhile.  So the  *)
(* inductive invariant states one predicate of every row, stored or held,  *)
(* and the proof is that each row function preserves that predicate.       *)
(* Of the run count of a row it states the same, against the history.      *)
(***************************************************************************)
EXTENDS CronScheduler, TLAPS, FiniteSetTheorems

\* What is true of every row, wherever it is.
RowOK(r) ==
    /\ r.running <= MaxConcurrentRuns
    /\ r.status = "running" => r.running > 0 /\ r.started # NoTime
    /\ r.status \in {"succeeded", "failed"} => r.running < MaxConcurrentRuns

(* The inductive invariant, by the part of the state it speaks of. *)

RestOK ==
    /\ clock \in 0..MaxTime
    /\ config \in [Jobs -> ConfigValue]
    /\ history \in [Jobs -> Nat]
    /\ pc \in [Procs -> Labels]
    /\ first \in [Schedulers -> BOOLEAN]
    /\ faults \in Nat

StoreOK ==
    /\ db \in [Jobs -> Row \cup {NoRow}]
    /\ \A j \in Jobs : db[j] # NoRow => RowOK(db[j])

FramesOK ==
    /\ frame \in [Procs -> Frame]
    /\ \A p \in Procs : RowOK(frame[p].row)

IInv == RestOK /\ StoreOK /\ FramesOK

-----------------------------------------------------------------------------
(* The row functions keep the type of a row and what is true of it. *)

LEMMA LimitType == MaxConcurrentRuns \in Nat \ {0}
BY CronAssumption

LEMMA TimeType ==
    ASSUME NEW t \in 0..MaxTime
    PROVE  t \in Nat /\ t # NoTime
BY CronAssumption DEF NoTime

LEMMA NextFireType ==
    ASSUME NEW j \in Jobs, NEW t \in 0..MaxTime
    PROVE  NextFire(j, t) \in Nat
BY CronAssumption

LEMMA NextRetryType ==
    ASSUME NEW p, NEW n \in Nat \ {0}, CanRetry(p, n), NEW t \in 0..MaxTime
    PROVE  NextRetryAt(n, t) \in Nat
<1>1. n \in 1..MaxAttempts - 1
  <2>1. MaxAttempts \in Nat
    BY CronAssumption
  <2> QED
    BY <2>1 DEF CanRetry, Attempts
<1>2. Backoff(n) \in Nat
  BY <1>1, CronAssumption
<1> QED
  BY <1>2, TimeType DEF NextRetryAt

LEMMA RowFields ==
    ASSUME NEW r \in Row
    PROVE  /\ r.running \in Nat /\ r.failures \in Nat /\ r.runs \in Nat
           /\ r.status \in CronJobStatus
BY DEF Row

\* A row stays a row when some of its fields are set to values of their types.
LEMMA RowUpdate ==
    ASSUME NEW r \in Row, NEW s \in CronJobStatus,
           NEW n \in Nat, NEW f \in Nat, NEW k \in Nat, NEW t \in Nat
    PROVE  /\ [r EXCEPT !.status = s, !.running = n, !.failures = f] \in Row
           /\ [r EXCEPT !.status = s, !.started = t, !.running = n] \in Row
           /\ [r EXCEPT !.status = s, !.running = n, !.failures = f,
                        !.runs = k, !.next = t] \in Row
<1>1. [r EXCEPT !.status = s, !.running = n, !.failures = f] \in Row
  BY DEF Row
<1>2. [r EXCEPT !.status = s, !.started = t, !.running = n] \in Row
  BY DEF Row
<1>3. [r EXCEPT !.status = s, !.running = n, !.failures = f,
                !.runs = k, !.next = t] \in Row
  BY DEF Row
<1> QED
  BY <1>1, <1>2, <1>3

\* A row that CronJobState(job_id) or _state_for makes.
LEMMA NewRowOK ==
    ASSUME NEW j \in Jobs, NEW t \in 0..MaxTime
    PROVE  /\ BlankRow \in Row /\ RowOK(BlankRow)
           /\ FreshRow(j, t) \in Row /\ RowOK(FreshRow(j, t))
<1>1. BlankRow \in Row
  BY DEF BlankRow, Row, CronJobStatus
<1>2. FreshRow(j, t) \in Row
  BY <1>1, NextFireType DEF FreshRow, Row
<1>3. RowOK(BlankRow) /\ RowOK(FreshRow(j, t))
  BY LimitType DEF RowOK, BlankRow, FreshRow
<1> QED
  BY <1>1, <1>2, <1>3

\* recover_stale_running frees every slot of the row it fails.
LEMMA RecoverOK ==
    ASSUME NEW r \in Row, RowOK(r), NEW t \in 0..MaxTime
    PROVE  RecoverStaleRunning(r, t) \in Row /\ RowOK(RecoverStaleRunning(r, t))
<1>1. RecoverStaleRunning(r, t) \in Row
  <2>1. r.failures + 1 \in Nat /\ "failed" \in CronJobStatus
    BY RowFields DEF CronJobStatus
  <2>2. [r EXCEPT !.status = "failed", !.running = 0, !.failures = r.failures + 1] \in Row
    BY <2>1, RowUpdate
  <2> QED
    BY <2>2 DEF RecoverStaleRunning
<1>2. RowOK(RecoverStaleRunning(r, t))
  BY LimitType DEF RecoverStaleRunning, RowOK, Row
<1> QED
  BY <1>1, <1>2

\* _run_job claims a slot that can_start has seen to be free.
LEMMA MarkStartedOK ==
    ASSUME NEW r \in Row, RowOK(r), CanStart(r), NEW t \in 0..MaxTime
    PROVE  MarkStarted(r, t) \in Row /\ RowOK(MarkStarted(r, t))
<1>2. t \in Nat /\ t # NoTime
  BY TimeType
<1>1. MarkStarted(r, t) \in Row
  <2>1. r.running + 1 \in Nat /\ "running" \in CronJobStatus
    BY RowFields DEF CronJobStatus
  <2> QED
    BY <1>2, <2>1, RowUpdate DEF MarkStarted
<1>3. RowOK(MarkStarted(r, t))
  BY LimitType, <1>2 DEF MarkStarted, CanStart, RowOK, Row
<1> QED
  BY <1>1, <1>3

\* It gives the slot back whatever the outcome, and schedules the next run.
LEMMA MarkFinishedOK ==
    ASSUME NEW p, NEW r \in Row, RowOK(r), NEW j \in Jobs, NEW t \in 0..MaxTime,
           NEW outcome \in JobRunStatus
    PROVE  /\ MarkFinished(p, j, r, outcome, t) \in Row
           /\ RowOK(MarkFinished(p, j, r, outcome, t))
<1> DEFINE n    == CASE outcome = "succeeded" -> 0
                     [] outcome = "failed"    -> r.failures + 1
                     [] outcome = "skipped"   -> r.failures
           next == IF outcome = "failed" /\ CanRetry(p, n)
                   THEN NextRetryAt(n, t) ELSE NextFire(j, t)
<1>1. Released(r) \in Nat /\ Released(r) < MaxConcurrentRuns
  BY LimitType DEF Released, Row, RowOK
<1>2. StatusAfter(outcome) \in {"succeeded", "failed", "idle"}
  BY DEF StatusAfter, JobRunStatus
<1>3. n \in Nat /\ (outcome = "failed" => n > 0)
  BY DEF JobRunStatus, Row
<1>4. next \in Nat
  <2>1. CASE outcome = "failed" /\ CanRetry(p, n)
    <3> HIDE DEF n
    <3>1. n \in Nat \ {0}
      BY <1>3, <2>1
    <3> QED
      BY <2>1, <3>1, NextRetryType
  <2>2. CASE ~(outcome = "failed" /\ CanRetry(p, n))
    BY <2>2, NextFireType
  <2> QED
    BY <2>1, <2>2
<1> HIDE DEF n, next
<1>5. MarkFinished(p, j, r, outcome, t) =
        [r EXCEPT !.status = StatusAfter(outcome), !.running = Released(r),
                  !.failures = n, !.runs = r.runs + 1, !.next = next]
  BY DEF MarkFinished, n, next
<1>6. MarkFinished(p, j, r, outcome, t) \in Row
  <2>1. r.runs + 1 \in Nat /\ StatusAfter(outcome) \in CronJobStatus
    BY <1>2, RowFields DEF CronJobStatus
  <2>2. n \in Nat /\ next \in Nat
    BY <1>3, <1>4 DEF n, next
  <2>3. [r EXCEPT !.status = StatusAfter(outcome), !.running = Released(r),
                  !.failures = n, !.runs = r.runs + 1, !.next = next] \in Row
    BY <1>1, <2>1, <2>2, RowUpdate
  <2> QED
    BY <1>5, <2>3
<1>7. RowOK(MarkFinished(p, j, r, outcome, t))
  BY <1>1, <1>2, <1>5, LimitType DEF Row, RowOK
<1> QED
  BY <1>6, <1>7

LEMMA MarkJobDueOK ==
    ASSUME NEW r \in Row, RowOK(r), NEW t \in 0..MaxTime
    PROVE  MarkJobDue(r, t) \in Row /\ RowOK(MarkJobDue(r, t))
<1>1. MarkJobDue(r, t) \in Row
  BY TimeType DEF MarkJobDue, Row, CronJobStatus
<1>2. RowOK(MarkJobDue(r, t))
  BY DEF MarkJobDue, RowOK, Row
<1> QED
  BY <1>1, <1>2

LEMMA ClearStuckOK ==
    ASSUME NEW r \in Row
    PROVE  ClearStuck(r) \in Row /\ RowOK(ClearStuck(r))
<1>1. ClearStuck(r) \in Row
  BY DEF ClearStuck, Row, CronJobStatus
<1>2. RowOK(ClearStuck(r))
  BY LimitType DEF ClearStuck, RowOK, Row
<1> QED
  BY <1>1, <1>2

\* The switch, or passing over a disabled job, may hide a taken slot (Wedged)
\* but makes no result row that holds all of them.
LEMMA SwitchOK ==
    ASSUME NEW r \in Row, RowOK(r), NEW status \in {"idle", "disabled"}
    PROVE  [r EXCEPT !.status = status] \in Row /\ RowOK([r EXCEPT !.status = status])
<1>1. [r EXCEPT !.status = status] \in Row
  BY DEF Row, CronJobStatus
<1>2. RowOK([r EXCEPT !.status = status])
  BY DEF RowOK, Row
<1> QED
  BY <1>1, <1>2

-----------------------------------------------------------------------------
(* What the steps are built from. *)

LEMMA EmptyFrameOK == EmptyFrame \in Frame /\ RowOK(EmptyFrame.row)
<1>1. (CHOOSE j \in Jobs : TRUE) \in Jobs
  BY CronAssumption
<1>2. 0 \in 0..MaxTime
  BY CronAssumption
<1>3. BlankRow \in Row /\ RowOK(BlankRow)
  BY <1>1, <1>2, NewRowOK
<1> QED
  BY <1>1, <1>2, <1>3 DEF EmptyFrame, Frame

\* Assigning a good frame to a process.
LEMMA SetFrameOK ==
    ASSUME FramesOK, NEW p \in Procs, NEW f \in Frame, RowOK(f.row), SetFrame(p, f)
    PROVE  FramesOK'
BY DEF FramesOK, SetFrame

\* Saving a good row over whatever the store holds.
LEMMA SaveOK ==
    ASSUME StoreOK, NEW j \in Jobs, NEW r \in Row, RowOK(r), Save(j, r)
    PROVE  StoreOK'
BY DEF StoreOK, Save

LEMMA KeepOK ==
    /\ StoreOK /\ UNCHANGED db => StoreOK'
    /\ FramesOK /\ UNCHANGED frame => FramesOK'
BY DEF StoreOK, FramesOK

\* A row read from the store, or the default of a missing one, is good.
LEMMA ReadRowOK ==
    ASSUME StoreOK, NEW j \in Jobs
    PROVE  ReadRow(j) \in Row /\ RowOK(ReadRow(j))
<1>1. 0 \in 0..MaxTime
  BY CronAssumption
<1>2. BlankRow \in Row /\ RowOK(BlankRow)
  BY <1>1, NewRowOK
<1> QED
  BY <1>2 DEF StoreOK, ReadRow

LEMMA FrameFields ==
    ASSUME FramesOK, NEW p \in Procs
    PROVE  /\ frame[p] \in Frame
           /\ frame[p].job \in Jobs
           /\ frame[p].row \in Row /\ RowOK(frame[p].row)
           /\ frame[p].now \in 0..MaxTime
           /\ frame[p].loaded \in SUBSET Jobs /\ frame[p].plan \in SUBSET Jobs
           /\ frame[p].todo \in SUBSET Jobs
BY DEF FramesOK, Frame

\* Forgetting the row, returning, and going on to the next job keep good frames.
LEMMA ForgetOK ==
    ASSUME FramesOK, NEW p \in Procs
    PROVE  /\ Forget(p) \in Frame /\ RowOK(Forget(p).row)
           /\ SetFrame(p, Forget(p)) => FramesOK'
           /\ \A label : Return(p, label) => FramesOK'
           /\ NextJob(p) => FramesOK'
           /\ \A a \in SUBSET Jobs :
                 SetFrame(p, [Forget(p) EXCEPT !.todo = a]) => FramesOK'
<1>1. EmptyFrame.job \in Jobs /\ BlankRow \in Row /\ RowOK(BlankRow)
  BY EmptyFrameOK DEF EmptyFrame, Frame
<1>2. /\ frame[p] \in Frame /\ frame[p].job \in Jobs
      /\ frame[p].todo \in SUBSET Jobs /\ frame[p].now \in 0..MaxTime
  BY FrameFields
<1>3. Forget(p) \in Frame /\ Forget(p).row = BlankRow /\ Forget(p).todo = frame[p].todo
  BY <1>1, <1>2 DEF Forget, Frame
<1>4. SetFrame(p, Forget(p)) => FramesOK'
  BY <1>1, <1>3, SetFrameOK
<1>5. ASSUME NEW label, Return(p, label)
      PROVE  FramesOK'
  BY <1>5, EmptyFrameOK, SetFrameOK DEF Return
<1>6. ASSUME NextJob(p)
      PROVE  FramesOK'
  <2> DEFINE f == [Forget(p) EXCEPT !.todo = Forget(p).todo \ {frame[p].job},
                                    !.job = EmptyFrame.job]
  <2>1. f \in Frame /\ f.row = BlankRow
    BY <1>1, <1>2, <1>3 DEF Frame
  <2>2. SetFrame(p, f)
    BY <1>6 DEF NextJob
  <2> QED
    BY <1>1, <2>1, <2>2, SetFrameOK
<1>7. ASSUME NEW a \in SUBSET Jobs, SetFrame(p, [Forget(p) EXCEPT !.todo = a])
      PROVE  FramesOK'
  <2> DEFINE f == [Forget(p) EXCEPT !.todo = a]
  <2>1. f \in Frame /\ f.row = BlankRow
    BY <1>1, <1>3 DEF Frame
  <2> QED
    BY <1>1, <1>7, <2>1, SetFrameOK
<1> QED
  BY <1>1, <1>3, <1>4, <1>5, <1>6, <1>7

\* The parts of RestOK an action assigns, one at a time.
LEMMA RestUpdate ==
    ASSUME RestOK
    PROVE  /\ \A p \in Procs, label \in Labels : Goto(p, label) => pc' \in [Procs -> Labels]
           /\ \A j \in Jobs, v \in ConfigValue :
                 [config EXCEPT ![j] = v] \in [Jobs -> ConfigValue]
           /\ \A j \in Jobs : [history EXCEPT ![j] = @ + 1] \in [Jobs -> Nat]
           /\ \A p, b : b \in BOOLEAN =>
                 [first EXCEPT ![p] = b] \in [Schedulers -> BOOLEAN]
           /\ faults + 1 \in Nat
<1>1. ASSUME NEW p \in Procs, NEW label \in Labels, Goto(p, label)
      PROVE  pc' \in [Procs -> Labels]
  BY <1>1 DEF RestOK, Goto
<1>2. ASSUME NEW j \in Jobs, NEW v \in ConfigValue
      PROVE  [config EXCEPT ![j] = v] \in [Jobs -> ConfigValue]
  BY DEF RestOK
<1>3. ASSUME NEW j \in Jobs
      PROVE  [history EXCEPT ![j] = @ + 1] \in [Jobs -> Nat]
  <2>1. history[j] + 1 \in Nat
    BY DEF RestOK
  <2> QED
    BY <2>1 DEF RestOK
<1>4. ASSUME NEW p, NEW b \in BOOLEAN
      PROVE  [first EXCEPT ![p] = b] \in [Schedulers -> BOOLEAN]
  BY DEF RestOK
<1>5. faults + 1 \in Nat
  BY DEF RestOK
<1> QED
  BY <1>1, <1>2, <1>3, <1>4, <1>5

-----------------------------------------------------------------------------
(* The invariant holds initially and every statement of a process keeps it. *)

LEMMA InitOK == Init => IInv
<1> SUFFICES ASSUME Init
             PROVE  IInv
  OBVIOUS
<1>1. RestOK
  BY CronAssumption DEF Init, RestOK, Labels
<1>2. StoreOK
  BY DEF Init, StoreOK
<1>3. FramesOK
  BY EmptyFrameOK DEF Init, FramesOK
<1> QED
  BY <1>1, <1>2, <1>3 DEF IInv

LEMMA SchedulerStepsOK ==
    ASSUME IInv, NEW p \in Procs,
           \/ BeginTick(p) \/ EndTick(p) \/ Restart(p) \/ TickCreate(p)
           \/ PassOver(p) \/ StartRun(p) \/ AppendRun(p)
           \/ \E j \in Jobs : TickRead(p, j)
           \/ \E outcome \in JobRunStatus : FinishRun(p, outcome)
    PROVE  IInv'
<1> USE DEF IInv
<1>0. /\ frame[p] \in Frame /\ frame[p].job \in Jobs
      /\ frame[p].row \in Row /\ RowOK(frame[p].row)
      /\ frame[p].now \in 0..MaxTime /\ frame[p].todo \in SUBSET Jobs
      /\ clock \in 0..MaxTime
  BY FrameFields DEF RestOK
<1>r. Recovered(p) \in Row /\ RowOK(Recovered(p))
  BY <1>0, RecoverOK DEF Recovered
<1>1. CASE BeginTick(p)
  <2> DEFINE all     == {j \in Jobs : config[j] # "absent"}
             enabled == {j \in Jobs : config[j] = "enabled"}
             todo    == IF RunImmediately /\ first[p] /\ enabled # {}
                        THEN enabled ELSE all
             f == [frame[p] EXCEPT !.now = clock, !.loaded = all,
                                   !.plan = enabled, !.todo = todo]
  <2>1. RestOK'
    <3> DEFINE label == IF RunImmediately /\ first[p] /\ enabled # {}
                        THEN "mark" ELSE "tick"
    <3>1. Goto(p, label) /\ UNCHANGED <<clock, config, history, first, faults>>
      BY <1>1 DEF BeginTick
    <3>2. label \in Labels
      <4> HIDE DEF enabled
      <4>1. label = "mark" \/ label = "tick"
        BY Zenon
      <4> HIDE DEF label
      <4> QED
        BY <4>1 DEF Labels
    <3> HIDE DEF label
    <3>3. pc' \in [Procs -> Labels]
      BY <3>1, <3>2, RestUpdate
    <3> QED
      BY <3>1, <3>3 DEF RestOK
  <2>2. f \in Frame /\ f.row = frame[p].row
    <3>1. all \in SUBSET Jobs /\ enabled \in SUBSET Jobs /\ todo \in SUBSET Jobs
      OBVIOUS
    <3> HIDE DEF all, enabled, todo
    <3> QED
      BY <1>0, <3>1 DEF Frame
  <2>3. SetFrame(p, f)
    BY <1>1 DEF BeginTick
  <2>4. FramesOK'
    <3> HIDE DEF f
    <3> QED
      BY <1>0, <2>2, <2>3, SetFrameOK
  <2> QED
    BY <1>1, <2>1, <2>4, KeepOK DEF BeginTick
<1>2. CASE EndTick(p)
  <2>1. RestOK'
    BY <1>2, RestUpdate DEF EndTick, Return, RestOK, Labels
  <2> QED
    BY <1>2, <2>1, ForgetOK, KeepOK DEF EndTick
<1>3. CASE Restart(p)
  <2>1. RestOK'
    BY <1>3, RestUpdate DEF Restart, RestOK, Labels
  <2> QED
    BY <1>3, <2>1, KeepOK DEF Restart
<1>4. CASE TickCreate(p)
  <2>1. RestOK'
    BY <1>4, RestUpdate DEF TickCreate, RestOK, Labels
  <2>2. StoreOK'
    BY <1>0, <1>4, SaveOK DEF TickCreate
  <2> QED
    BY <1>4, <2>1, <2>2, KeepOK DEF TickCreate
<1>5. CASE PassOver(p)
  <2>1. RestOK'
    BY <1>5, RestUpdate DEF PassOver, NextJob, RestOK, Labels
  <2>2. StoreOK'
    <3>1. /\ [Recovered(p) EXCEPT !.status = "disabled"] \in Row
          /\ RowOK([Recovered(p) EXCEPT !.status = "disabled"])
      BY <1>r, SwitchOK
    <3>2. CASE frame[p].job \in frame[p].plan
      BY <1>0, <1>r, <1>5, <3>2, SaveOK DEF PassOver
    <3>3. CASE frame[p].job \notin frame[p].plan
      BY <1>0, <1>5, <3>1, <3>3, SaveOK DEF PassOver
    <3> QED
      BY <3>2, <3>3
  <2>3. FramesOK'
    BY <1>5, ForgetOK DEF PassOver
  <2> QED
    BY <2>1, <2>2, <2>3
<1>6. CASE StartRun(p)
  <2> DEFINE r == MarkStarted(Recovered(p), frame[p].now)
  <2>1. r \in Row /\ RowOK(r)
    BY <1>0, <1>r, <1>6, MarkStartedOK DEF StartRun, Startable
  <2>2. RestOK'
    BY <1>6, RestUpdate DEF StartRun, RestOK, Labels
  <2>3. Save(frame[p].job, r) /\ SetFrame(p, [frame[p] EXCEPT !.row = r])
    BY <1>6 DEF StartRun
  <2> HIDE DEF r
  <2>4. StoreOK'
    BY <1>0, <2>1, <2>3, SaveOK
  <2>5. FramesOK'
    <3>1. [frame[p] EXCEPT !.row = r] \in Frame /\ [frame[p] EXCEPT !.row = r].row = r
      BY <1>0, <2>1 DEF Frame
    <3> QED
      BY <2>1, <2>3, <3>1, SetFrameOK
  <2> QED
    BY <2>2, <2>4, <2>5
<1>7. CASE AppendRun(p)
  <2>1. RestOK'
    BY <1>0, <1>7, RestUpdate DEF AppendRun, Return, NextJob, RestOK, Labels
  <2>2. FramesOK'
    BY <1>7, ForgetOK DEF AppendRun
  <2> QED
    BY <1>7, <2>1, <2>2, KeepOK DEF AppendRun
<1>8. ASSUME NEW j \in Jobs, TickRead(p, j)
      PROVE  IInv'
  <2> DEFINE r == IF db[j] = NoRow THEN FreshRow(j, frame[p].now) ELSE db[j]
  <2>1. r \in Row /\ RowOK(r)
    BY <1>0, NewRowOK DEF StoreOK
  <2>2. RestOK'
    BY <1>8, RestUpdate DEF TickRead, RestOK, Labels
  <2>3. SetFrame(p, [frame[p] EXCEPT !.job = j, !.row = r])
    BY <1>8 DEF TickRead
  <2> HIDE DEF r
  <2>4. FramesOK'
    <3>1. /\ [frame[p] EXCEPT !.job = j, !.row = r] \in Frame
          /\ [frame[p] EXCEPT !.job = j, !.row = r].row = r
      BY <1>0, <2>1 DEF Frame
    <3> QED
      BY <2>1, <2>3, <3>1, SetFrameOK
  <2> QED
    BY <1>8, <2>2, <2>4, KeepOK DEF TickRead
<1>9. ASSUME NEW outcome \in JobRunStatus, FinishRun(p, outcome)
      PROVE  IInv'
  <2> DEFINE r == MarkFinished(p, frame[p].job, frame[p].row, outcome, clock)
  <2>1. r \in Row /\ RowOK(r)
    BY <1>0, MarkFinishedOK
  <2>2. RestOK'
    BY <1>9, RestUpdate DEF FinishRun, RestOK, Labels
  <2>3. StoreOK'
    BY <1>0, <1>9, <2>1, SaveOK DEF FinishRun
  <2>4. FramesOK'
    BY <1>9, ForgetOK DEF FinishRun
  <2> QED
    BY <2>2, <2>3, <2>4
<1> QED
  BY <1>1, <1>2, <1>3, <1>4, <1>5, <1>6, <1>7, <1>8, <1>9

LEMMA ManualAndAdminStepsOK ==
    ASSUME IInv, NEW p \in Procs,
           \/ ManualClear(p) \/ ManualSkip(p) \/ MarkSave(p)
           \/ ToggleRead(p) \/ ToggleSave(p)
           \/ \E j \in Jobs : MarkRead(p, j) \/ ManualRun(p, j)
           \/ \E j \in Jobs, value \in ConfigValue :
                  AdminCreateDelete(p, j, value) \/ AdminUpdate(p, j, value)
    PROVE  IInv'
<1> USE DEF IInv
<1>0. /\ frame[p] \in Frame /\ frame[p].job \in Jobs
      /\ frame[p].row \in Row /\ RowOK(frame[p].row)
      /\ frame[p].now \in 0..MaxTime /\ frame[p].todo \in SUBSET Jobs
      /\ frame[p].loaded \in SUBSET Jobs /\ clock \in 0..MaxTime
  BY FrameFields DEF RestOK
<1>1. CASE ManualClear(p)
  <2>1. RestOK'
    BY <1>1, RestUpdate DEF ManualClear, RestOK, Labels
  <2>2. StoreOK'
    BY <1>0, <1>1, ClearStuckOK, SaveOK DEF ManualClear
  <2>3. FramesOK'
    BY <1>1, ForgetOK DEF ManualClear
  <2> QED
    BY <2>1, <2>2, <2>3
<1>2. CASE ManualSkip(p)
  <2>1. RestOK'
    BY <1>0, <1>2, RestUpdate DEF ManualSkip, Return, RestOK, Labels
  <2> QED
    BY <1>2, <2>1, ForgetOK, KeepOK DEF ManualSkip
<1>3. CASE MarkSave(p)
  <2> DEFINE left == frame[p].todo \ {frame[p].job}
             a    == IF left = {} THEN frame[p].loaded ELSE left
  <2>1. RestOK'
    <3>1. (\E label \in {"mark", "tick"} : Goto(p, label))
          /\ UNCHANGED <<clock, config, history, first, faults>>
      BY <1>3 DEF MarkSave
    <3>2. pc' \in [Procs -> Labels]
      BY <3>1, RestUpdate DEF Labels
    <3> QED
      BY <3>1, <3>2 DEF RestOK
  <2>2. StoreOK'
    BY <1>0, <1>3, MarkJobDueOK, SaveOK DEF MarkSave
  <2>3. FramesOK'
    <3>1. SetFrame(p, [Forget(p) EXCEPT !.todo = a])
      BY <1>3 DEF MarkSave
    <3>2. a \in SUBSET Jobs
      BY <1>0
    <3> HIDE DEF a
    <3> QED
      BY <3>1, <3>2, ForgetOK
  <2> QED
    BY <2>1, <2>2, <2>3
<1>4. CASE ToggleRead(p)
  <2> DEFINE r == ReadRow(frame[p].job)
  <2>1. RestOK'
    BY <1>4, RestUpdate DEF ToggleRead, RestOK, Labels
  <2>2. SetFrame(p, [frame[p] EXCEPT !.row = r])
    BY <1>4 DEF ToggleRead
  <2>3. r \in Row /\ RowOK(r)
    BY <1>0, ReadRowOK
  <2> HIDE DEF r
  <2>4. [frame[p] EXCEPT !.row = r] \in Frame /\ [frame[p] EXCEPT !.row = r].row = r
    BY <1>0, <2>3 DEF Frame
  <2> QED
    BY <1>4, <2>1, <2>2, <2>3, <2>4, SetFrameOK, KeepOK DEF ToggleRead
<1>5. CASE ToggleSave(p)
  <2> DEFINE status == IF frame[p].job \in frame[p].plan THEN "idle" ELSE "disabled"
             r      == [frame[p].row EXCEPT !.status = status]
  <2>1. RestOK'
    BY <1>5, RestUpdate DEF ToggleSave, Return, RestOK, Labels
  <2>2. r \in Row /\ RowOK(r)
    <3>1. status \in {"idle", "disabled"}
      OBVIOUS
    <3> HIDE DEF status
    <3> QED
      BY <1>0, <3>1, SwitchOK
  <2>3. Save(frame[p].job, r)
    BY <1>5 DEF ToggleSave, Toggled
  <2> HIDE DEF r
  <2>4. StoreOK'
    BY <1>0, <2>2, <2>3, SaveOK
  <2>5. FramesOK'
    BY <1>5, ForgetOK DEF ToggleSave
  <2> QED
    BY <2>1, <2>4, <2>5
<1>6. ASSUME NEW j \in Jobs, MarkRead(p, j)
      PROVE  IInv'
  <2> DEFINE r == ReadRow(j)
             f == [frame[p] EXCEPT !.job = j, !.row = r]
  <2>1. RestOK'
    BY <1>6, RestUpdate DEF MarkRead, RestOK, Labels
  <2>2. SetFrame(p, f)
    BY <1>6 DEF MarkRead
  <2>3. r \in Row /\ RowOK(r)
    BY ReadRowOK
  <2> HIDE DEF r
  <2>4. f \in Frame /\ f.row = r
    BY <1>0, <2>3 DEF Frame
  <2> HIDE DEF f
  <2> QED
    BY <1>6, <2>1, <2>2, <2>3, <2>4, SetFrameOK, KeepOK DEF MarkRead
<1>7. ASSUME NEW j \in Jobs, ManualRun(p, j)
      PROVE  IInv'
  <2> DEFINE r == IF ReadRow(j).status = "running" THEN ReadRow(j) ELSE BlankRow
             f == [job |-> j, now |-> clock, row |-> r,
                   loaded |-> {j}, plan |-> {j}, todo |-> {j}]
  <2>1. RestOK'
    <3>1. (\E label \in {"mark", "skip", "clear"} : Goto(p, label))
          /\ UNCHANGED <<clock, config, history, first, faults>>
      BY <1>7 DEF ManualRun
    <3>2. pc' \in [Procs -> Labels]
      BY <3>1, RestUpdate DEF Labels
    <3> QED
      BY <3>1, <3>2 DEF RestOK
  <2>2. SetFrame(p, f)
    BY <1>7 DEF ManualRun
  <2>3. r \in Row /\ RowOK(r)
    <3>1. BlankRow \in Row /\ RowOK(BlankRow)
      BY <1>0, NewRowOK
    <3> QED
      BY <3>1, ReadRowOK
  <2> HIDE DEF r
  <2>4. f \in Frame /\ f.row = r
    BY <1>0, <2>3 DEF Frame
  <2> HIDE DEF f
  <2> QED
    BY <1>7, <2>1, <2>2, <2>3, <2>4, SetFrameOK, KeepOK DEF ManualRun
<1>8. ASSUME NEW j \in Jobs, NEW value \in ConfigValue, AdminCreateDelete(p, j, value)
      PROVE  IInv'
  <2>1. RestOK'
    BY <1>8, RestUpdate DEF AdminCreateDelete, RestOK, Labels
  <2> QED
    BY <1>8, <2>1, KeepOK DEF AdminCreateDelete
<1>9. ASSUME NEW j \in Jobs, NEW value \in ConfigValue, AdminUpdate(p, j, value)
      PROVE  IInv'
  <2> DEFINE a == IF value = "enabled" THEN {j} ELSE {}
             f == [frame[p] EXCEPT !.job = j, !.plan = a]
  <2>1. RestOK'
    BY <1>9, RestUpdate DEF AdminUpdate, RestOK, Labels
  <2>2. SetFrame(p, f)
    BY <1>9 DEF AdminUpdate
  <2>3. f \in Frame /\ f.row = frame[p].row
    <3>1. a \in SUBSET Jobs
      OBVIOUS
    <3> HIDE DEF a
    <3> QED
      BY <1>0, <3>1 DEF Frame
  <2> HIDE DEF f
  <2> QED
    BY <1>0, <1>9, <2>1, <2>2, <2>3, SetFrameOK, KeepOK DEF AdminUpdate
<1> QED
  BY <1>1, <1>2, <1>3, <1>4, <1>5, <1>6, <1>7, <1>8, <1>9

\* A crash or a store error leaves the store as the last completed save made it.
LEMMA FaultsOK ==
    ASSUME IInv, NEW p \in Procs, Crash(p) \/ TickFails(p)
    PROVE  IInv'
<1> USE DEF IInv
<1>1. CASE Crash(p)
  <2>1. RestOK'
    <3>1. /\ \E label \in {"down", "done"} : Goto(p, label)
          /\ faults' = faults + 1 /\ UNCHANGED <<clock, config, history, first>>
      BY <1>1 DEF Crash, Return
    <3>2. pc' \in [Procs -> Labels]
      BY <3>1, RestUpdate DEF Labels
    <3> QED
      BY <3>1, <3>2, RestUpdate DEF RestOK
  <2> QED
    BY <1>1, <2>1, ForgetOK, KeepOK DEF Crash
<1>2. CASE TickFails(p)
  <2>1. RestOK'
    BY <1>2, RestUpdate DEF TickFails, Return, RestOK, Labels
  <2> QED
    BY <1>2, <2>1, ForgetOK, KeepOK DEF TickFails
<1> QED
  BY <1>1, <1>2

LEMMA ClockOK ==
    ASSUME IInv, Tick \/ UNCHANGED vars
    PROVE  IInv'
<1> USE DEF IInv
<1>1. CASE Tick
  <2>1. RestOK'
    BY <1>1, CronAssumption DEF Tick, RestOK
  <2> QED
    BY <1>1, <2>1, KeepOK DEF Tick
<1>2. CASE UNCHANGED vars
  BY <1>2, KeepOK DEF vars, RestOK
<1> QED
  BY <1>1, <1>2

LEMMA Inductive == IInv /\ [Next]_vars => IInv'
<1> SUFFICES ASSUME IInv, [Next]_vars
             PROVE  IInv'
  OBVIOUS
<1>1. CASE Tick \/ UNCHANGED vars
  BY <1>1, ClockOK
<1>2. ASSUME NEW p \in Procs, Step(p) \/ Request(p)
      PROVE  IInv'
  BY <1>2, SchedulerStepsOK, ManualAndAdminStepsOK DEF Step, Request
<1>3. ASSUME NEW p \in Procs, Crash(p) \/ TickFails(p)
      PROVE  IInv'
  BY <1>3, FaultsOK
<1> QED
  BY <1>1, <1>2, <1>3 DEF Next

-----------------------------------------------------------------------------
(* The theorems. *)

LEMMA Invariance == Spec => []IInv
<1>1. Init => IInv
  BY InitOK
<1>2. IInv /\ [Next]_vars => IInv'
  BY Inductive
<1> QED
  BY <1>1, <1>2, PTL DEF Spec

\* Every variable keeps its type, for any number of schedulers, manual runs,
\* Admin requests and jobs and any schedule, retry delay and limits.
THEOREM TypeCorrect == Spec => []TypeOK
<1>1. IInv => TypeOK
  BY DEF IInv, RestOK, StoreOK, FramesOK, TypeOK
<1> QED
  BY <1>1, Invariance, PTL

\* However many processes overwrite each other's rows, and wherever they crash,
\* a stored row that says "running" can be recovered: it holds between one slot
\* and max_concurrent_runs of them and has a start time.
THEOREM RunningRowsRecoverable == Spec => []RunningRowRecoverable
<1>1. IInv => RunningRowRecoverable
  BY DEF IInv, StoreOK, RowOK, RunningRowRecoverable, Stored
<1> QED
  BY <1>1, Invariance, PTL

\* However many processes overwrite each other's rows, the row of a finished or
\* recovered run leaves a slot for the next run.
THEOREM SettledRowsFreeSlots == Spec => []SettledRowFreesSlot
<1>1. IInv => SettledRowFreesSlot
  BY DEF IInv, StoreOK, RowOK, SettledRowFreesSlot, Stored, CanStart
<1> QED
  BY <1>1, Invariance, PTL

\* Both: no interleaving of saves leaves a row from which its job cannot go on.
THEOREM RowsUsable == Spec => []RowsStayUsable
<1>1. RunningRowRecoverable /\ SettledRowFreesSlot => RowsStayUsable
  BY DEF RowsStayUsable
<1> QED
  BY <1>1, RunningRowsRecoverable, SettledRowsFreeSlots, PTL
-----------------------------------------------------------------------------
(* The counted runs.  A row claims no more runs than the history has, and  *)
(* than are being appended or were lost; a row in a frame is no newer than *)
(* the stored row it was read from.                                        *)

Appending(j) == {p \in Procs : pc[p] = "append" /\ frame[p].job = j}
Backed(j) == history[j] + faults + Cardinality(Appending(j))

CountsOK ==
    /\ \A j \in Jobs : db[j] # NoRow => db[j].runs <= Backed(j)
    /\ \A p \in Procs : frame[p].row.runs <= Backed(frame[p].job)
    /\ \A p \in Procs : pc[p] \in {"idle", "down"} => frame[p].row.runs = 0

LEMMA AppendingFinite ==
    ASSUME NEW j
    PROVE  IsFiniteSet(Appending(j)) /\ Cardinality(Appending(j)) \in Nat
<1>1. IsFiniteSet(Procs) /\ Appending(j) \in SUBSET Procs
  BY CronAssumption DEF Appending
<1>2. IsFiniteSet(Appending(j))
  BY <1>1, FS_Subset
<1> QED
  BY <1>2, FS_CardinalityType

LEMMA BackedType ==
    ASSUME IInv, NEW j \in Jobs
    PROVE  Backed(j) \in Nat
BY AppendingFinite DEF IInv, RestOK, Backed

\* A process that appends nothing, before or after its step.
LEMMA QuietStep ==
    ASSUME IInv, NEW p \in Procs, pc[p] # "append",
           NEW label \in Labels \ {"append"}, Goto(p, label),
           \A q \in Procs \ {p} : frame'[q] = frame[q],
           \A j \in Jobs : history'[j] >= history[j],
           faults' \in Nat, faults' >= faults, history' \in [Jobs -> Nat]
    PROVE  \A j \in Jobs : Backed(j)' >= Backed(j)
<1>1. SUFFICES ASSUME NEW j \in Jobs
               PROVE  Backed(j)' >= Backed(j)
  OBVIOUS
<1>2. /\ pc'[p] = label /\ \A q \in Procs \ {p} : pc'[q] = pc[q]
  BY DEF Goto, IInv, RestOK
<1>3. Appending(j)' = Appending(j)
  BY <1>2 DEF Appending
<1>4. Cardinality(Appending(j)) \in Nat /\ Cardinality(Appending(j)') = Cardinality(Appending(j))
  BY <1>3, AppendingFinite
<1>5. history[j] \in Nat /\ faults \in Nat /\ history'[j] \in Nat
  BY DEF IInv, RestOK
<1> QED
  BY <1>4, <1>5 DEF Backed

\* A process that is done appending, or is kept from it.
LEMMA AppendedStep ==
    ASSUME IInv, NEW p \in Procs, pc[p] = "append",
           NEW label \in Labels \ {"append"}, Goto(p, label),
           \A q \in Procs \ {p} : frame'[q] = frame[q],
           \/ history' = [history EXCEPT ![frame[p].job] = @ + 1] /\ faults' = faults
           \/ history' = history /\ faults' = faults + 1
    PROVE  \A j \in Jobs : Backed(j)' >= Backed(j)
<1>1. SUFFICES ASSUME NEW j \in Jobs
               PROVE  Backed(j)' >= Backed(j)
  OBVIOUS
<1>2. /\ pc'[p] = label /\ \A q \in Procs \ {p} : pc'[q] = pc[q]
  BY DEF Goto, IInv, RestOK
<1>3. Appending(j)' = Appending(j) \ {p}
  BY <1>2 DEF Appending
<1>4. /\ Cardinality(Appending(j)) \in Nat
      /\ Cardinality(Appending(j)') =
            IF p \in Appending(j) THEN Cardinality(Appending(j)) - 1 ELSE Cardinality(Appending(j))
  BY <1>3, AppendingFinite, FS_RemoveElement
<1>5. p \in Appending(j) => frame[p].job = j
  BY DEF Appending
<1>6. /\ history[j] \in Nat /\ faults \in Nat /\ history \in [Jobs -> Nat]
      /\ frame[p].job \in Jobs
  BY FrameFields DEF IInv, RestOK
<1> QED
  BY <1>4, <1>5, <1>6 DEF Backed

\* What is left to show of a step of one process.
LEMMA CountsStep ==
    ASSUME IInv, CountsOK, NEW p \in Procs, NEW f, SetFrame(p, f),
           NEW label, Goto(p, label), label \in {"idle", "down"} => f.row.runs = 0,
           \A j \in Jobs : Backed(j)' \in Nat /\ Backed(j)' >= Backed(j),
           NEW k \in Jobs, k = f.job, f.row.runs <= Backed(k)',
           \A j \in Jobs :
               db'[j] = db[j] \/ (db'[j] # NoRow => db'[j].runs <= Backed(j)')
    PROVE  CountsOK'
<1>1. \A q \in Procs : frame'[q] = IF q = p THEN f ELSE frame[q]
  BY DEF SetFrame, IInv, FramesOK
<1>2. \A j \in Jobs : db'[j] # NoRow => db'[j].runs <= Backed(j)'
  <2> SUFFICES ASSUME NEW j \in Jobs, db'[j] # NoRow, db'[j] = db[j]
               PROVE  db'[j].runs <= Backed(j)'
    OBVIOUS
  <2>1. db[j].runs <= Backed(j) /\ db[j].runs \in Nat /\ Backed(j) \in Nat
    BY BackedType, RowFields DEF CountsOK, IInv, StoreOK
  <2> QED
    BY <2>1
<1>3. ASSUME NEW q \in Procs \ {p}
      PROVE  frame'[q].row.runs <= Backed(frame[q].job)'
  <2>0. PICK i \in Jobs : i = frame[q].job
    BY FrameFields DEF IInv
  <2>1. /\ frame[q].row.runs <= Backed(i) /\ frame[q].row.runs \in Nat /\ Backed(i) \in Nat
    BY <2>0, BackedType, FrameFields, RowFields DEF CountsOK, IInv
  <2>2. Backed(i)' \in Nat /\ Backed(i)' >= Backed(i)
    OBVIOUS
  <2>3. frame[q].row.runs <= Backed(i)'
    BY <2>1, <2>2
  <2>4. frame'[q] = frame[q] /\ i = frame'[q].job
    BY <1>1, <2>0
  <2> QED
    BY <2>3, <2>4
<1>4. frame'[p].row.runs <= Backed(frame[p].job)'
  <2>1. frame'[p] = f
    BY <1>1
  <2> QED
    BY <2>1
<1>5. \A q \in Procs : pc'[q] \in {"idle", "down"} => frame'[q].row.runs = 0
  <2>1. \A q \in Procs : pc'[q] = IF q = p THEN label ELSE pc[q]
    BY DEF Goto, IInv, RestOK
  <2> QED
    BY <1>1, <2>1 DEF CountsOK
<1> QED
  BY <1>2, <1>3, <1>4, <1>5 DEF CountsOK

\* Only a result counts as a run: every other change of a row keeps its count.
LEMMA RowRuns ==
    ASSUME NEW r \in Row, NEW t
    PROVE  /\ RecoverStaleRunning(r, t).runs = r.runs /\ MarkJobDue(r, t).runs = r.runs
           /\ MarkStarted(r, t).runs = r.runs /\ ClearStuck(r).runs = r.runs
           /\ \A value : Toggled(r, value).runs = r.runs
           /\ \A status : [r EXCEPT !.status = status].runs = r.runs
BY DEF RecoverStaleRunning, MarkJobDue, MarkStarted, ClearStuck, Toggled, MarkFinished, Row

\* A step that appends nothing and saves and keeps only rows that are backed.
LEMMA CountsQuiet ==
    ASSUME IInv, IInv', CountsOK, NEW p \in Procs, pc[p] # "append",
           NEW label \in Labels \ {"append"}, Goto(p, label),
           NEW f, SetFrame(p, f), label \in {"idle", "down"} => f.row.runs = 0,
           NEW k \in Jobs, k = f.job, f.row.runs \in Nat, f.row.runs <= Backed(k),
           \A j \in Jobs : history'[j] >= history[j], faults' >= faults,
           \/ db' = db
           \/ \E j \in Jobs, r \in Row : Save(j, r) /\ r.runs <= Backed(j)
    PROVE  CountsOK'
<1>1. \A q \in Procs \ {p} : frame'[q] = frame[q]
  BY DEF SetFrame, IInv, FramesOK
<1>2. \A j \in Jobs : Backed(j)' >= Backed(j)
  BY <1>1, QuietStep DEF IInv, RestOK
<1>3. \A j \in Jobs : Backed(j) \in Nat /\ Backed(j)' \in Nat
  <2>1. \A j \in Jobs : Cardinality(Appending(j)') \in Nat
    <3> SUFFICES ASSUME NEW j \in Jobs PROVE Cardinality(Appending(j)') \in Nat
      OBVIOUS
    <3>1. IsFiniteSet(Procs) /\ Appending(j)' \in SUBSET Procs
      BY CronAssumption DEF Appending
    <3>2. IsFiniteSet(Appending(j)')
      BY <3>1, FS_Subset
    <3> QED BY <3>2, FS_CardinalityType
  <2> QED
    BY <2>1, BackedType DEF Backed, IInv, RestOK
<1>4. f.row.runs <= Backed(k)'
  BY <1>2, <1>3
<1>5. \A j \in Jobs : db'[j] = db[j] \/ (db'[j] # NoRow => db'[j].runs <= Backed(j)')
  <2>1. ASSUME NEW j \in Jobs, NEW r \in Row, Save(j, r), r.runs <= Backed(j)
        PROVE  \A i \in Jobs : db'[i] = db[i] \/ db'[i].runs <= Backed(i)'
    <3>1. r.runs \in Nat /\ r.runs <= Backed(j)'
      BY <2>1, <1>2, <1>3, RowFields
    <3>2. \A i \in Jobs : db'[i] = IF i = j THEN r ELSE db[i]
      BY <2>1 DEF Save, IInv, StoreOK
    <3> QED
      BY <3>1, <3>2
  <2> QED
    BY <2>1
<1> QED
  BY <1>2, <1>3, <1>4, <1>5, CountsStep

\* The frames a step goes on with.
LEMMA FrameRuns ==
    ASSUME IInv, CountsOK, NEW p \in Procs
    PROVE  /\ frame[p].job \in Jobs /\ frame[p].row \in Row /\ frame[p] \in Frame
           /\ frame[p].row.runs \in Nat /\ frame[p].row.runs <= Backed(frame[p].job)
           /\ EmptyFrame.job \in Jobs /\ EmptyFrame.row.runs = 0
           /\ Forget(p).job = frame[p].job /\ Forget(p).row.runs = 0
           /\ \A j \in Jobs : Backed(j) \in Nat /\ 0 <= Backed(j)
           /\ \A j \in Jobs : ReadRow(j).runs \in Nat /\ ReadRow(j).runs <= Backed(j)
<1>1. /\ frame[p].job \in Jobs /\ frame[p].row \in Row /\ frame[p] \in Frame
      /\ frame[p].row.runs \in Nat /\ frame[p].row.runs <= Backed(frame[p].job)
  BY FrameFields, RowFields DEF IInv, CountsOK
<1>2. EmptyFrame.job \in Jobs /\ EmptyFrame.row.runs = 0
  BY EmptyFrameOK DEF EmptyFrame, Frame, BlankRow
<1>3. Forget(p).job = frame[p].job /\ Forget(p).row.runs = 0
  BY <1>1 DEF Forget, Frame, BlankRow
<1>4. \A j \in Jobs : Backed(j) \in Nat /\ 0 <= Backed(j)
  BY BackedType
<1>5. \A j \in Jobs : ReadRow(j).runs \in Nat /\ ReadRow(j).runs <= Backed(j)
  BY <1>4, ReadRowOK, RowFields DEF ReadRow, CountsOK, BlankRow, IInv
<1> QED
  BY <1>1, <1>2, <1>3, <1>4, <1>5

\* A step that leaves the frame alone.
LEMMA KeepFrame ==
    ASSUME IInv, NEW p \in Procs, frame' = frame
    PROVE  SetFrame(p, frame[p])
BY DEF SetFrame, IInv, FramesOK

\* A call that returns, and a loop that goes on, hold no row.
LEMMA Leaving ==
    ASSUME IInv, CountsOK, NEW p \in Procs
    PROVE  /\ \A label : Return(p, label) => Goto(p, label) /\ SetFrame(p, EmptyFrame)
           /\ NextJob(p) => /\ Goto(p, "tick")
                            /\ \E f : SetFrame(p, f) /\ f.job = EmptyFrame.job /\ f.row.runs = 0
<1>1. ASSUME NextJob(p)
      PROVE  \E f : SetFrame(p, f) /\ f.job = EmptyFrame.job /\ f.row.runs = 0
  <2> DEFINE f == [Forget(p) EXCEPT !.todo = @ \ {frame[p].job}, !.job = EmptyFrame.job]
  <2>1. Forget(p) \in Frame
    BY ForgetOK DEF IInv
  <2>2. f.job = EmptyFrame.job /\ f.row = Forget(p).row
    BY <2>1 DEF Frame
  <2>3. f.row.runs = 0
    BY <2>2, FrameRuns
  <2>4. SetFrame(p, f)
    BY <1>1 DEF NextJob
  <2> QED
    BY <2>2, <2>3, <2>4
<1> QED
  BY <1>1 DEF Return, NextJob

LEMMA TickCounts ==
    ASSUME IInv, IInv', CountsOK, NEW p \in Procs,
           \/ BeginTick(p) \/ EndTick(p) \/ Restart(p) \/ TickCreate(p)
           \/ PassOver(p) \/ StartRun(p)
           \/ \E j \in Jobs : TickRead(p, j) \/ MarkRead(p, j)
           \/ MarkSave(p) \/ ToggleRead(p) \/ ToggleSave(p)
    PROVE  CountsOK'
<1>0. /\ frame[p].job \in Jobs /\ frame[p].row \in Row /\ frame[p] \in Frame
      /\ frame[p].row.runs \in Nat /\ frame[p].row.runs <= Backed(frame[p].job)
      /\ EmptyFrame.job \in Jobs /\ EmptyFrame.row.runs = 0
      /\ Forget(p).job = frame[p].job /\ Forget(p).row.runs = 0
      /\ \A j \in Jobs : Backed(j) \in Nat /\ 0 <= Backed(j)
      /\ \A j \in Jobs : ReadRow(j).runs \in Nat /\ ReadRow(j).runs <= Backed(j)
  BY FrameRuns
<1>h. /\ history' = history /\ faults' = faults
      /\ \A j \in Jobs : history'[j] >= history[j]
      /\ faults' >= faults
  <2>1. history' = history /\ faults' = faults
    BY DEF BeginTick, EndTick, Restart, TickCreate, PassOver, StartRun, TickRead, MarkRead, MarkSave,
           ToggleRead, ToggleSave
  <2> QED
    BY <2>1 DEF IInv, RestOK
<1>1. CASE BeginTick(p)
  <2> DEFINE all     == {j \in Jobs : config[j] # "absent"}
             enabled == {j \in Jobs : config[j] = "enabled"}
             marking == RunImmediately /\ first[p] /\ enabled # {}
             f == [frame[p] EXCEPT !.now = clock, !.loaded = all, !.plan = enabled,
                                   !.todo = IF marking THEN enabled ELSE all]
  <2>1. /\ Goto(p, IF marking THEN "mark" ELSE "tick") /\ SetFrame(p, f) /\ db' = db
        /\ pc[p] = "idle"
    BY <1>1 DEF BeginTick
  <2>2. PICK label \in {"mark", "tick"} : Goto(p, label)
    <3> HIDE DEF f
    <3> QED BY <2>1
  <2>3. f.job = frame[p].job /\ f.row = frame[p].row
    BY <1>0 DEF Frame
  <2> HIDE DEF f
  <2>4. label \in Labels \ {"append", "idle", "down"}
    BY DEF Labels
  <2> QED
    BY <1>0, <1>h, <2>1, <2>2, <2>3, <2>4, CountsQuiet
<1>2. CASE EndTick(p)
  <2>1. Goto(p, "idle") /\ SetFrame(p, EmptyFrame) /\ db' = db /\ pc[p] = "tick"
    BY <1>2, Leaving DEF EndTick
  <2>2. "idle" \in Labels \ {"append"}
    BY DEF Labels
  <2> QED
    BY <1>0, <1>h, <2>1, <2>2, CountsQuiet
<1>3. CASE Restart(p)
  <2>1. Goto(p, "idle") /\ SetFrame(p, frame[p]) /\ db' = db /\ pc[p] = "down"
    BY <1>3, KeepFrame DEF Restart
  <2>2. "idle" \in Labels \ {"append"} /\ frame[p].row.runs = 0
    BY <2>1 DEF Labels, CountsOK
  <2> QED
    BY <1>0, <1>h, <2>1, <2>2, CountsQuiet
<1>4. CASE TickCreate(p)
  <2>1. /\ Goto(p, "judge") /\ SetFrame(p, frame[p]) /\ pc[p] = "create"
        /\ Save(frame[p].job, frame[p].row)
    BY <1>4, KeepFrame DEF TickCreate
  <2>2. "judge" \in Labels \ {"append", "idle", "down"}
    BY DEF Labels
  <2> QED
    BY <1>0, <1>h, <2>1, <2>2, CountsQuiet
<1>r. Recovered(p) \in Row /\ Recovered(p).runs = frame[p].row.runs
  BY <1>0, RecoverOK, RowRuns, FrameFields DEF Recovered, IInv
<1>5. CASE PassOver(p)
  <2>1. PICK r \in Row : Save(frame[p].job, r) /\ r.runs = frame[p].row.runs
    <3> DEFINE hidden == [Recovered(p) EXCEPT !.status = "disabled"]
    <3>1. hidden \in Row /\ hidden.runs = Recovered(p).runs
      BY <1>r DEF Row, CronJobStatus
    <3>2. Save(frame[p].job, Recovered(p)) \/ Save(frame[p].job, hidden)
      BY <1>5 DEF PassOver
    <3> HIDE DEF hidden
    <3> QED
      BY <1>r, <3>1, <3>2
  <2>2. CASE Goto(p, "skip") /\ SetFrame(p, Forget(p))
    <3>1. "skip" \in Labels \ {"append", "idle", "down"} /\ pc[p] = "judge"
      BY <1>5 DEF Labels, PassOver
    <3> QED
      BY <1>0, <1>h, <2>1, <2>2, <3>1, CountsQuiet
  <2>3. CASE NextJob(p)
    <3>1. "tick" \in Labels \ {"append", "idle", "down"} /\ pc[p] = "judge"
      BY <1>5 DEF Labels, PassOver
    <3>2. PICK f : SetFrame(p, f) /\ f.job = EmptyFrame.job /\ f.row.runs = 0
      BY <2>3, Leaving
    <3>3. Goto(p, "tick")
      BY <2>3, Leaving
    <3> QED
      BY <1>0, <1>h, <2>1, <3>1, <3>2, <3>3, CountsQuiet
  <2> QED
    BY <1>5, <2>2, <2>3 DEF PassOver
<1>6. CASE StartRun(p)
  <2> DEFINE r == MarkStarted(Recovered(p), frame[p].now)
             f == [frame[p] EXCEPT !.row = r]
  <2>1. /\ Goto(p, "exec") /\ SetFrame(p, f) /\ Save(frame[p].job, r) /\ pc[p] = "judge"
    BY <1>6 DEF StartRun
  <2>2. r.runs = frame[p].row.runs
    BY <1>r, RowRuns
  <2>3. r \in Row
    BY <1>r, <1>6, MarkStartedOK, RecoverOK, FrameFields DEF StartRun, Startable, Recovered, IInv
  <2> HIDE DEF r
  <2>4. f.job = frame[p].job /\ f.row = r
    BY <1>0 DEF Frame
  <2>5. "exec" \in Labels \ {"append", "idle", "down"}
    BY DEF Labels
  <2> HIDE DEF f
  <2> QED
    BY <1>0, <1>h, <2>1, <2>2, <2>3, <2>4, <2>5, CountsQuiet
<1>7. ASSUME NEW j \in Jobs, TickRead(p, j) PROVE CountsOK'
  <2> DEFINE row == IF db[j] = NoRow THEN FreshRow(j, frame[p].now) ELSE db[j]
             f == [frame[p] EXCEPT !.job = j, !.row = row]
  <2>1. PICK label \in {"create", "judge"} : Goto(p, label)
    BY <1>7 DEF TickRead
  <2>2. SetFrame(p, f) /\ db' = db /\ pc[p] = "tick"
    BY <1>7 DEF TickRead
  <2>3. row.runs \in Nat /\ row.runs <= Backed(j)
    <3>1. FreshRow(j, frame[p].now).runs = 0
      BY DEF FreshRow, BlankRow
    <3>2. db[j] # NoRow => db[j].runs \in Nat /\ db[j].runs <= Backed(j)
      BY RowFields DEF CountsOK, IInv, StoreOK
    <3> QED
      BY <1>0, <3>1, <3>2
  <2> HIDE DEF row
  <2>4. f.job = j /\ f.row = row
    BY <1>0 DEF Frame
  <2> HIDE DEF f
  <2>5. label \in Labels \ {"append", "idle", "down"}
    BY DEF Labels
  <2> QED
    BY <1>0, <1>h, <2>1, <2>2, <2>3, <2>4, <2>5, CountsQuiet
<1>8. ASSUME NEW j \in Jobs, MarkRead(p, j) PROVE CountsOK'
  <2> DEFINE f == [frame[p] EXCEPT !.job = j, !.row = ReadRow(j)]
  <2>1. Goto(p, "markSave") /\ SetFrame(p, f) /\ db' = db /\ pc[p] = "mark"
    BY <1>8 DEF MarkRead
  <2>2. f.job = j /\ f.row = ReadRow(j)
    BY <1>0 DEF Frame
  <2> HIDE DEF f
  <2>3. "markSave" \in Labels \ {"append", "idle", "down"}
    BY DEF Labels
  <2> QED
    BY <1>0, <1>h, <2>1, <2>2, <2>3, CountsQuiet
<1>9. CASE MarkSave(p)
  <2> DEFINE left == frame[p].todo \ {frame[p].job}
             next == IF left = {} THEN frame[p].loaded ELSE left
             f == [Forget(p) EXCEPT !.todo = next]
             r == MarkJobDue(frame[p].row, frame[p].now)
  <2>1. SetFrame(p, f) /\ Save(frame[p].job, r) /\ pc[p] = "markSave"
    BY <1>9 DEF MarkSave
  <2>2. PICK label \in {"tick", "mark"} : Goto(p, label)
    BY <1>9 DEF MarkSave
  <2>3. r \in Row /\ r.runs = frame[p].row.runs
    BY <1>0, MarkJobDueOK, RowRuns, FrameFields DEF IInv
  <2>4. f.job = Forget(p).job /\ f.row = Forget(p).row
    <3>1. Forget(p) \in Frame
      BY ForgetOK DEF IInv
    <3> HIDE DEF next
    <3> QED
      BY <3>1 DEF Frame
  <2> HIDE DEF f, r
  <2>5. label \in Labels \ {"append", "idle", "down"}
    BY DEF Labels
  <2> QED
    BY <1>0, <1>h, <2>1, <2>2, <2>3, <2>4, <2>5, CountsQuiet
<1>10. CASE ToggleRead(p)
  <2> DEFINE f == [frame[p] EXCEPT !.row = ReadRow(frame[p].job)]
  <2>1. Goto(p, "toggleSave") /\ SetFrame(p, f) /\ db' = db /\ pc[p] = "toggle"
    BY <1>10 DEF ToggleRead
  <2>2. f.job = frame[p].job /\ f.row = ReadRow(frame[p].job)
    BY <1>0 DEF Frame
  <2> HIDE DEF f
  <2>3. "toggleSave" \in Labels \ {"append", "idle", "down"}
    BY DEF Labels
  <2> QED
    BY <1>0, <1>h, <2>1, <2>2, <2>3, CountsQuiet
<1>11. CASE ToggleSave(p)
  <2> DEFINE value == IF frame[p].job \in frame[p].plan THEN "enabled" ELSE "disabled"
             r == Toggled(frame[p].row, value)
  <2>1. /\ Goto(p, "done") /\ SetFrame(p, EmptyFrame) /\ pc[p] = "toggleSave"
        /\ Save(frame[p].job, r)
    BY <1>11, Leaving DEF ToggleSave
  <2>2. r.runs = frame[p].row.runs
    BY <1>0, RowRuns
  <2>3. r \in Row
    BY <1>0 DEF Toggled, Row, CronJobStatus
  <2> HIDE DEF r
  <2>4. "done" \in Labels \ {"append", "idle", "down"}
    BY DEF Labels
  <2> QED
    BY <1>0, <1>h, <2>1, <2>2, <2>3, <2>4, CountsQuiet
<1> QED
  BY <1>1, <1>2, <1>3, <1>4, <1>5, <1>6, <1>7, <1>8, <1>9, <1>10, <1>11

LEMMA RequestCounts ==
    ASSUME IInv, IInv', CountsOK, NEW p \in Procs, Request(p) \/ ManualClear(p) \/ ManualSkip(p)
    PROVE  CountsOK'
<1>0. /\ frame[p].job \in Jobs /\ frame[p].row \in Row /\ frame[p] \in Frame
      /\ frame[p].row.runs \in Nat /\ frame[p].row.runs <= Backed(frame[p].job)
      /\ EmptyFrame.job \in Jobs /\ EmptyFrame.row.runs = 0
      /\ Forget(p).job = frame[p].job /\ Forget(p).row.runs = 0
      /\ \A j \in Jobs : Backed(j) \in Nat /\ 0 <= Backed(j)
      /\ \A j \in Jobs : ReadRow(j).runs \in Nat /\ ReadRow(j).runs <= Backed(j)
  BY FrameRuns
<1>h. /\ \A j \in Jobs : history'[j] >= history[j]
      /\ faults' >= faults
  <2>1. \A j \in Jobs : history[j] \in Nat
    BY DEF IInv, RestOK
  <2>2. history' = history \/ history' = [history EXCEPT ![frame[p].job] = @ + 1]
    BY DEF Request, ManualRun, ManualClear, ManualSkip, AdminCreateDelete, AdminUpdate
  <2>3. \A j \in Jobs : history'[j] >= history[j]
    BY <2>1, <2>2 DEF IInv, RestOK
  <2>4. faults' = faults
    BY DEF Request, ManualRun, ManualClear, ManualSkip, AdminCreateDelete, AdminUpdate
  <2> QED
    BY <2>3, <2>4 DEF IInv, RestOK
<1>1. ASSUME NEW j \in Jobs, ManualRun(p, j) PROVE CountsOK'
  <2> DEFINE row == IF ReadRow(j).status = "running" THEN ReadRow(j) ELSE BlankRow
             f == [job |-> j, row |-> row, now |-> clock, loaded |-> {j}, plan |-> {j},
                   todo |-> {j}]
  <2>1. PICK label \in {"mark", "skip", "clear"} : Goto(p, label)
    BY <1>1 DEF ManualRun
  <2>2. SetFrame(p, f) /\ db' = db /\ pc[p] = "idle"
    BY <1>1 DEF ManualRun
  <2>3. row.runs \in Nat /\ row.runs <= Backed(j)
    BY <1>0 DEF BlankRow
  <2> HIDE DEF row
  <2>4. f.job = j /\ f.row = row
    OBVIOUS
  <2> HIDE DEF f
  <2>5. label \in Labels \ {"append", "idle", "down"}
    BY DEF Labels
  <2> QED
    BY <1>0, <1>h, <2>1, <2>2, <2>3, <2>4, <2>5, CountsQuiet
<1>2. CASE ManualClear(p)
  <2> DEFINE r == ClearStuck(frame[p].row)
  <2>1. /\ Goto(p, "mark") /\ SetFrame(p, Forget(p)) /\ pc[p] = "clear"
        /\ Save(frame[p].job, r)
    BY <1>2 DEF ManualClear
  <2>2. r \in Row /\ r.runs = frame[p].row.runs
    BY <1>0, ClearStuckOK, RowRuns
  <2> HIDE DEF r
  <2>3. "mark" \in Labels \ {"append", "idle", "down"}
    BY DEF Labels
  <2> QED
    BY <1>0, <1>h, <2>1, <2>2, <2>3, CountsQuiet
<1>3. CASE ManualSkip(p)
  <2>1. Goto(p, "done") /\ SetFrame(p, EmptyFrame) /\ db' = db /\ pc[p] = "skip"
    BY <1>3, Leaving DEF ManualSkip
  <2>2. "done" \in Labels \ {"append", "idle", "down"}
    BY DEF Labels
  <2> QED
    BY <1>0, <1>h, <2>1, <2>2, CountsQuiet
<1>4. ASSUME NEW j \in Jobs, NEW value \in ConfigValue, AdminCreateDelete(p, j, value)
      PROVE  CountsOK'
  <2>1. Goto(p, "done") /\ SetFrame(p, frame[p]) /\ db' = db /\ pc[p] = "idle"
    BY <1>4, KeepFrame DEF AdminCreateDelete
  <2>2. "done" \in Labels \ {"append", "idle", "down"}
    BY DEF Labels
  <2> QED
    BY <1>0, <1>h, <2>1, <2>2, CountsQuiet
<1>5. ASSUME NEW j \in Jobs, NEW value \in ConfigValue, AdminUpdate(p, j, value)
      PROVE  CountsOK'
  <2> DEFINE plan == IF value = "enabled" THEN {j} ELSE {}
             f == [frame[p] EXCEPT !.job = j, !.plan = plan]
  <2>1. Goto(p, "toggle") /\ SetFrame(p, f) /\ db' = db /\ pc[p] = "idle"
    BY <1>5 DEF AdminUpdate
  <2>2. f.job = j /\ f.row = frame[p].row
    <3> HIDE DEF plan
    <3> QED BY <1>0 DEF Frame
  <2>3. frame[p].row.runs = 0
    BY <2>1 DEF CountsOK
  <2> HIDE DEF f
  <2>4. "toggle" \in Labels \ {"append", "idle", "down"}
    BY DEF Labels
  <2> QED
    BY <1>0, <1>h, <2>1, <2>2, <2>3, <2>4, CountsQuiet
<1> QED
  BY <1>1, <1>2, <1>3, <1>4, <1>5 DEF Request

\* The result is counted in the row before it is in the history.
LEMMA FinishCounts ==
    ASSUME IInv, IInv', CountsOK, NEW p \in Procs, NEW outcome \in JobRunStatus,
           FinishRun(p, outcome)
    PROVE  CountsOK'
<1> DEFINE k == frame[p].job
           r == MarkFinished(p, k, frame[p].row, outcome, clock)
<1>0. /\ k \in Jobs /\ frame[p].row \in Row /\ frame[p].row.runs \in Nat
      /\ frame[p].row.runs <= Backed(k)
      /\ Forget(p).job = k /\ Forget(p).row.runs = 0
      /\ \A j \in Jobs : Backed(j) \in Nat
  BY FrameRuns
<1>1. /\ pc[p] = "exec" /\ Goto(p, "append") /\ SetFrame(p, Forget(p)) /\ Save(k, r)
      /\ history' = history /\ faults' = faults
  BY DEF FinishRun
<1>2. r.runs = frame[p].row.runs + 1
  <2>1. \A x \in Row : MarkFinished(p, k, x, outcome, clock).runs = x.runs + 1
    BY DEF MarkFinished, Row
  <2> QED
    BY <1>0, <2>1
<1> HIDE DEF r
<1>3. PICK i \in Jobs : i = k
  BY <1>0
<1>4. /\ pc'[p] = "append" /\ frame'[p].job = i
      /\ \A q \in Procs \ {p} : pc'[q] = pc[q] /\ frame'[q] = frame[q]
  BY <1>0, <1>1, <1>3 DEF Goto, SetFrame, IInv, RestOK, FramesOK
<1>5. ASSUME NEW j \in Jobs
      PROVE  Backed(j)' = IF j = i THEN Backed(j) + 1 ELSE Backed(j)
  <2>1. Appending(j)' = IF j = i THEN Appending(j) \cup {p} ELSE Appending(j)
    BY <1>1, <1>4 DEF Appending
  <2>2. p \notin Appending(j)
    BY <1>1 DEF Appending
  <2>3. /\ IsFiniteSet(Appending(j)) /\ Cardinality(Appending(j)) \in Nat
        /\ Cardinality(Appending(j) \cup {p}) = Cardinality(Appending(j)) + 1
    BY <2>2, AppendingFinite, FS_AddElement
  <2>4. Cardinality(Appending(j)') =
            IF j = i THEN Cardinality(Appending(j)) + 1 ELSE Cardinality(Appending(j))
    BY <2>1, <2>3
  <2>5. history[j] \in Nat /\ faults \in Nat
    BY DEF IInv, RestOK
  <2> QED
    BY <1>1, <2>3, <2>4, <2>5 DEF Backed
<1>6. \A j \in Jobs : Backed(j)' \in Nat /\ Backed(j)' >= Backed(j)
  BY <1>0, <1>5
<1>7. \A j \in Jobs : db'[j] = db[j] \/ (db'[j] # NoRow => db'[j].runs <= Backed(j)')
  <2>1. r.runs <= Backed(i)'
    BY <1>0, <1>2, <1>3, <1>5
  <2> QED
    BY <1>1, <1>3, <2>1 DEF Save, IInv, StoreOK
<1>8. Forget(p).row.runs <= Backed(i)'
  BY <1>0, <1>6
<1> HIDE DEF k
<1> QED
  BY <1>0, <1>1, <1>3, <1>6, <1>7, <1>8, CountsStep

\* A call that ends while it may be appending: done, failed or dead.
LEMMA EndCounts ==
    ASSUME IInv, IInv', CountsOK, NEW p \in Procs,
           AppendRun(p) \/ Crash(p) \/ TickFails(p)
    PROVE  CountsOK'
<1>0. /\ EmptyFrame.job \in Jobs /\ EmptyFrame.row.runs = 0
      /\ \A j \in Jobs : Backed(j) \in Nat /\ 0 <= Backed(j)
  BY FrameRuns
<1>1. PICK label \in Labels \ {"append"} :
          /\ Goto(p, label)
          /\ \E f : SetFrame(p, f) /\ f.job = EmptyFrame.job /\ f.row.runs = 0
  BY Leaving, FrameRuns DEF AppendRun, Crash, TickFails, Labels
<1>2. PICK f : SetFrame(p, f) /\ f.job = EmptyFrame.job /\ f.row.runs = 0
  BY <1>1
<1>3. /\ db' = db
      /\ \/ pc[p] = "append" /\ history' = [history EXCEPT ![frame[p].job] = @ + 1] /\ faults' = faults
         \/ history' = history /\ faults' = faults + 1
  BY DEF AppendRun, Crash, TickFails
<1>4. \A q \in Procs \ {p} : frame'[q] = frame[q]
  BY <1>2 DEF SetFrame, IInv, FramesOK
<1>5. \A j \in Jobs : Backed(j)' >= Backed(j)
  <2>1. CASE pc[p] = "append"
    BY <1>1, <1>3, <1>4, <2>1, AppendedStep
  <2>2. CASE pc[p] # "append"
    <3>1. history' = history /\ faults' >= faults /\ \A j \in Jobs : history'[j] >= history[j]
      BY <1>3, <2>2 DEF IInv, RestOK
    <3> QED
      BY <1>1, <1>4, <2>2, <3>1, QuietStep DEF IInv, RestOK
  <2> QED
    BY <2>1, <2>2
<1>6. \A j \in Jobs : Backed(j)' \in Nat
  <2> SUFFICES ASSUME NEW j \in Jobs PROVE Backed(j)' \in Nat
    OBVIOUS
  <2>1. IsFiniteSet(Procs) /\ Appending(j)' \in SUBSET Procs
    BY CronAssumption DEF Appending
  <2>2. Cardinality(Appending(j)') \in Nat
    BY <2>1, FS_Subset, FS_CardinalityType
  <2> QED
    BY <2>2 DEF Backed, IInv, RestOK
<1>7. PICK k \in Jobs : k = EmptyFrame.job
  BY <1>0
<1>8. f.row.runs <= Backed(k)'
  BY <1>2, <1>6
<1> QED
  BY <1>1, <1>2, <1>3, <1>5, <1>6, <1>7, <1>8, CountsStep

LEMMA InitCounts == Init => CountsOK
<1> SUFFICES ASSUME Init PROVE CountsOK
  OBVIOUS
<1>1. IInv
  BY InitOK
<1>2. EmptyFrame.job \in Jobs /\ EmptyFrame.row.runs = 0
  BY EmptyFrameOK DEF EmptyFrame, Frame, BlankRow
<1>3. Backed(EmptyFrame.job) \in Nat
  BY <1>1, <1>2, BackedType
<1> QED
  BY <1>2, <1>3 DEF Init, CountsOK

LEMMA CountsInductive == IInv /\ IInv' /\ CountsOK /\ [Next]_vars => CountsOK'
<1> SUFFICES ASSUME IInv, IInv', CountsOK, [Next]_vars PROVE CountsOK'
  OBVIOUS
<1>1. CASE Tick \/ UNCHANGED vars
  <2>1. UNCHANGED <<db, history, pc, frame, faults>>
    BY <1>1 DEF Tick, vars
  <2>2. \A j : Appending(j)' = Appending(j)
    BY <2>1 DEF Appending
  <2>3. \A j : Backed(j)' = Backed(j)
    BY <2>1, <2>2 DEF Backed
  <2> QED
    BY <2>1, <2>3 DEF CountsOK
<1>2. ASSUME NEW p \in Procs, Step(p) \/ Request(p) \/ Crash(p) \/ TickFails(p)
      PROVE  CountsOK'
  BY <1>2, TickCounts, RequestCounts, FinishCounts, EndCounts DEF Step
<1> QED
  BY <1>1, <1>2 DEF Next

\* run_count never claims a run that the history does not have, but for the
\* results being appended and those a crash or a store error lost, although the
\* row is saved before the result is appended and stale rows are saved over it.
THEOREM CountsAreBacked == Spec => []RunCountBacked
<1>1. IInv /\ CountsOK => RunCountBacked
  BY DEF CountsOK, RunCountBacked, Stored, Backed, Appending
<1> QED
  BY <1>1, InitCounts, CountsInductive, Invariance, PTL DEF Spec
=============================================================================
