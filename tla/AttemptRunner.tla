--------------------------- MODULE AttemptRunner ---------------------------
(***************************************************************************)
(* One agent run: AgentRunLoop tries attempts until one completes, and an  *)
(* attempt executes the tool plan of the planner in waves.  A wave first   *)
(* skips the steps that have a blocking dependency, then calls the tools   *)
(* of the steps whose dependencies are finished, concurrently.             *)
(*                                                                         *)
(* A plan is whatever parse_tool_plan_content lets through: dependencies   *)
(* name other steps of the plan, may be circular, and step ids, which the  *)
(* language model chooses, may be repeated.                                *)
(*                                                                         *)
(* A definition named Op_Suffix is a faulty form of Op, kept to see that   *)
(* the properties notice it; the specification does not use it.            *)
(***************************************************************************)
EXTENDS Integers, Sequences, FiniteSets

CONSTANTS
    Ids,             \* step ids
    Plans,           \* the plans a planner may return: sequences of calls
    MaxAttempts,     \* agent_max_attempts
    MaxConcurrency   \* agent_tool_call_max_concurrency

Call == [id : Ids, deps : SUBSET Ids, required : BOOLEAN]

IdsOf(p) == {p[k].id : k \in DOMAIN p}

\* _filter_dependencies keeps the dependencies on other steps of the plan.
Filtered(p) == \A k \in DOMAIN p : p[k].deps \subseteq IdsOf(p) \ {p[k].id}

ASSUME AttemptAssumption ==
    /\ \A p \in Plans : p \in Seq(Call) /\ p # <<>> /\ Filtered(p)
    /\ MaxAttempts \in Nat \ {0}
    /\ MaxConcurrency \in Nat \ {0}

VARIABLES
    attempt,   \* number of the attempt
    phase,     \* what the attempt does next
    plan,      \* its tool plan
    case,      \* status of its case
    step,      \* status of the steps of the case
    pending,   \* pending_step_ids, as positions of the plan
    scan,      \* positions the wave has not looked at yet
    progress,  \* skipped_this_wave
    blocking,  \* blocking_step_ids
    finished,  \* finished_step_ids
    wave,      \* positions of the steps whose tools the wave calls
    call,      \* tool calls: none, queued, running, and their records ok, failed
    traces,    \* number of tool traces of each step
    stored     \* number of the stores (case, evidence, report) written

planning == <<attempt, plan>>
queues == <<pending, scan, progress, wave>>
verdicts == <<blocking, finished, traces>>
vars == <<planning, queues, verdicts, phase, case, step, call, stored>>

Lifecycle == INSTANCE CaseLifecycle

Phases == {"plan", "scan", "call", "store", "done", "raised"}
CallStatus == {"none", "queued", "running", "ok", "failed"}

Init ==
    /\ attempt = 1 /\ phase = "plan" /\ plan = <<>>
    /\ case = "none" /\ step = [i \in Ids |-> "none"]
    /\ pending = {} /\ scan = {} /\ progress = FALSE /\ wave = {}
    /\ blocking = {} /\ finished = {} /\ traces = [i \in Ids |-> 0]
    /\ call = [i \in Ids |-> "none"] /\ stored = 0

-----------------------------------------------------------------------------
\* calls_by_step_id, the last call of a repeated id.
CallOf(i) ==
    plan[CHOOSE k \in DOMAIN plan :
             plan[k].id = i /\ \A m \in DOMAIN plan : plan[m].id = i => m <= k]

Deps(i) == CallOf(i).deps
Required(i) == CallOf(i).required

\* The step at position k of the plan, and the steps at the positions K.
Id(k) == plan[k].id
StepsAt(K) == {Id(k) : k \in K}

First(K) == {k \in K : \A m \in K : k <= m}

Distinct(K) == \A k, m \in K : Id(k) = Id(m) => k = m

Ready_AnyDep(i) == Deps(i) = {} \/ Deps(i) \cap finished # {}
Ready(i) == Deps(i) \subseteq finished

Blocked(i) == Deps(i) \cap blocking # {}

BlockingOf(S) == {i \in S : Required(i)}

ReadyCalls == {k \in pending : Ready(Id(k))}

\* The pending steps change status together: none of them twice.
MayChange(K) == Distinct(K) /\ \A i \in StepsAt(K) : step[i] = "pending"

\* A new pass over the pending steps.
BeginScan(K) == pending' = K /\ scan' = K /\ progress' = FALSE /\ phase' = "scan"

-----------------------------------------------------------------------------
(* The attempt.                                                            *)

\* No playbook, no planner, no plan, or a tool that is not allowed.
PlanFails ==
    /\ phase = "plan"
    /\ case' = "failed" /\ step' = [i \in Ids |-> "none"]
    /\ phase' = "store"
    /\ UNCHANGED <<planning, queues, verdicts, call, stored>>

MakePlan ==
    /\ phase = "plan"
    /\ \E p \in Plans :
          /\ plan' = p
          /\ step' = [i \in Ids |-> IF i \in IdsOf(p) THEN "pending" ELSE "none"]
          /\ BeginScan(DOMAIN p)
    /\ case' = "planned"
    /\ UNCHANGED <<attempt, wave, verdicts, call, stored>>

\* A pending step with a failed or skipped required dependency.  list.remove
\* takes the first position of the id.
SkipBlocked(k) ==
    /\ phase = "scan" /\ k \in First(scan) /\ Blocked(Id(k))
    /\ step[Id(k)] = "pending"
    /\ step' = [step EXCEPT ![Id(k)] = "skipped"]
    /\ traces' = [traces EXCEPT ![Id(k)] = @ + 1]
    /\ finished' = finished \cup {Id(k)}
    /\ blocking' = blocking \cup BlockingOf({Id(k)})
    /\ pending' = pending \ First({m \in pending : Id(m) = Id(k)})
    /\ scan' = scan \ {k} /\ progress' = TRUE
    /\ UNCHANGED <<planning, wave, phase, case, call, stored>>

PassOver(k) ==
    /\ phase = "scan" /\ k \in First(scan) /\ ~Blocked(Id(k))
    /\ scan' = scan \ {k}
    /\ UNCHANGED <<planning, pending, progress, wave, verdicts, phase, case, step, call, stored>>

Scanned == phase = "scan" /\ scan = {} /\ pending # {}

Rescan_Always ==
    /\ Scanned /\ ReadyCalls = {}
    /\ BeginScan(pending)
    /\ UNCHANGED <<planning, wave, verdicts, case, step, call, stored>>

Rescan ==
    /\ Scanned /\ ReadyCalls = {} /\ progress
    /\ BeginScan(pending)
    /\ UNCHANGED <<planning, wave, verdicts, case, step, call, stored>>

\* Nothing ready, nothing skipped: the rest waits for itself.
BreakCycle ==
    /\ Scanned /\ ReadyCalls = {} /\ ~progress /\ MayChange(pending)
    /\ LET rest == StepsAt(pending)
       IN  /\ step' = [i \in Ids |-> IF i \in rest THEN "skipped" ELSE step[i]]
           /\ traces' = [i \in Ids |-> IF i \in rest THEN traces[i] + 1 ELSE traces[i]]
           /\ finished' = finished \cup rest
           /\ blocking' = blocking \cup BlockingOf(rest)
    /\ pending' = {}
    /\ UNCHANGED <<planning, scan, progress, wave, phase, case, call, stored>>

StartWave ==
    /\ Scanned /\ ReadyCalls # {} /\ MayChange(ReadyCalls)
    /\ wave' = ReadyCalls
    /\ LET ready == StepsAt(ReadyCalls)
       IN  /\ step' = [i \in Ids |-> IF i \in ready THEN "running" ELSE step[i]]
           /\ call' = [i \in Ids |-> IF i \in ready THEN "queued" ELSE call[i]]
    /\ case' = "running" /\ phase' = "call"
    /\ UNCHANGED <<planning, pending, scan, progress, verdicts, stored>>

CallsOf(status) == {k \in wave : call[Id(k)] = status}

\* The worker threads take the calls in order and finish in any order.
BeginCall(k) ==
    /\ phase = "call" /\ k \in First(CallsOf("queued"))
    /\ Cardinality(CallsOf("running")) < MaxConcurrency
    /\ call' = [call EXCEPT ![Id(k)] = "running"]
    /\ UNCHANGED <<planning, queues, verdicts, phase, case, step, stored>>

EndCall(k, outcome) ==
    /\ phase = "call" /\ k \in CallsOf("running")
    /\ call' = [call EXCEPT ![Id(k)] = outcome]
    /\ UNCHANGED <<planning, queues, verdicts, phase, case, step, stored>>

\* All the calls have returned.
EndWave ==
    /\ phase = "call" /\ wave \subseteq CallsOf("ok") \cup CallsOf("failed")
    /\ finished' = finished \cup StepsAt(wave)
    /\ traces' = [i \in Ids |-> IF i \in StepsAt(wave) THEN traces[i] + 1 ELSE traces[i]]
    /\ blocking' = blocking \cup BlockingOf(StepsAt(CallsOf("failed")))
    /\ BeginScan(pending \ wave)
    /\ wave' = {}
    /\ UNCHANGED <<planning, case, step, call, stored>>

\* The status a step gets from its record.
StepVerdict_Raw(i) == call[i]
StepVerdict_OkOnly(i) == IF call[i] = "ok" THEN "completed" ELSE step[i]
StepVerdict(i) ==
    CASE call[i] = "ok"     -> "completed"
      [] call[i] = "failed" -> "failed"
      [] OTHER              -> step[i]

CaseVerdict_SkipsForgiven ==
    IF \E i \in IdsOf(plan) : Required(i) /\ call[i] = "failed"
    THEN "failed" ELSE "completed"
CaseVerdict ==
    IF \E i \in IdsOf(plan) : Required(i) /\ StepVerdict(i) \in {"failed", "skipped"}
    THEN "failed" ELSE "completed"

Verdict ==
    /\ phase = "scan" /\ pending = {}
    /\ <<case, CaseVerdict>> \in Lifecycle!CaseTransitions
    /\ step' = [i \in Ids |-> StepVerdict(i)]
    /\ case' = CaseVerdict
    /\ phase' = "store"
    /\ UNCHANGED <<planning, queues, verdicts, call, stored>>

\* case_store, evidence_store and report_store, one after the other.
Persist ==
    /\ phase = "store" /\ stored < 3
    /\ stored' = stored + 1
    /\ UNCHANGED <<planning, queues, verdicts, phase, case, step, call>>

\* AgentRunLoop: a completed attempt or the last one ends the run.
EndRun ==
    /\ phase = "store" /\ stored = 3
    /\ case = "completed" \/ attempt = MaxAttempts
    /\ phase' = "done"
    /\ UNCHANGED <<planning, queues, verdicts, case, step, call, stored>>

NextAttempt ==
    /\ phase = "store" /\ stored = 3
    /\ case # "completed" /\ attempt < MaxAttempts
    /\ attempt' = attempt + 1 /\ phase' = "plan" /\ plan' = <<>>
    /\ pending' = {} /\ scan' = {} /\ progress' = FALSE /\ wave' = {}
    /\ blocking' = {} /\ finished' = {} /\ traces' = [i \in Ids |-> 0]
    /\ call' = [i \in Ids |-> "none"] /\ stored' = 0
    /\ UNCHANGED <<case, step>>

\* A status change that _transition_step_status or _transition_case_status
\* refuses: a repeated step id, or a case completed before it ran.
IllegalChange ==
    \/ \E k \in First(scan) : Blocked(Id(k)) /\ step[Id(k)] # "pending"
    \/ Scanned /\ ReadyCalls # {} /\ ~MayChange(ReadyCalls)
    \/ Scanned /\ ReadyCalls = {} /\ ~progress /\ ~MayChange(pending)
    \/ pending = {} /\ <<case, CaseVerdict>> \notin Lifecycle!CaseTransitions

\* StateTransitionError: nothing between here and the caller of the run
\* catches it, and the case of the attempt is not stored.
Raise ==
    /\ phase = "scan" /\ IllegalChange
    /\ phase' = "raised"
    /\ UNCHANGED <<planning, queues, verdicts, case, step, call, stored>>

\* A store that refuses a write ends the run the same way.
StoreFails ==
    /\ phase = "store" /\ stored < 3
    /\ phase' = "raised"
    /\ UNCHANGED <<planning, queues, verdicts, case, step, call, stored>>

Next ==
    \/ PlanFails \/ MakePlan
    \/ \E k \in scan : SkipBlocked(k) \/ PassOver(k)
    \/ Rescan \/ BreakCycle \/ StartWave
    \/ \E k \in wave : BeginCall(k) \/ \E o \in {"ok", "failed"} : EndCall(k, o)
    \/ EndWave \/ Verdict \/ Persist \/ EndRun \/ NextAttempt
    \/ Raise \/ StoreFails

\* Every tool call has a timeout and returns; the rest is straight-line code.
Spec == Init /\ [][Next]_vars /\ WF_vars(Next)

-----------------------------------------------------------------------------
(* Properties.                                                             *)

\* Every variable keeps its type: statuses are those of contracts/case.py and
\* the queues of the scheduling loop hold positions of the plan.
TypeOK ==
    /\ attempt \in 1..MaxAttempts /\ phase \in Phases /\ plan \in Plans \cup {<<>>}
    /\ case \in Lifecycle!CaseStatus /\ step \in [Ids -> Lifecycle!StepStatus]
    /\ pending \subseteq DOMAIN plan /\ scan \subseteq DOMAIN plan
    /\ wave \subseteq pending /\ progress \in BOOLEAN
    /\ blocking \subseteq Ids /\ finished \subseteq Ids
    /\ call \in [Ids -> CallStatus] /\ traces \in [Ids -> Nat] /\ stored \in 0..3

\* A tool is only called when every step it depends on has finished, and never
\* when the tool call of a required one of them failed (attempt_runner.py 217-283).
CallsAfterDependencies ==
    \A i \in IdsOf(plan) : call[i] # "none" =>
        \A d \in Deps(i) : d \in finished /\ ~(Required(d) /\ call[d] = "failed")

\* The steps of S wait for each other.
WaitInCircle(S) == S # {} /\ \A i \in S : Deps(i) \cap S # {}

\* A step is only skipped because a required dependency failed or was skipped,
\* or because it waits, directly or not, for a circle of dependencies
\* (attempt_runner.py 217-278).
SkippedForReason ==
    \A i \in IdsOf(plan) : step[i] = "skipped" =>
        \/ \E d \in Deps(i) : Required(d) /\ (call[d] = "failed" \/ step[d] = "skipped")
        \/ \E S \in SUBSET IdsOf(plan) : i \in S /\ WaitInCircle(S)

\* Both: the plan's order decides what is called and what is left out.
StepsJustified == CallsAfterDependencies /\ SkippedForReason

\* What the stores are given is the verdict on the calls: the case is completed
\* exactly when every required step was called and answered, and every step has
\* left exactly one trace (attempt_runner.py 306-375).
StoredVerdictHonest ==
    stored > 0 /\ plan # <<>> =>
        /\ case = "completed" <=> \A i \in IdsOf(plan) : Required(i) => call[i] = "ok"
        /\ \A i \in IdsOf(plan) : traces[i] = 1

\* A run ends, with a stored verdict or an exception, whatever the plans and
\* the tools answer (run_loop.py 49-87).
RunEnds == <>(phase \in {"done", "raised"})

\* The case and its steps change status as contracts/state_machine.py allows.
LifecycleKept == Lifecycle!Spec
=============================================================================
