------------------------ MODULE AttemptRunnerProofs ------------------------
(***************************************************************************)
(* Proofs about AttemptRunner for every set of plans: the types, what the  *)
(* plan says of what is called and skipped, the verdict that is stored,    *)
(* and that every step of a run is a step of CaseLifecycle.  Which status  *)
(* changes are legal depends on what the scheduling loop has done with a   *)
(* step, which Settling relates to its status; the verdict depends on what *)
(* the loop has noted of the finished steps (JInv).                        *)
(***************************************************************************)
EXTENDS AttemptRunner, TLAPS, WellFoundedInduction

\* What the phase of the attempt says of the status of its case.
CaseInPhase ==
    /\ phase = "plan" => case \in {"none", "failed"}
    /\ phase = "scan" => case \in {"planned", "running"}
    /\ phase = "call" => case = "running"
    /\ phase = "store" => case \in {"completed", "failed"}
    /\ phase # "call" => wave = {}
    /\ phase = "plan" => \A i \in Ids : call[i] = "none"

\* While the loop runs, an open step is still to be handled: it is pending,
\* its tool is being called, or its record is there.
Settling ==
    phase \in {"scan", "call"} =>
        \A i \in Ids :
            /\ step[i] = "pending" => i \in StepsAt(pending)
            /\ step[i] = "running" => call[i] \in {"ok", "failed"} \/ i \in StepsAt(wave)
            /\ call[i] # "none" => step[i] = "running"

IInv == TypeOK /\ CaseInPhase /\ Settling

LEMMA IdType ==
    ASSUME TypeOK, NEW k \in DOMAIN plan PROVE Id(k) \in Ids
  <1>1. CASE plan = <<>>
    BY <1>1
  <1>2. CASE plan \in Plans
    <2>1. plan \in Seq(Call)
      BY <1>2, AttemptAssumption
    <2>2. plan[k] \in Call
      BY <2>1
    <2> QED BY <2>2 DEF Call, Id
  <1> QED BY <1>1, <1>2 DEF TypeOK

LEMMA StepsType ==
    ASSUME TypeOK PROVE /\ StepsAt(pending) \subseteq Ids
                        /\ StepsAt(wave) \subseteq Ids
                        /\ StepsAt(ReadyCalls) \subseteq Ids
                        /\ StepsAt(CallsOf("failed")) \subseteq Ids
  BY IdType DEF StepsAt, ReadyCalls, CallsOf, TypeOK

LEMMA AttemptsPositive == MaxAttempts \in Nat /\ MaxAttempts > 0
  BY AttemptAssumption

LEMMA InitOK == Init => IInv
  <1> SUFFICES ASSUME Init PROVE IInv
    OBVIOUS
  <1> USE DEF Init, Phases, CallStatus, Lifecycle!CaseStatus, Lifecycle!StepStatus
  <1>3. attempt \in 1..MaxAttempts
    BY AttemptsPositive
  <1>4. /\ step \in [Ids -> Lifecycle!StepStatus] /\ call \in [Ids -> CallStatus]
        /\ traces \in [Ids -> Nat]
    OBVIOUS
  <1>5. pending \subseteq DOMAIN plan /\ scan \subseteq DOMAIN plan /\ wave \subseteq pending
    OBVIOUS
  <1>6. progress \in BOOLEAN
    OBVIOUS
  <1>1. TypeOK
    BY <1>3, <1>4, <1>5, <1>6 DEF TypeOK
  <1>2. CaseInPhase /\ Settling
    BY DEF Init, CaseInPhase, Settling
  <1> QED BY <1>1, <1>2 DEF IInv

LEMMA PlanningOK ==
    ASSUME IInv, PlanFails \/ MakePlan \/ NextAttempt PROVE IInv'
  <1> USE DEF IInv, Phases, CallStatus, Lifecycle!CaseStatus, Lifecycle!StepStatus
  <1>1. CASE PlanFails
    BY <1>1 DEF PlanFails, TypeOK, CaseInPhase, Settling, planning, queues, verdicts
  <1>2. CASE MakePlan
    <2> PICK p \in Plans : plan' = p
                        /\ step' = [i \in Ids |-> IF i \in IdsOf(p) THEN "pending" ELSE "none"]
                        /\ BeginScan(DOMAIN p)
      BY <1>2 DEF MakePlan
    <2>1. TypeOK'
      BY <1>2 DEF MakePlan, BeginScan, TypeOK, CaseInPhase, verdicts
    <2>2. CaseInPhase'
      BY <1>2 DEF MakePlan, BeginScan, CaseInPhase
    <2>3. Settling'
      BY <1>2 DEF MakePlan, BeginScan, CaseInPhase, Settling, TypeOK, StepsAt, Id, IdsOf
    <2> QED BY <2>1, <2>2, <2>3
  <1>3. CASE NextAttempt
    <2>3. attempt' \in 1..MaxAttempts
      BY <1>3, AttemptsPositive DEF NextAttempt, TypeOK
    <2>4. call' \in [Ids -> CallStatus] /\ traces' \in [Ids -> Nat]
      BY <1>3 DEF NextAttempt
    <2>5. progress' \in BOOLEAN
      BY <1>3 DEF NextAttempt
    <2>1. TypeOK'
      BY <1>3, <2>3, <2>4, <2>5 DEF NextAttempt, TypeOK
    <2>2. CaseInPhase' /\ Settling'
      BY <1>3 DEF NextAttempt, CaseInPhase, Settling
    <2> QED BY <2>1, <2>2
  <1> QED BY <1>1, <1>2, <1>3

LEMMA ScanOK ==
    ASSUME IInv, Rescan \/ BreakCycle \/ \E k \in scan : SkipBlocked(k) \/ PassOver(k)
    PROVE  IInv'
  <1> USE DEF IInv, Phases, CallStatus, Lifecycle!CaseStatus, Lifecycle!StepStatus
  <1>1. CASE Rescan
    BY <1>1 DEF Rescan, Scanned, BeginScan, TypeOK, CaseInPhase, Settling, StepsAt, Id,
                planning, verdicts
  <1>2. CASE BreakCycle
    <2>1. TypeOK'
      BY <1>2, StepsType DEF BreakCycle, Scanned, TypeOK, CaseInPhase, BlockingOf, planning
    <2>2. CaseInPhase'
      BY <1>2 DEF BreakCycle, CaseInPhase
    <2>3. Settling'
      BY <1>2 DEF BreakCycle, Scanned, MayChange, Settling, TypeOK, StepsAt, Id, planning
    <2> QED BY <2>1, <2>2, <2>3
  <1>3. ASSUME NEW k \in scan, SkipBlocked(k) PROVE IInv'
    <2>1. Id(k) \in Ids
      BY IdType DEF TypeOK
    <2>2. TypeOK'
      BY <1>3, <2>1 DEF SkipBlocked, TypeOK, CaseInPhase, BlockingOf, planning
    <2>3. CaseInPhase'
      BY <1>3 DEF SkipBlocked, CaseInPhase
    <2>4. ASSUME NEW i \in Ids, step'[i] = "pending" PROVE i \in StepsAt(pending)'
      BY <1>3, <2>1, <2>4 DEF SkipBlocked, Settling, TypeOK, StepsAt, Id, First, planning
    <2>5. Settling'
      BY <1>3, <2>1, <2>4 DEF SkipBlocked, Settling, TypeOK, StepsAt, Id, planning
    <2> QED BY <2>2, <2>3, <2>5
  <1>4. ASSUME NEW k \in scan, PassOver(k) PROVE IInv'
    BY <1>4 DEF PassOver, TypeOK, CaseInPhase, Settling, StepsAt, Id, planning, verdicts
  <1> QED BY <1>1, <1>2, <1>3, <1>4

LEMMA WaveOK ==
    ASSUME IInv,
           \/ StartWave \/ EndWave
           \/ \E k \in wave : BeginCall(k) \/ \E o \in {"ok", "failed"} : EndCall(k, o)
    PROVE  IInv'
  <1> USE DEF IInv, Phases, CallStatus, Lifecycle!CaseStatus, Lifecycle!StepStatus
  <1>1. CASE StartWave
    <2>1. TypeOK'
      BY <1>1 DEF StartWave, Scanned, ReadyCalls, TypeOK, planning, verdicts
    <2>2. CaseInPhase'
      BY <1>1 DEF StartWave, CaseInPhase
    <2>3. Settling'
      BY <1>1 DEF StartWave, Scanned, CaseInPhase, MayChange, Settling, TypeOK, StepsAt, Id, planning
    <2> QED BY <2>1, <2>2, <2>3
  <1>2. CASE EndWave
    <2> DEFINE called == StepsAt(wave)
               failing == StepsAt(CallsOf("failed"))
    <2>5. called \subseteq Ids /\ failing \subseteq Ids
      BY StepsType
    <2>6. finished' = finished \cup called /\ blocking' \subseteq blocking \cup failing
      BY <1>2 DEF EndWave, BlockingOf
    <2>7. traces' \in [Ids -> Nat]
      BY <1>2 DEF EndWave, TypeOK
    <2> HIDE DEF called, failing
    <2>1. TypeOK'
      BY <1>2, <2>5, <2>6, <2>7 DEF EndWave, BeginScan, TypeOK, planning
    <2>2. CaseInPhase'
      BY <1>2 DEF EndWave, BeginScan, CaseInPhase
    <2>3. \A k \in wave : Id(k) \in Ids /\ step[Id(k)] = "running" /\ call[Id(k)] \in {"ok", "failed"}
      BY <1>2, IdType DEF EndWave, CallsOf, Settling, TypeOK
    <2>4. Settling'
      BY <1>2, <2>3 DEF EndWave, BeginScan, Settling, TypeOK, StepsAt, Id, planning
    <2> QED BY <2>1, <2>2, <2>4
  <1>3. ASSUME NEW k \in wave, NEW o \in {"running", "ok", "failed"},
               phase = "call", call[Id(k)] \in {"queued", "running"},
               call' = [call EXCEPT ![Id(k)] = o],
               UNCHANGED <<planning, queues, verdicts, phase, case, step, stored>>
        PROVE  IInv'
    <2>1. Id(k) \in Ids
      BY IdType DEF TypeOK
    <2>2. TypeOK' /\ CaseInPhase'
      BY <1>3, <2>1 DEF TypeOK, CaseInPhase, planning, queues, verdicts
    <2>3. Settling'
      BY <1>3, <2>1 DEF TypeOK, Settling, StepsAt, Id, planning, queues
    <2> QED BY <2>2, <2>3
  <1> QED BY <1>1, <1>2, <1>3 DEF BeginCall, EndCall, CallsOf, First

LEMMA EndingOK ==
    ASSUME IInv, Verdict \/ Persist \/ EndRun \/ Raise \/ StoreFails PROVE IInv'
  <1> USE DEF IInv, Phases, CallStatus, Lifecycle!CaseStatus, Lifecycle!StepStatus
  <1>1. CASE Verdict
    BY <1>1 DEF Verdict, StepVerdict, CaseVerdict, TypeOK, CaseInPhase, Settling,
                planning, queues, verdicts
  <1>2. CASE Persist \/ EndRun \/ Raise \/ StoreFails
    BY <1>2 DEF Persist, EndRun, Raise, StoreFails, TypeOK, CaseInPhase, Settling,
                planning, queues, verdicts
  <1> QED BY <1>1, <1>2

LEMMA Inductive == IInv /\ [Next]_vars => IInv'
  <1> SUFFICES ASSUME IInv, [Next]_vars PROVE IInv'
    OBVIOUS
  <1>1. CASE UNCHANGED vars
    BY <1>1 DEF vars, planning, queues, verdicts, IInv, TypeOK, CaseInPhase, Settling,
                StepsAt, Id
  <1> QED BY <1>1, PlanningOK, ScanOK, WaveOK, EndingOK DEF Next

LEMMA Invariance == Spec => []IInv
  BY InitOK, Inductive, PTL DEF Spec

\* Every variable of a run keeps its type.
THEOREM TypeCorrect == Spec => []TypeOK
  <1>1. IInv => TypeOK
    BY DEF IInv
  <1> QED BY <1>1, Invariance, PTL

-----------------------------------------------------------------------------
(* What the loop has noted of the steps it has handled.                    *)

\* The plan decides what a step needs and where it is.
LEMMA PlanKept ==
    ASSUME plan' = plan
    PROVE  /\ \A i : Deps(i)' = Deps(i) /\ Required(i)' = Required(i)
           /\ IdsOf(plan)' = IdsOf(plan)
           /\ \A k : Id(k)' = Id(k)
  BY DEF Deps, Required, CallOf, Id, IdsOf

\* A repeated id has a last position: calls_by_step_id is defined on the plan.
LEMMA LastHas ==
    ASSUME NEW p \in Seq(Call), NEW i \in IdsOf(p)
    PROVE  \E k \in DOMAIN p : p[k].id = i /\ \A m \in DOMAIN p : p[m].id = i => m <= k
  <1> DEFINE n == Len(p)
             At == {k \in 1 .. n : p[k].id = i}
             Left == {j \in Nat : n - j \in At}
             Less == {ab \in Nat \X Nat : ab[1] < ab[2]}
  <1>1. n \in Nat /\ DOMAIN p = 1 .. n
    OBVIOUS
  <1>2. PICK k0 \in At : TRUE
    BY <1>1 DEF IdsOf
  <1>3. n - k0 \in Left
    BY <1>1, <1>2
  <1>4. IsWellFoundedOn(Less, Nat)
    BY NatLessThanWellFounded DEF OpToRel
  <1>5. PICK j \in Left : \A m \in Left : ~ (<<m, j>> \in Less)
    <2> HIDE DEF Less, Left
    <2>1. Left \subseteq Nat
      BY DEF Left
    <2>2. Left # {}
      BY <1>3
    <2> QED BY <1>4, <2>1, <2>2, WFMin
  <1>6. ASSUME NEW m \in At PROVE m <= n - j
    <2>1. n - m \in Left
      BY <1>1
    <2>2. ~(n - m < j)
      BY <2>1, <1>5, <1>1
    <2> QED BY <2>2, <1>5, <1>1
  <1>7. n - j \in At
    BY <1>5
  <1> QED BY <1>1, <1>6, <1>7

LEMMA PlanType ==
    ASSUME TypeOK PROVE plan \in Seq(Call) /\ Filtered(plan)
  <1>1. CASE plan = <<>>
    BY <1>1 DEF Filtered
  <1>2. CASE plan \in Plans
    BY <1>2, AttemptAssumption
  <1> QED BY <1>1, <1>2 DEF TypeOK

LEMMA CallOfIsCall ==
    ASSUME TypeOK, NEW i \in IdsOf(plan)
    PROVE  \E k \in DOMAIN plan : CallOf(i) = plan[k] /\ plan[k].id = i
  <1>1. plan \in Seq(Call)
    BY PlanType
  <1>2. \E k \in DOMAIN plan : plan[k].id = i /\ \A m \in DOMAIN plan : plan[m].id = i => m <= k
    BY <1>1, LastHas
  <1>3. DOMAIN plan \subseteq Int
    BY <1>1
  <1> QED BY <1>2, <1>3 DEF CallOf

LEMMA DepsInPlan ==
    ASSUME TypeOK, NEW i \in IdsOf(plan) PROVE Deps(i) \subseteq IdsOf(plan) /\ IdsOf(plan) \subseteq Ids
  <1>1. plan \in Seq(Call) /\ Filtered(plan)
    BY PlanType
  <1>2. IdsOf(plan) \subseteq Ids
    <2>1. \A k \in DOMAIN plan : plan[k] \in Call
      BY <1>1
    <2> QED BY <2>1 DEF IdsOf, Call
  <1> QED BY <1>1, <1>2, CallOfIsCall DEF Filtered, Deps

\* No required dependency of the step failed.
Clear(i) == \A d \in Deps(i) : ~(Required(d) /\ call[d] = "failed")

\* The verdict on the calls, once the case has it.
Judged ==
    /\ case = "completed" <=> \A i \in IdsOf(plan) : Required(i) => call[i] = "ok"
    /\ \A i \in IdsOf(plan) : traces[i] = 1

\* A finished step was skipped or its call has returned.
Handled(i) ==
    \/ step[i] = "skipped" /\ call[i] = "none"
    \/ step[i] = "running" /\ call[i] \in {"ok", "failed"}

\* The counters start afresh with each attempt, and a blocking step is one
\* that failed or was skipped.
Noted ==
    /\ phase = "plan" => plan = <<>> /\ finished = {} /\ blocking = {} /\ \A i \in Ids : traces[i] = 0
    /\ phase \in {"plan", "scan", "call"} => stored = 0
    /\ \A d \in finished : call[d] \notin {"queued", "running"}
    /\ \A d \in finished : Required(d) /\ call[d] = "failed" => d \in blocking
    /\ \A d \in blocking : Required(d) /\ (call[d] = "failed" \/ step[d] = "skipped")

\* While the loop runs, each step of the plan is pending or finished, a finished
\* one has left its trace, and the calls are those of the wave.
Looping ==
    phase \in {"scan", "call"} =>
        /\ IdsOf(plan) \subseteq finished \cup StepsAt(pending)
        /\ \A i \in finished : Handled(i)
        /\ \A i \in Ids : traces[i] = IF i \in finished THEN 1 ELSE 0
        /\ \A k \in wave : Id(k) \notin finished
        /\ \A i \in Ids : call[i] # "none" => i \in finished \/ i \in StepsAt(wave)

\* A position the wave has passed over was not blocked by a failed call.
Passed == phase = "scan" => \A k \in pending \ scan : step[Id(k)] = "pending" => Clear(Id(k))

\* What is stored has been judged.
Settled == (phase = "store" \/ stored > 0) /\ plan # <<>> => Judged

JInv == Noted /\ Looping /\ Passed /\ Settled /\ CallsAfterDependencies

LEMMA InitNoted == Init => JInv
  <1> SUFFICES ASSUME Init PROVE JInv
    OBVIOUS
  <1>1. IdsOf(plan) = {}
    BY DEF Init, IdsOf
  <1> QED BY <1>1 DEF Init, JInv, Noted, Looping, Passed, Settled, CallsAfterDependencies

LEMMA PlanningNoted ==
    ASSUME IInv, JInv, PlanFails \/ MakePlan \/ NextAttempt PROVE JInv'
  <1> USE DEF JInv
  <1>0. TypeOK
    BY DEF IInv
  <1>1. CASE PlanFails
    <2>1. plan' = plan /\ plan = <<>> /\ finished' = {} /\ blocking' = {} /\ phase' = "store"
      BY <1>1 DEF PlanFails, planning, verdicts, Noted
    <2>2. IdsOf(plan)' = {}
      BY <2>1 DEF IdsOf
    <2> QED BY <2>1, <2>2 DEF Noted, Looping, Passed, Settled, CallsAfterDependencies
  <1>2. CASE MakePlan
    <2> PICK p \in Plans : plan' = p
                        /\ step' = [i \in Ids |-> IF i \in IdsOf(p) THEN "pending" ELSE "none"]
                        /\ BeginScan(DOMAIN p)
      BY <1>2 DEF MakePlan
    <2>1. /\ finished' = {} /\ blocking' = {} /\ phase' = "scan" /\ stored' = 0
          /\ \A i \in Ids : call'[i] = "none" /\ traces'[i] = 0
          /\ pending' = DOMAIN p /\ scan' = DOMAIN p /\ wave' = {}
      BY <1>2 DEF MakePlan, BeginScan, verdicts, Noted, IInv, CaseInPhase
    <2>2. IdsOf(plan)' = StepsAt(pending)' /\ IdsOf(plan)' \subseteq Ids
      <3>1. IdsOf(plan)' = StepsAt(pending)'
        BY <2>1 DEF IdsOf, StepsAt, Id
      <3>2. \A k \in DOMAIN p : p[k] \in Call
        BY AttemptAssumption
      <3> QED BY <3>1, <3>2 DEF IdsOf, Call
    <2> QED BY <2>1, <2>2 DEF Noted, Looping, Passed, Settled, CallsAfterDependencies
  <1>3. CASE NextAttempt
    <2>1. /\ plan' = <<>> /\ finished' = {} /\ blocking' = {} /\ phase' = "plan" /\ stored' = 0
          /\ \A i \in Ids : traces'[i] = 0
      BY <1>3 DEF NextAttempt
    <2>2. IdsOf(plan)' = {}
      BY <2>1 DEF IdsOf
    <2> QED BY <2>1, <2>2 DEF Noted, Looping, Passed, Settled, CallsAfterDependencies
  <1> QED BY <1>1, <1>2, <1>3

\* A step the loop skips, by itself or with the rest of a circle.
LEMMA SkippingNoted ==
    ASSUME IInv, JInv, NEW S \in SUBSET Ids, NEW K,
           plan' = plan, phase = "scan", phase' = "scan", call' = call, stored' = stored,
           wave' = {}, pending' = K, K \subseteq pending, scan' \subseteq scan,
           pending \subseteq {k \in pending : Id(k) \in S} \cup K,
           \A i \in S : step[i] = "pending",
           step' = [i \in Ids |-> IF i \in S THEN "skipped" ELSE step[i]],
           traces' = [i \in Ids |-> IF i \in S THEN traces[i] + 1 ELSE traces[i]],
           finished' = finished \cup S,
           blocking' = blocking \cup BlockingOf(S),
           \A k \in K \ scan' : k \in pending \ scan \/ Id(k) \in S
    PROVE  JInv'
  <1> USE DEF JInv
  <1>0. TypeOK /\ Settling /\ stored = 0
    BY DEF IInv, Noted
  <1>1. /\ IdsOf(plan)' = IdsOf(plan) /\ \A i : Deps(i)' = Deps(i) /\ Required(i)' = Required(i)
        /\ \A k : Id(k)' = Id(k)
    BY PlanKept
  <1>2. \A i \in S : i \notin finished /\ call[i] = "none"
    BY <1>0 DEF Looping, Handled, Settling, TypeOK
  <1>3. finished \subseteq Ids /\ blocking \subseteq Ids /\ \A i \in Ids : traces[i] \in Nat
    BY <1>0 DEF TypeOK
  <1>4. Noted'
    BY <1>0, <1>1, <1>2, <1>3 DEF Noted, BlockingOf
  <1>5. Looping'
    <2>1. IdsOf(plan)' \subseteq (finished \cup StepsAt(pending))'
      <3>1. IdsOf(plan) \subseteq finished \cup StepsAt(pending)
        BY DEF Looping
      <3>2. StepsAt(pending) \subseteq S \cup StepsAt(K)
        BY DEF StepsAt
      <3>3. StepsAt(pending)' = StepsAt(K)
        BY <1>1 DEF StepsAt
      <3> QED BY <3>1, <3>2, <3>3, <1>1
    <2>2. \A i \in finished' : Handled(i)'
      BY <1>2, <1>3 DEF Looping, Handled
    <2>3. \A i \in Ids : traces'[i] = IF i \in finished' THEN 1 ELSE 0
      BY <1>2, <1>3 DEF Looping
    <2>4. \A i \in Ids : call[i] # "none" => i \in finished
      BY <1>0 DEF Looping, IInv, CaseInPhase, StepsAt
    <2> QED BY <2>1, <2>2, <2>3, <2>4 DEF Looping
  <1>6. Passed'
    <2>1. ASSUME NEW k \in pending' \ scan', step'[Id(k)] = "pending" PROVE Clear(Id(k))'
      <3>1. Id(k) \in Ids
        BY <1>0, IdType DEF TypeOK
      <3>2. Id(k) \notin S /\ step[Id(k)] = "pending"
        BY <2>1, <3>1
      <3>3. k \in pending \ scan
        BY <2>1, <3>2
      <3> QED BY <3>2, <3>3, <1>1 DEF Passed, Clear
    <2> QED BY <2>1, <1>1 DEF Passed
  <1>7. Settled' /\ CallsAfterDependencies'
    BY <1>0, <1>1 DEF Settled, CallsAfterDependencies
  <1> QED BY <1>4, <1>5, <1>6, <1>7

LEMMA ScanNoted ==
    ASSUME IInv, JInv, Rescan \/ BreakCycle \/ \E k \in scan : SkipBlocked(k) \/ PassOver(k)
    PROVE  JInv'
  <1> USE DEF JInv
  <1>0. TypeOK /\ (phase = "scan" => wave = {})
    BY DEF IInv, CaseInPhase
  <1>1. CASE Rescan
    <2>1. /\ plan' = plan /\ call' = call /\ step' = step /\ traces' = traces /\ finished' = finished
          /\ blocking' = blocking /\ stored' = stored /\ wave' = wave /\ pending' = pending
          /\ scan' = pending /\ phase = "scan" /\ phase' = "scan"
      BY <1>1 DEF Rescan, Scanned, BeginScan, planning, verdicts
    <2>2. /\ IdsOf(plan)' = IdsOf(plan) /\ \A i : Deps(i)' = Deps(i) /\ Required(i)' = Required(i)
          /\ \A k : Id(k)' = Id(k)
      BY <2>1, PlanKept
    <2> QED BY <2>1, <2>2 DEF Noted, Looping, Handled, Passed, Settled, CallsAfterDependencies, StepsAt
  <1>2. CASE BreakCycle
    <2> DEFINE rest == StepsAt(pending)
    <2>1. rest \in SUBSET Ids
      BY <1>0, StepsType
    <2>2. \A k \in pending : Id(k) \in rest
      BY DEF StepsAt
    <2>3. \A i \in rest : step[i] = "pending"
      BY <1>2 DEF BreakCycle, MayChange
    <2>4. /\ plan' = plan /\ call' = call /\ stored' = stored /\ wave' = {} /\ pending' = {}
          /\ scan' = scan /\ phase = "scan" /\ phase' = "scan"
          /\ step' = [i \in Ids |-> IF i \in rest THEN "skipped" ELSE step[i]]
          /\ traces' = [i \in Ids |-> IF i \in rest THEN traces[i] + 1 ELSE traces[i]]
          /\ finished' = finished \cup rest
          /\ blocking' = blocking \cup BlockingOf(rest)
      BY <1>2, <1>0 DEF BreakCycle, Scanned, planning
    <2> HIDE DEF rest
    <2> QED BY <2>1, <2>2, <2>3, <2>4, SkippingNoted
  <1>3. ASSUME NEW k \in scan, SkipBlocked(k) PROVE JInv'
    <2> DEFINE S == {Id(k)}
               K == pending \ First({m \in pending : Id(m) = Id(k)})
    <2>1. S \in SUBSET Ids
      BY <1>0, IdType DEF TypeOK
    <2>2. \A m \in pending : m \in K \/ Id(m) \in S
      BY DEF First
    <2>3. \A i \in S : step[i] = "pending"
      BY <1>3 DEF SkipBlocked
    <2>4. /\ plan' = plan /\ call' = call /\ stored' = stored /\ wave' = {} /\ pending' = K
          /\ scan' = scan \ {k} /\ phase = "scan" /\ phase' = "scan"
          /\ finished' = finished \cup S
          /\ blocking' = blocking \cup BlockingOf(S)
      BY <1>3, <1>0 DEF SkipBlocked, planning
    <2>5. step \in [Ids -> Lifecycle!StepStatus] /\ traces \in [Ids -> Nat]
      BY <1>0 DEF TypeOK
    <2>6. /\ step' = [i \in Ids |-> IF i \in S THEN "skipped" ELSE step[i]]
          /\ traces' = [i \in Ids |-> IF i \in S THEN traces[i] + 1 ELSE traces[i]]
      BY <1>3, <2>1, <2>5 DEF SkipBlocked
    <2>7. \A m \in K \ scan' : m \in pending \ scan \/ Id(m) \in S
      BY <2>4
    <2>8. K \subseteq pending /\ scan' \subseteq scan
      BY <2>4
    <2> HIDE DEF S, K
    <2> QED BY <2>1, <2>2, <2>3, <2>4, <2>6, <2>7, <2>8, SkippingNoted
  <1>4. ASSUME NEW k \in scan, PassOver(k) PROVE JInv'
    <2>1. /\ plan' = plan /\ call' = call /\ step' = step /\ traces' = traces /\ finished' = finished
          /\ blocking' = blocking /\ stored' = stored /\ wave' = wave /\ pending' = pending
          /\ scan' = scan \ {k} /\ phase = "scan" /\ phase' = "scan"
      BY <1>4 DEF PassOver, planning, verdicts
    <2>2. /\ IdsOf(plan)' = IdsOf(plan) /\ \A i : Deps(i)' = Deps(i) /\ Required(i)' = Required(i)
          /\ \A m : Id(m)' = Id(m)
      BY <2>1, PlanKept
    <2>3. Noted' /\ Looping' /\ Settled' /\ CallsAfterDependencies'
      BY <2>1, <2>2 DEF Noted, Looping, Handled, Settled, CallsAfterDependencies, StepsAt
    <2>4. Clear(Id(k))
      <3>1. Id(k) \in IdsOf(plan)
        BY <1>0 DEF TypeOK, Id, IdsOf
      <3>2. Deps(Id(k)) \subseteq Ids
        BY <1>0, <3>1, DepsInPlan
      <3>3. \A i \in Ids : call[i] # "none" => i \in finished
        BY <1>0, <2>1 DEF Looping, StepsAt
      <3> QED BY <3>2, <3>3, <1>4 DEF PassOver, Blocked, Noted, Clear
    <2>5. Passed'
      BY <2>1, <2>2, <2>4 DEF Passed, Clear
    <2> QED BY <2>3, <2>5
  <1> QED BY <1>1, <1>2, <1>3, <1>4

LEMMA WaveNoted ==
    ASSUME IInv, JInv,
           \/ StartWave \/ EndWave
           \/ \E k \in wave : BeginCall(k) \/ \E o \in {"ok", "failed"} : EndCall(k, o)
    PROVE  JInv'
  <1> USE DEF JInv
  <1>0. TypeOK /\ CaseInPhase /\ Settling
    BY DEF IInv
  <1>1. plan' = plan
    BY DEF StartWave, EndWave, BeginCall, EndCall, planning
  <1>2. /\ IdsOf(plan)' = IdsOf(plan) /\ \A i : Deps(i)' = Deps(i) /\ Required(i)' = Required(i)
        /\ \A m : Id(m)' = Id(m)
    BY <1>1, PlanKept
  <1>3. finished \subseteq Ids /\ blocking \subseteq Ids
    BY <1>0 DEF TypeOK
  <1>4. CASE StartWave
    <2> DEFINE ready == StepsAt(ReadyCalls)
    <2>1. ready \subseteq Ids
      BY <1>0, StepsType
    <2>2. \A k \in ReadyCalls : Id(k) \in ready /\ k \in pending
      BY DEF StepsAt, ReadyCalls
    <2>3. /\ wave' = ReadyCalls /\ pending' = pending /\ scan = {} /\ phase = "scan" /\ phase' = "call"
          /\ finished' = finished /\ blocking' = blocking /\ traces' = traces /\ stored' = stored
          /\ step' = [i \in Ids |-> IF i \in ready THEN "running" ELSE step[i]]
          /\ call' = [i \in Ids |-> IF i \in ready THEN "queued" ELSE call[i]]
          /\ \A i \in ready : step[i] = "pending"
      BY <1>4 DEF StartWave, Scanned, MayChange, verdicts
    <2>4. \A i \in ready : i \notin finished /\ call[i] = "none"
      BY <2>1, <2>3, <1>0 DEF Looping, Handled, Settling
    <2>5. ready = StepsAt(wave)'
      BY <2>3, <1>2 DEF StepsAt
    <2>6. \A i \in ready : Deps(i) \subseteq finished /\ Clear(i)
      BY <2>3 DEF StepsAt, ReadyCalls, Ready, Passed
    <2> HIDE DEF ready
    <2>7. Noted'
      BY <2>3, <2>4, <1>2, <1>3 DEF Noted
    <2>8. Looping'
      <3>1. \A i \in finished' : Handled(i)'
        BY <2>3, <2>4, <1>3 DEF Looping, Handled
      <3>2. StepsAt(pending)' = StepsAt(pending)
        BY <2>3, <1>2 DEF StepsAt
      <3>3. \A i \in Ids : call'[i] # "none" => i \in finished' \/ i \in StepsAt(wave)'
        BY <2>3, <2>5, <1>0 DEF Looping, CaseInPhase, StepsAt
      <3> QED BY <3>1, <3>2, <3>3, <2>2, <2>3, <2>4, <1>2 DEF Looping
    <2>9. CallsAfterDependencies'
      <3> SUFFICES ASSUME NEW i \in IdsOf(plan), call'[i] # "none", NEW d \in Deps(i)
                   PROVE  d \in finished /\ ~(Required(d) /\ call'[d] = "failed")
        BY <1>2, <2>3 DEF CallsAfterDependencies
      <3>1. i \in Ids
        BY <1>0, DepsInPlan
      <3>2. d \in finished /\ ~(Required(d) /\ call[d] = "failed")
        BY <3>1, <2>3, <2>6 DEF Clear, CallsAfterDependencies
      <3> QED BY <3>2, <2>3, <1>3
    <2> QED BY <2>3, <2>7, <2>8, <2>9 DEF Noted, Passed, Settled
  <1>5. CASE EndWave
    <2> DEFINE called == StepsAt(wave)
               failing == StepsAt(CallsOf("failed"))
    <2>1. called \subseteq Ids /\ failing \subseteq called
      BY <1>0, StepsType DEF StepsAt, CallsOf
    <2>2. /\ finished' = finished \cup called /\ blocking' = blocking \cup BlockingOf(failing)
          /\ pending' = pending \ wave /\ scan' = pending' /\ phase = "call" /\ phase' = "scan"
          /\ wave' = {} /\ step' = step /\ call' = call /\ stored' = stored
          /\ traces' = [i \in Ids |-> IF i \in called THEN traces[i] + 1 ELSE traces[i]]
      BY <1>5 DEF EndWave, BeginScan
    <2>3. \A i \in called : i \notin finished /\ step[i] = "running" /\ call[i] \in {"ok", "failed"}
      <3>1. \A k \in wave : call[Id(k)] \in {"ok", "failed"}
        BY <1>5 DEF EndWave, CallsOf
      <3> QED BY <3>1, <2>1, <2>2, <1>0 DEF StepsAt, Looping, Settling
    <2>4. \A i \in called : call[i] = "failed" => i \in failing
      BY DEF StepsAt, CallsOf
    <2>5. \A i \in failing : call[i] = "failed"
      BY DEF StepsAt, CallsOf
    <2>6. StepsAt(pending) \subseteq called \cup StepsAt(pending')
      BY <2>2 DEF StepsAt
    <2>7. StepsAt(pending)' = StepsAt(pending')
      BY <1>2 DEF StepsAt
    <2>8. \A i \in Ids : call[i] # "none" => i \in finished \/ i \in called
      BY <2>2 DEF Looping
    <2>9. \A i \in Ids : traces[i] \in Nat
      BY <1>0 DEF TypeOK
    <2> HIDE DEF called, failing
    <2>10. Noted'
      BY <2>1, <2>2, <2>3, <2>4, <2>5, <1>2 DEF Noted, BlockingOf
    <2>11. Looping'
      <3>1. \A i \in finished' : Handled(i)'
        BY <2>2, <2>3 DEF Looping, Handled
      <3>2. \A i \in Ids : traces'[i] = IF i \in finished' THEN 1 ELSE 0
        BY <2>2, <2>3, <2>9, <1>3 DEF Looping
      <3> QED BY <3>1, <3>2, <2>2, <2>6, <2>7, <2>8, <1>2 DEF Looping
    <2>12. CallsAfterDependencies'
      BY <2>2, <1>2 DEF CallsAfterDependencies
    <2> QED BY <2>2, <2>10, <2>11, <2>12 DEF Noted, Passed, Settled
  <1>6. ASSUME NEW k \in wave, NEW o \in {"running", "ok", "failed"},
               phase = "call", call[Id(k)] \in {"queued", "running"},
               call' = [call EXCEPT ![Id(k)] = o],
               UNCHANGED <<planning, queues, verdicts, phase, case, step, stored>>
        PROVE  JInv'
    <2>1. Id(k) \in Ids /\ Id(k) \notin finished /\ call \in [Ids -> CallStatus]
      BY <1>0, <1>6, IdType DEF TypeOK, Looping
    <2>2. /\ finished' = finished /\ blocking' = blocking /\ traces' = traces /\ stored' = stored
          /\ step' = step /\ pending' = pending /\ wave' = wave /\ phase' = "call"
          /\ \A i \in Ids \ {Id(k)} : call'[i] = call[i]
      BY <1>6, <2>1 DEF planning, queues, verdicts
    <2>3. Noted'
      BY <2>1, <2>2, <1>2, <1>3, <1>6 DEF Noted
    <2>4. Looping'
      <3>1. \A i \in finished' : Handled(i)'
        BY <2>1, <2>2, <1>3, <1>6 DEF Looping, Handled
      <3>2. StepsAt(pending)' = StepsAt(pending) /\ StepsAt(wave)' = StepsAt(wave)
        BY <2>2, <1>2 DEF StepsAt
      <3>3. Id(k) \in StepsAt(wave)
        BY DEF StepsAt
      <3> QED BY <3>1, <3>2, <3>3, <2>1, <2>2, <1>2, <1>6 DEF Looping
    <2>5. CallsAfterDependencies'
      <3> SUFFICES ASSUME NEW i \in IdsOf(plan), call'[i] # "none", NEW d \in Deps(i)
                   PROVE  d \in finished /\ ~(Required(d) /\ call'[d] = "failed")
        BY <1>2, <2>2 DEF CallsAfterDependencies
      <3>1. i \in Ids
        BY <1>0, DepsInPlan
      <3>2. call[i] # "none"
        BY <3>1, <1>6, <2>2
      <3>3. d \in finished /\ ~(Required(d) /\ call[d] = "failed")
        BY <3>2 DEF CallsAfterDependencies
      <3> QED BY <3>3, <2>1, <2>2, <1>3
    <2> QED BY <2>2, <2>3, <2>4, <2>5, <1>6 DEF Noted, Passed, Settled
  <1> QED BY <1>4, <1>5, <1>6 DEF BeginCall, EndCall, CallsOf, First

LEMMA EndingNoted ==
    ASSUME IInv, JInv, Verdict \/ Persist \/ EndRun \/ Raise \/ StoreFails PROVE JInv'
  <1> USE DEF JInv
  <1>0. TypeOK /\ CaseInPhase /\ Settling
    BY DEF IInv
  <1>1. /\ plan' = plan /\ finished' = finished /\ blocking' = blocking /\ traces' = traces
        /\ call' = call /\ phase' \notin {"plan", "scan", "call"}
    BY DEF Verdict, Persist, EndRun, Raise, StoreFails, planning, queues, verdicts
  <1>2. /\ IdsOf(plan)' = IdsOf(plan) /\ \A i : Deps(i)' = Deps(i) /\ Required(i)' = Required(i)
    BY <1>1, PlanKept
  <1>3. CallsAfterDependencies' /\ Looping' /\ Passed'
    BY <1>1, <1>2 DEF CallsAfterDependencies, Looping, Passed
  <1>4. CASE Verdict
    <2>1. phase = "scan" /\ pending = {} /\ wave = {} /\ stored' = stored
          /\ step' = [i \in Ids |-> StepVerdict(i)] /\ case' = CaseVerdict
      BY <1>4, <1>0 DEF Verdict, CaseInPhase
    <2>2. \A d \in blocking : Required(d) /\ (call'[d] = "failed" \/ step'[d] = "skipped")
      <3> SUFFICES ASSUME NEW d \in blocking, call[d] # "failed" PROVE step'[d] = "skipped"
        BY <1>1 DEF Noted
      <3>1. d \in Ids /\ step[d] = "skipped" /\ call[d] = "none"
        BY <1>0, <2>1 DEF Noted, TypeOK, Settling, CallStatus
      <3> QED BY <3>1, <2>1 DEF StepVerdict
    <2>3. Noted'
      BY <2>1, <2>2, <1>1, <1>2 DEF Noted
    <2>4. IdsOf(plan) \subseteq finished /\ finished \subseteq Ids
      BY <2>1, <1>0 DEF Looping, StepsAt, TypeOK
    <2>5. \A i \in IdsOf(plan) : StepVerdict(i) \in {"failed", "skipped"} <=> call[i] # "ok"
      BY <2>1, <2>4 DEF Looping, Handled, StepVerdict
    <2>6. case' = "completed" <=> \A i \in IdsOf(plan) : Required(i) => call[i] = "ok"
      BY <2>1, <2>5 DEF CaseVerdict
    <2>7. \A i \in IdsOf(plan) : traces[i] = 1
      BY <2>1, <2>4 DEF Looping
    <2>8. Judged'
      BY <2>6, <2>7, <1>1, <1>2 DEF Judged
    <2> QED BY <2>3, <2>8, <1>3 DEF Settled
  <1>5. CASE Persist \/ EndRun \/ Raise \/ StoreFails
    <2>1. step' = step /\ case' = case
          /\ (phase' = "store" \/ stored' > 0 => phase = "store" \/ stored > 0)
      BY <1>5 DEF Persist, EndRun, Raise, StoreFails, planning, queues, verdicts
    <2>2. Noted'
      BY <2>1, <1>1, <1>2 DEF Noted
    <2>3. Judged' <=> Judged
      BY <2>1, <1>1, <1>2 DEF Judged
    <2> QED BY <2>1, <2>2, <2>3, <1>1, <1>3 DEF Settled
  <1> QED BY <1>4, <1>5

LEMMA NotedInductive == IInv /\ JInv /\ [Next]_vars => JInv'
  <1> SUFFICES ASSUME IInv, JInv, [Next]_vars PROVE JInv'
    OBVIOUS
  <1>1. CASE UNCHANGED vars
    <2>1. plan' = plan
      BY <1>1 DEF vars, planning
    <2>2. /\ IdsOf(plan)' = IdsOf(plan) /\ \A i : Deps(i)' = Deps(i) /\ Required(i)' = Required(i)
          /\ \A m : Id(m)' = Id(m)
      BY <2>1, PlanKept
    <2> QED BY <1>1, <2>1, <2>2
            DEF vars, planning, queues, verdicts, JInv, Noted, Looping, Handled, Passed, Clear,
                Settled, Judged, CallsAfterDependencies, StepsAt
  <1> QED BY <1>1, PlanningNoted, ScanNoted, WaveNoted, EndingNoted DEF Next

LEMMA NotedAlways == Spec => []JInv
  BY InitNoted, NotedInductive, Invariance, PTL DEF Spec

\* The verdict an attempt stores is the verdict on its calls, for every plan and
\* every answer of the tools.
THEOREM VerdictsHonest == Spec => []StoredVerdictHonest
  <1>1. JInv => StoredVerdictHonest
    BY DEF JInv, Settled, Judged, StoredVerdictHonest
  <1> QED BY <1>1, NotedAlways, PTL

-----------------------------------------------------------------------------
(* Why a step was skipped.                                                 *)

\* Why the step may be left out.
Reason(i) ==
    \/ \E d \in Deps(i) : Required(d) /\ (call[d] = "failed" \/ step[d] = "skipped")
    \/ \E S \in SUBSET IdsOf(plan) : i \in S /\ WaitInCircle(S)

\* A reason stays one as long as the plan does.
LEMMA ReasonsStay ==
    ASSUME TypeOK, SkippedForReason, plan' = plan,
           \A d \in Ids : /\ call[d] = "failed" => call'[d] = "failed"
                          /\ step[d] = "skipped" => step'[d] = "skipped",
           \A i \in IdsOf(plan) :
               step'[i] = "skipped" /\ step[i] # "skipped" => Reason(i)
    PROVE  SkippedForReason'
  <1>1. /\ IdsOf(plan)' = IdsOf(plan) /\ \A i : Deps(i)' = Deps(i) /\ Required(i)' = Required(i)
    BY PlanKept
  <1>2. \A S : WaitInCircle(S)' <=> WaitInCircle(S)
    BY <1>1 DEF WaitInCircle
  <1>3. ASSUME NEW i \in IdsOf(plan), Reason(i)
        PROVE  \/ \E d \in Deps(i) : Required(d) /\ (call'[d] = "failed" \/ step'[d] = "skipped")
               \/ \E S \in SUBSET IdsOf(plan) : i \in S /\ WaitInCircle(S)
    <2>1. Deps(i) \subseteq Ids
      BY DepsInPlan
    <2> QED BY <1>3, <2>1 DEF Reason
  <1>4. \A i \in IdsOf(plan) : step'[i] = "skipped" => Reason(i)
    BY DEF SkippedForReason, Reason
  <1> QED BY <1>1, <1>2, <1>3, <1>4 DEF SkippedForReason

LEMMA InitReasons == Init => SkippedForReason
  BY DEF Init, SkippedForReason, IdsOf

LEMMA ReasonsInductive ==
    IInv /\ JInv /\ SkippedForReason /\ [Next]_vars => SkippedForReason'
  <1> SUFFICES ASSUME IInv, JInv, SkippedForReason, [Next]_vars PROVE SkippedForReason'
    OBVIOUS
  <1>0. TypeOK /\ Settling /\ IdsOf(plan) \subseteq Ids
    <2>1. TypeOK /\ Settling
      BY DEF IInv
    <2> QED BY <2>1, DepsInPlan
  <1>1. CASE MakePlan
    <2> PICK p \in Plans : plan' = p
                        /\ step' = [i \in Ids |-> IF i \in IdsOf(p) THEN "pending" ELSE "none"]
      BY <1>1 DEF MakePlan
    <2>1. IdsOf(plan)' \subseteq Ids /\ IdsOf(plan)' = IdsOf(p)
      <3>1. \A k \in DOMAIN p : p[k] \in Call
        BY AttemptAssumption
      <3> QED BY <3>1 DEF IdsOf, Call
    <2> QED BY <2>1 DEF SkippedForReason
  <1>2. CASE PlanFails \/ NextAttempt
    <2>1. plan' = <<>>
      BY <1>2 DEF PlanFails, NextAttempt, planning, JInv, Noted
    <2>2. IdsOf(plan)' = {}
      BY <2>1 DEF IdsOf
    <2> QED BY <2>2 DEF SkippedForReason
  <1>3. ASSUME NEW k \in scan, SkipBlocked(k) PROVE SkippedForReason'
    <2>1. step \in [Ids -> Lifecycle!StepStatus]
      BY <1>0 DEF TypeOK
    <2>2. /\ plan' = plan /\ call' = call
          /\ \A i \in Ids \ {Id(k)} : step'[i] = step[i]
          /\ \A i \in Ids : step[i] = "skipped" => step'[i] = "skipped"
      BY <1>3, <2>1 DEF SkipBlocked, planning
    <2>3. Reason(Id(k))
      BY <1>3 DEF SkipBlocked, Blocked, Reason, JInv, Noted
    <2> QED BY <1>0, <2>2, <2>3, ReasonsStay
  <1>4. CASE BreakCycle
    <2> DEFINE rest == StepsAt(pending)
    <2>1. /\ plan' = plan /\ call' = call /\ ReadyCalls = {} /\ phase = "scan" /\ pending # {}
          /\ step' = [i \in Ids |-> IF i \in rest THEN "skipped" ELSE step[i]]
          /\ \A i \in rest : step[i] = "pending"
      BY <1>4 DEF BreakCycle, Scanned, MayChange, planning
    <2>2. rest \subseteq IdsOf(plan)
      BY <1>0 DEF StepsAt, Id, IdsOf, TypeOK
    <2>3. ASSUME NEW i \in rest PROVE Deps(i) \cap rest # {}
      <3>1. ~ Ready(i)
        BY <2>1 DEF StepsAt, ReadyCalls
      <3>2. Deps(i) \subseteq IdsOf(plan)
        BY <1>0, <2>2, DepsInPlan
      <3>3. IdsOf(plan) \subseteq finished \cup rest
        BY <2>1 DEF JInv, Looping
      <3> QED BY <3>1, <3>2, <3>3 DEF Ready
    <2>4. rest # {}
      BY <2>1 DEF StepsAt
    <2>5. \A i \in rest : Reason(i)
      BY <2>2, <2>3, <2>4 DEF Reason, WaitInCircle
    <2>6. \A d \in Ids : /\ call[d] = "failed" => call'[d] = "failed"
                         /\ step[d] = "skipped" => step'[d] = "skipped"
      BY <2>1
    <2>7. \A i \in IdsOf(plan) : step'[i] = "skipped" /\ step[i] # "skipped" => Reason(i)
      BY <2>1, <2>5, <1>0
    <2> QED BY <1>0, <2>1, <2>6, <2>7, ReasonsStay
  <1>5. CASE StartWave
    <2> DEFINE ready == StepsAt(ReadyCalls)
    <2>1. /\ plan' = plan /\ phase = "scan"
          /\ step' = [i \in Ids |-> IF i \in ready THEN "running" ELSE step[i]]
          /\ call' = [i \in Ids |-> IF i \in ready THEN "queued" ELSE call[i]]
          /\ \A i \in ready : step[i] = "pending"
      BY <1>5 DEF StartWave, Scanned, MayChange, planning
    <2>2. \A i \in Ids : i \in ready => call[i] = "none"
      BY <2>1, <1>0 DEF Settling
    <2> HIDE DEF ready
    <2>3. \A d \in Ids : /\ call[d] = "failed" => call'[d] = "failed"
                         /\ step'[d] = "skipped" <=> step[d] = "skipped"
      BY <2>1, <2>2
    <2> QED BY <1>0, <2>1, <2>3, ReasonsStay
  <1>6. CASE Verdict
    <2>1. plan' = plan /\ call' = call /\ step' = [i \in Ids |-> StepVerdict(i)] /\ phase = "scan"
      BY <1>6 DEF Verdict, planning
    <2>2. \A i \in Ids : step[i] = "skipped" => call[i] = "none"
      BY <2>1, <1>0 DEF Settling
    <2>3. \A d \in Ids : step'[d] = "skipped" <=> step[d] = "skipped"
      BY <2>1, <2>2 DEF StepVerdict
    <2> QED BY <1>0, <2>1, <2>3, ReasonsStay
  <1>7. ASSUME NEW k \in wave, NEW o \in {"running", "ok", "failed"},
               call[Id(k)] \in {"queued", "running"}, call' = [call EXCEPT ![Id(k)] = o],
               step' = step, plan' = plan
        PROVE  SkippedForReason'
    <2>1. call \in [Ids -> CallStatus]
      BY <1>0 DEF TypeOK
    <2>2. \A d \in Ids : call[d] = "failed" => call'[d] = "failed"
      BY <1>7, <2>1
    <2> QED BY <1>0, <1>7, <2>2, ReasonsStay
  <1>8. CASE UNCHANGED <<plan, step, call>>
    BY <1>0, <1>8, ReasonsStay
  <1>9. \/ UNCHANGED <<plan, step, call>>
        \/ PlanFails \/ NextAttempt \/ MakePlan \/ BreakCycle \/ StartWave \/ Verdict
        \/ \E k \in scan : SkipBlocked(k)
        \/ \E k \in wave : BeginCall(k) \/ \E o \in {"ok", "failed"} : EndCall(k, o)
    BY DEF Next, vars, PassOver, Rescan, EndWave, Persist, EndRun, Raise, StoreFails, planning
  <1> QED BY <1>1, <1>2, <1>3, <1>4, <1>5, <1>6, <1>7, <1>8, <1>9
          DEF BeginCall, EndCall, CallsOf, First, planning

\* What is called and what is left out follows from the plan, for every plan: a
\* tool is called when its dependencies are done, a step is left out because a
\* required one failed or because it waits for a circle.
THEOREM StepsAreJustified == Spec => []StepsJustified
  <1>1. JInv /\ SkippedForReason => StepsJustified
    BY DEF JInv, StepsJustified
  <1> QED BY <1>1, InitReasons, ReasonsInductive, Invariance, NotedAlways, PTL DEF Spec

-----------------------------------------------------------------------------
(* The life cycle of the case.                                             *)

LEMMA InitRefines == Init => Lifecycle!Init
  BY DEF Init, Lifecycle!Init

LEMMA StepRefines ==
    ASSUME IInv, IInv', [Next]_vars PROVE [Lifecycle!Next]_<<case, step>>
  <1> USE DEF IInv, Lifecycle!Next, Lifecycle!Closed, Lifecycle!Open,
              Lifecycle!CaseTransitions, Lifecycle!StepTransitions
  <1>1. step \in [Ids -> Lifecycle!StepStatus] /\ step' \in [Ids -> Lifecycle!StepStatus]
    BY DEF TypeOK
  <1>2. CASE PlanFails \/ MakePlan
    <2>1. Lifecycle!OpenCase
      BY <1>2, <1>1 DEF PlanFails, MakePlan, CaseInPhase, Lifecycle!OpenCase
    <2> QED BY <2>1
  <1>3. CASE \E k \in scan : SkipBlocked(k)
    <2>1. Lifecycle!Advance
      BY <1>3, <1>1 DEF SkipBlocked, CaseInPhase, Lifecycle!Advance
    <2> QED BY <2>1
  <1>4. CASE BreakCycle
    <2>1. Lifecycle!Advance
      BY <1>4, <1>1 DEF BreakCycle, Scanned, MayChange, CaseInPhase, Lifecycle!Advance
    <2> QED BY <2>1
  <1>5. CASE StartWave
    <2>1. Lifecycle!Advance
      BY <1>5, <1>1 DEF StartWave, Scanned, MayChange, CaseInPhase, Lifecycle!Advance
    <2> QED BY <2>1
  <1>6. CASE Verdict
    <2>1. \A i \in Ids : step[i] # "pending"
      BY <1>6 DEF Verdict, Settling, StepsAt
    <2>2. \A i \in Ids : step[i] = "running" => call[i] \in {"ok", "failed"}
      BY <1>6 DEF Verdict, CaseInPhase, Settling, StepsAt
    <2>3. \A i \in Ids : call[i] \in {"ok", "failed"} => step[i] = "running"
      BY <1>6 DEF Verdict, Settling
    <2>4. \A i \in Ids : /\ step'[i] # step[i] => <<step[i], step'[i]>> \in Lifecycle!StepTransitions
                         /\ step'[i] \notin {"pending", "running"}
      BY <1>6, <2>1, <2>2, <2>3 DEF Verdict, StepVerdict
    <2>5. Lifecycle!Advance
      BY <1>6, <1>1, <2>4 DEF Verdict, CaseInPhase, Lifecycle!Advance
    <2> QED BY <2>5
  <1>7. CASE UNCHANGED <<case, step>>
    BY <1>7
  <1>8. Next => \/ PlanFails \/ MakePlan \/ BreakCycle \/ StartWave \/ Verdict
                \/ \E k \in scan : SkipBlocked(k)
                \/ UNCHANGED <<case, step>>
    BY DEF Next, PassOver, Rescan, BeginCall, EndCall, EndWave, Persist, EndRun,
           NextAttempt, Raise, StoreFails
  <1> QED BY <1>2, <1>3, <1>4, <1>5, <1>6, <1>7, <1>8 DEF vars

\* A run changes the status of its case and of its steps only as
\* contracts/state_machine.py allows, and closes a case only when none of its
\* steps is open, whatever the plans and the answers of the tools.
THEOREM RunsKeepLifecycle == Spec => LifecycleKept
  <1>1. IInv /\ IInv' /\ [Next]_vars => [Lifecycle!Next]_<<case, step>>
    BY StepRefines
  <1> QED BY <1>1, InitRefines, Invariance, PTL DEF Spec, LifecycleKept, Lifecycle!Spec
=============================================================================
