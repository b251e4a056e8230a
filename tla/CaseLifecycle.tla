--------------------------- MODULE CaseLifecycle ---------------------------
(***************************************************************************)
(* What contracts/state_machine.py promises of a Case and its steps: a     *)
(* status only changes along the allowed transitions, and a case is        *)
(* completed only from RUNNING, when none of its steps is open any more.   *)
(* A run that tries again opens a new case.                                *)
(***************************************************************************)
CONSTANT Ids  \* step ids

VARIABLES
    case,     \* status of the current case, "none" before the first one
    step      \* status of each of its steps, "none" of other ids

CaseStatus == {"none", "planned", "running", "completed", "failed"}
StepStatus == {"none", "pending", "running", "completed", "failed", "skipped"}

\* ALLOWED_CASE_TRANSITIONS from the statuses an agent run gives a case.
CaseTransitions ==
    {<<"planned", "running">>, <<"planned", "failed">>,
     <<"running", "completed">>, <<"running", "failed">>}

\* ALLOWED_STEP_TRANSITIONS.
StepTransitions ==
    {<<"pending", "running">>, <<"pending", "skipped">>, <<"pending", "failed">>,
     <<"running", "completed">>, <<"running", "failed">>}

Closed == {"completed", "failed"}

Open == {"pending", "running"}

Init == case = "none" /\ step = [i \in Ids |-> "none"]

\* A case is opened with the steps of a plan, or opened as failed without one.
OpenCase ==
    /\ case \in Closed \cup {"none"}
    /\ \/ case' = "planned" /\ step' \in [Ids -> {"none", "pending"}]
       \/ case' = "failed"  /\ step' = [i \in Ids |-> "none"]

Advance ==
    /\ case \notin Closed
    /\ case' # case => <<case, case'>> \in CaseTransitions
    /\ step' \in [Ids -> StepStatus]
    /\ \A i \in Ids : step'[i] # step[i] => <<step[i], step'[i]>> \in StepTransitions
    /\ case' \in Closed => \A i \in Ids : step'[i] \notin Open

Next == OpenCase \/ Advance

Spec == Init /\ [][Next]_<<case, step>>
=============================================================================
