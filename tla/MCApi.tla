------------------------------- MODULE MCApi -------------------------------
(***************************************************************************)
(* The API and what an investigation calls in it: the intake of alerts,    *)
(* the forwarding of tools, the analysis, the callers of a method, the     *)
(* reading of code and its cutting, and, of the Admin, the message to a    *)
(* language model.  They share no variable: each behaviour moves one part  *)
(* and leaves the others as they started.                                  *)
(***************************************************************************)
EXTENDS Intake, ToolForwarding, Diagnosis, CallerLookup, CodeReading, CodeSlice,
        ChatPayload

\* Evidence: logs with and without the words of a template, code that echoes another hypothesis,
\* a mixed item, and one of a source that is not configured.
Item(t, m, e, a, c, k) ==
    [type |-> t, match |-> m, echo |-> e, alarm |-> a, calm |-> c, configured |-> k]
MCItemKind ==
    {Item("log", {"error"}, {}, TRUE, FALSE, TRUE),
     Item("log", {}, {"error"}, FALSE, TRUE, TRUE),
     Item("code", {}, {"log", "trace"}, FALSE, FALSE, TRUE),
     Item("other", {"error", "trace"}, {}, FALSE, TRUE, TRUE),
     Item("code", {"error"}, {}, TRUE, FALSE, FALSE)}

\* What a text search finds: the definition, two callers with evidence, one without.
Mention(d, r, c, s) == [definition |-> d, repo |-> r, caller |-> c, score |-> s]
MCHits ==
    {<<Mention(TRUE, "r1", "other", 2), Mention(FALSE, "r1", "other", 2),
       Mention(FALSE, "r2", "runtime", 1), Mention(FALSE, "r1", "unknown", 1)>>}

MCAlike == {<<"p1", "p2">>, <<"p2", "p1">>}

\* Files of up to four lines, and one with a method longer than a window.
L(k) == [kind |-> k, name |-> "m1"]
MCText ==
    UNION {[1 .. n -> {L(k) : k \in {"method", "open", "close", "plain"}}] : n \in 1 .. 4}
    \cup {<<L("plain"), L("method"), L("open"), L("plain"), L("close"), L("close"), L("plain")>>}

VARIABLE part

code == <<lookupVars, readingVars, slice>>
rest == <<code, draft>>
MCApiVars == <<intakeVars, forwardingVars, diagnosisVars, rest, part>>

MCInit ==
    /\ part \in {"intake", "forwarding", "diagnosis", "lookup", "reading", "slice",
             "payload"}
    /\ IntakeInit /\ ForwardingInit /\ DiagnosisInit /\ LookupInit /\ ReadingInit /\ SliceInit
    /\ PayloadInit
    /\ part = "intake" \/ settings = [backend |-> "memory", agent |-> FALSE, secured |-> FALSE]
    /\ part = "forwarding" \/ (adapter = "composite" /\ ~own)
    /\ part = "diagnosis" \/ ~expander
    /\ part = "lookup" \/ (registered = {} /\ ~graph)
    /\ part = "reading" \/ (~configured /\ ~serves /\ indexed = {} /\ \A r \in Repo : clone[r] = {})

WritesPayload ==
    /\ part = "payload" /\ PayloadNext
    /\ UNCHANGED <<intakeVars, forwardingVars, diagnosisVars, code, part>>

MCNext ==
    \/ WritesPayload
    \/ /\ UNCHANGED part
       /\ \/ /\ part = "intake" /\ IntakeNext
             /\ UNCHANGED <<forwardingVars, diagnosisVars, rest>>
          \/ /\ part = "forwarding" /\ ForwardingNext
             /\ UNCHANGED <<intakeVars, diagnosisVars, rest>>
          \/ /\ part = "diagnosis" /\ DiagnosisNext
             /\ UNCHANGED <<intakeVars, forwardingVars, rest>>
          \/ /\ part = "lookup" /\ LookupNext
             /\ UNCHANGED <<intakeVars, forwardingVars, diagnosisVars, readingVars, slice, draft>>
          \/ /\ part = "reading" /\ ReadingNext
             /\ UNCHANGED <<intakeVars, forwardingVars, diagnosisVars, lookupVars, slice, draft>>
          \/ /\ part = "slice" /\ SliceNext
             /\ UNCHANGED <<intakeVars, forwardingVars, diagnosisVars, lookupVars, readingVars, draft>>

MCSpec == MCInit /\ [][MCNext]_MCApiVars /\ WF_MCApiVars(WritesPayload)

\* The cutting of code alone.
MCSliceSpec == MCInit /\ part = "slice" /\ [][MCNext]_MCApiVars

\* The state of every part has its type.
TypeOK ==
    /\ IntakeTypeOK /\ ForwardingTypeOK /\ DiagnosisTypeOK /\ LookupTypeOK /\ ReadingTypeOK
    /\ PayloadTypeOK

\* The code shown is of the file that was asked for, and of its lines those about the fault.
RightCodeShown == OwnFileFirst /\ WindowBounded

=============================================================================
