----------------------------- MODULE Diagnosis -----------------------------
(***************************************************************************)
(* Root cause analysis of one case: rounds of hypotheses, validation and   *)
(* convergence over an evidence pack that grows between the rounds, then   *)
(* the report and its refinement by a language model.                      *)
(* Text is abstracted to the words the code looks for; confidences and     *)
(* weights are hundredths.                                                 *)
(***************************************************************************)
EXTENDS Integers, Sequences, FiniteSetsExt

CONSTANTS
    ItemKind,        \* the kinds of evidence collected, records of the set Words below
    MaxCollected,    \* evidence items collected before the analysis
    MaxRounds,       \* max_iterations
    MinEvidence,     \* min_evidence_count
    MaxRequests      \* requests to the language model: max_retries + 1

\* Templates in the order they are tried, and the evidence types.
Template == <<"error", "trace">>
Topic == {Template[i] : i \in DOMAIN Template}
EvidenceType == {"log", "code", "other"}
TypeWeight == [t \in EvidenceType |-> CASE t = "log" -> 100 [] t = "code" -> 90 [] OTHER -> 70]

\* match: templates whose keywords an item holds; echo: hypotheses whose words it repeats;
\* alarm: it speaks of a failure; calm: it speaks of success.
Words == [type : EvidenceType, match : SUBSET Topic, echo : SUBSET (Topic \cup EvidenceType),
          alarm : BOOLEAN, calm : BOOLEAN, configured : BOOLEAN]

DiagnosisAssumption ==
    /\ ItemKind \subseteq Words
    /\ MaxCollected \in Nat /\ MaxRounds \in Nat \ {0} /\ MinEvidence \in Nat
    /\ MaxRequests \in Nat \ {0}

ASSUME DiagnosisAssumption

VARIABLES
    stage,       \* "collect", "round", "conclude", "model", "reported"
    pack,        \* evidence: id -> item
    collected,   \* how many items were there before the analysis
    expander,    \* whether logs may be fetched between rounds, and have not been yet
    round,       \* rounds begun
    hypotheses,  \* hypotheses of the last round
    converged,
    conclusion,  \* of the rules: the hypothesis on top and its confidence
    attempt,     \* requests made to the language model
    report

diagnosisVars == <<stage, pack, collected, expander, round, hypotheses, converged,
                   conclusion, attempt, report>>

-----------------------------------------------------------------------------
(* Hypotheses. *)

Ids(p) == DOMAIN p
\* Evidence of a source that is not configured suggests nothing.
Telling(p) == {i \in Ids(p) : p[i].configured}
Matching(p, t) == {i \in Telling(p) : t \in p[i].match}

\* A template takes the items no earlier template has taken.
NewItems(p, n) == Matching(p, Template[n]) \ UNION {Matching(p, Template[m]) : m \in 1 .. n - 1}
Hypothesis(topic, order, items) == [topic |-> topic, order |-> order, cites |-> items]
FromTemplates(p) ==
    {Hypothesis(Template[n], n, NewItems(p, n)) : n \in {m \in DOMAIN Template : NewItems(p, m) # {}}}

\* Two items or more of one type that no template has taken.
Remaining(p, t) == {i \in Telling(p) : p[i].type = t /\ p[i].match = {}}
FromTypes(p) ==
    {Hypothesis(t, Len(Template) + Min(Remaining(p, t)), Remaining(p, t)) :
        t \in {u \in EvidenceType : Cardinality(Remaining(p, u)) >= 2}}

CatchAll(p) == Hypothesis("any", 1, {i \in Ids(p) : Cardinality({j \in Ids(p) : j < i}) < 3})
NoEvidence == Hypothesis("none", 1, {})

Generated(p) ==
    IF p = <<>> THEN {NoEvidence}
    ELSE IF FromTemplates(p) \cup FromTypes(p) = {} THEN {CatchAll(p)}
    ELSE FromTemplates(p) \cup FromTypes(p)

-----------------------------------------------------------------------------
(* Validation, weights, convergence. *)

Supporting(p, h) == h.cites \cup {i \in Ids(p) : h.topic \in p[i].echo}
Alarming(p, h) == h.topic = "trace" \/ \E i \in h.cites \cap Ids(p) : p[i].alarm
Contradicting(p, h) == IF Alarming(p, h) THEN {i \in Ids(p) \ h.cites : p[i].calm} ELSE {}

AtMost(x, bound) == IF x > bound THEN bound ELSE x
AtLeast(x, bound) == IF x < bound THEN bound ELSE x
CalculateConfidence(supporting, contradicting) ==
    IF supporting = 0 THEN 0
    ELSE AtLeast(AtMost(30 + 15 * supporting, 90) - 30 * contradicting, 0)
Confidence(p, h) == CalculateConfidence(Cardinality(Supporting(p, h)), Cardinality(Contradicting(p, h)))

\* Sorted by confidence, and before that by how much each cites.
Before(p, g, h) ==
    \/ Confidence(p, g) > Confidence(p, h)
    \/ /\ Confidence(p, g) = Confidence(p, h)
       /\ \/ Cardinality(g.cites) > Cardinality(h.cites)
          \/ Cardinality(g.cites) = Cardinality(h.cites) /\ g.order < h.order
Top(p, hs) == CHOOSE h \in hs : \A g \in hs \ {h} : Before(p, h, g)

Gap(p, hs) ==
    IF Cardinality(hs) < 2 THEN 100
    ELSE Confidence(p, Top(p, hs)) - Max({Confidence(p, h) : h \in hs \ {Top(p, hs)}})

\* Type and recency count the same; items are collected at even intervals.
Recency(p, i) ==
    IF Cardinality(Ids(p)) < 2 THEN 100 ELSE 50 + (50 * (i - 1)) \div (Cardinality(Ids(p)) - 1)
Weight(p, i) == TypeWeight[p[i].type] + Recency(p, i)
\* The sum of the weights, each counted out in its hundredths.
MostWeight == 200
AggregateWeight(p, ids) ==
    Cardinality({unit \in (ids \cap Ids(p)) \X (1 .. MostWeight) : unit[2] <= Weight(p, unit[1])})

Settled(p, hs) ==
    Confidence(p, Top(p, hs)) >= 70 /\ Cardinality(Ids(p)) >= MinEvidence /\ Gap(p, hs) >= 20
Converged(p, hs, n) == Settled(p, hs) \/ n >= MaxRounds

\* From the second round on, hypotheses come from the items that weigh most.
Heavier(p, i, j) == Weight(p, i) > Weight(p, j) \/ (Weight(p, i) = Weight(p, j) /\ i < j)
Kept(p, n) ==
    {i \in Ids(p) : Cardinality({j \in Ids(p) : Heavier(p, j, i)}) < AtLeast(MinEvidence + n - 1, 1)}
FocusPack(p, n) == IF n = 1 THEN p ELSE [i \in Kept(p, n) |-> p[i]]

-----------------------------------------------------------------------------
(* Rounds. *)

NextId(p) == Max(Ids(p) \cup {0}) + 1
Added(p, item) == [i \in Ids(p) \cup {NextId(p)} |-> IF i = NextId(p) THEN item ELSE p[i]]

Collect ==
    /\ stage = "collect" /\ collected < MaxCollected
    /\ \E item \in ItemKind : pack' = Added(pack, item)
    /\ collected' = collected + 1
    /\ UNCHANGED <<stage, expander, round, hypotheses, converged, conclusion, attempt, report>>

Begin ==
    /\ stage = "collect"
    /\ \/ /\ pack # <<>> /\ stage' = "round" /\ UNCHANGED <<conclusion, hypotheses>>
       \/ /\ pack = <<>> /\ stage' = "model"
          /\ hypotheses' = {NoEvidence}
          /\ conclusion' = [top |-> NoEvidence, confidence |-> 0]
    /\ UNCHANGED <<pack, collected, expander, round, converged, attempt, report>>

\* Between rounds the engine adds an item of its own, which repeats the source and the type of
\* the heaviest one, and the expander may add the logs of the trace.
Derived == {[type |-> "other", match |-> m, echo |-> m, alarm |-> FALSE, calm |-> FALSE,
             configured |-> TRUE] : m \in SUBSET {"trace"}}
Synthesized(p) == {Added(p, item) : item \in Derived}

ShouldFetchLogs(p, hs) ==
    \/ \A i \in Ids(p) : p[i].type # "log"
    \/ Cardinality(Ids(p)) < MinEvidence \/ Confidence(p, Top(p, hs)) < 70
Logs == [type |-> "log", match |-> {}, echo |-> {}, alarm |-> FALSE, calm |-> FALSE, configured |-> TRUE]
\* One request for the logs is made, whether it brings them or not.
Expanded(p, hs) ==
    \/ /\ ~(expander /\ ShouldFetchLogs(p, hs))
       /\ pack' = p /\ UNCHANGED expander
    \/ /\ expander /\ ShouldFetchLogs(p, hs)
       /\ pack' \in {p, Added(p, Logs)} /\ expander' = FALSE

\* Faulty: the narrowed pack is carried over to the next round.
Analyze_Narrowed ==
    /\ stage = "round"
    /\ LET n == round + 1
           p == FocusPack(pack, n)
           hs == Generated(p)
       IN  /\ round' = n /\ hypotheses' = hs
           /\ converged' = Converged(p, hs, n)
           /\ \/ /\ Converged(p, hs, n)
                 /\ stage' = "conclude" /\ UNCHANGED pack
              \/ /\ ~Converged(p, hs, n)
                 /\ pack' \in Synthesized(p) /\ UNCHANGED stage
    /\ UNCHANGED <<collected, expander, conclusion, attempt, report>>

Analyze ==
    /\ stage = "round"
    /\ LET n == round + 1
           hs == Generated(FocusPack(pack, n))
       IN  /\ round' = n /\ hypotheses' = hs
           /\ converged' = Converged(pack, hs, n)
           /\ \/ /\ Converged(pack, hs, n)
                 /\ stage' = "conclude" /\ UNCHANGED <<pack, expander>>
              \/ /\ ~Converged(pack, hs, n)
                 /\ \E p \in Synthesized(pack) : Expanded(p, hs)
                 /\ UNCHANGED stage
    /\ UNCHANGED <<collected, conclusion, attempt, report>>

\* The hypothesis on top, its confidence scaled by the share of the weight it cites.
Conclude ==
    /\ stage = "conclude"
    /\ LET top == Top(pack, hypotheses)
           share == (25 * AggregateWeight(pack, top.cites)) \div AggregateWeight(pack, Ids(pack))
       IN  conclusion' = [top |-> top,
                          confidence |-> AtMost((Confidence(pack, top) * (75 + share)) \div 100, 95)]
    /\ stage' = "model"
    /\ UNCHANGED <<pack, collected, expander, round, hypotheses, converged, attempt, report>>

-----------------------------------------------------------------------------
(* The report, and the language model. *)

Drafted == [cause |-> "rules", text |-> "rules", confidence |-> conclusion.confidence]
Reported(r) == report' = r /\ stage' = "reported"
ReportUnchanged == UNCHANGED <<pack, collected, expander, round, hypotheses, converged, conclusion>>

\* Disabled or not configured: the report of the rules stands.
SkipModel ==
    /\ stage = "model" /\ attempt = 0
    /\ Reported(Drafted) /\ UNCHANGED attempt /\ ReportUnchanged

\* Faulty: the confidence in an answer is believed as it is.
CoerceConfidence_Raw(value) == value

\* What the answer says of the confidence is taken within bounds; without it, the rules' confidence.
CoerceConfidence(value) == AtMost(AtLeast(value, 0), 100)

\* An answer that holds an object replaces the conclusion; one that does not, only the summary;
\* an empty one, nothing.
ApplyAnswer ==
    \/ \E value \in {-50, 60, 150} :
          Reported([cause |-> "model", text |-> "model", confidence |-> CoerceConfidence(value)])
    \/ Reported([cause |-> "model", text |-> "rules", confidence |-> CoerceConfidence(conclusion.confidence)])
    \/ Reported([Drafted EXCEPT !.text = "model"])
    \/ Reported(Drafted)

ModelAnswers ==
    /\ stage = "model" /\ attempt < MaxRequests
    /\ attempt' = attempt + 1
    /\ ApplyAnswer /\ ReportUnchanged

\* Only a timeout is tried again.
ModelTimesOut ==
    /\ stage = "model" /\ attempt < MaxRequests
    /\ attempt' = attempt + 1
    /\ IF attempt + 1 < MaxRequests THEN UNCHANGED <<stage, report>> ELSE Reported(Drafted)
    /\ ReportUnchanged

ModelFails ==
    /\ stage = "model" /\ attempt < MaxRequests
    /\ attempt' = attempt + 1
    /\ Reported(Drafted) /\ ReportUnchanged

-----------------------------------------------------------------------------
NoConclusion == [top |-> NoEvidence, confidence |-> 0]
NoReport == [cause |-> "none", text |-> "none", confidence |-> 0]

DiagnosisInit ==
    /\ stage = "collect" /\ pack = <<>> /\ collected = 0
    /\ expander \in BOOLEAN
    /\ round = 0 /\ hypotheses = {} /\ converged = FALSE
    /\ conclusion = NoConclusion /\ attempt = 0 /\ report = NoReport

DiagnosisNext ==
    \/ Collect \/ Begin \/ Analyze \/ Conclude
    \/ SkipModel \/ ModelAnswers \/ ModelTimesOut \/ ModelFails

DiagnosisSpec == DiagnosisInit /\ [][DiagnosisNext]_diagnosisVars

-----------------------------------------------------------------------------
\* The stages of an analysis and its results have their types.
DiagnosisTypeOK ==
    /\ stage \in {"collect", "round", "conclude", "model", "reported"}
    /\ \A i \in Ids(pack) : pack[i] \in Words
    /\ collected \in 0 .. MaxCollected /\ expander \in BOOLEAN
    /\ round \in 0 .. MaxRounds /\ converged \in BOOLEAN /\ attempt \in 0 .. MaxRequests
    /\ conclusion.confidence \in 0 .. 95 /\ report.confidence \in 0 .. 100
    /\ report.cause \in {"none", "rules", "model"} /\ report.text \in {"none", "rules", "model"}

\* Whatever is narrowed, derived or fetched between the rounds, every item collected is still
\* there when the analysis concludes, and the conclusion cites items of that pack only
\* (root_cause_engine.py:97).
ConclusionGrounded ==
    stage \in {"model", "reported"} =>
        1 .. collected \subseteq Ids(pack) /\ conclusion.top.cites \subseteq Ids(pack)

=============================================================================
