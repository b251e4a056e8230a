------------------------------- MODULE Intake -------------------------------
(***************************************************************************)
(* How the API takes in an alert and answers it.  A handler checks and     *)
(* normalises the alert, runs the flow in attempts that each leave a case, *)
(* announces the last one on its event bus, and, on the default flow,      *)
(* saves a checkpoint.  The handlers are coroutines that run the flow      *)
(* synchronously: nothing else of the process moves until the handler      *)
(* awaits, which it does only while it flushes the queued announcements    *)
(* to the websocket clients.                                               *)
(*                                                                         *)
(* An attempt itself is AttemptRunner's; here it is what it leaves in the  *)
(* three stores, one after the other.                                      *)
(***************************************************************************)
EXTENDS Integers, FiniteSets

CONSTANTS
    Request,      \* deliveries; a redelivery is another one
    MaxCases,     \* bound on the cases created
    MaxAttempts,  \* agent_max_attempts
    MaxMishaps    \* failed writes and restarts

IntakeAssumption ==
    MaxCases \in Nat /\ MaxAttempts \in Nat \ {0} /\ MaxMishaps \in Nat

ASSUME IntakeAssumption

VARIABLES
    settings,     \* what the process was configured with
    request,      \* delivery -> its handler
    cases, packs, reports,   \* the three stores, by case
    checkpoints,  \* saved checkpoints
    queued,       \* cases whose announcement waits for a flush
    announced,    \* cases that were announced to the clients
    created,      \* cases created
    mishaps

stores == <<cases, packs, reports, checkpoints>>
intakeVars == <<settings, request, stores, queued, announced, created, mishaps>>

CaseId == 1 .. MaxCases
Verdict == {"failed", "completed"}
CaseRows == [CaseId -> Verdict \cup {"none"}]
PackRows == [CaseId -> BOOLEAN]
ReportRows == [CaseId -> BOOLEAN]
CheckpointRows == [case : CaseId, entry : {"webhook", "run-default"}, status : Verdict]

Backend == {"memory", "sqlite", "mysql"}
Channel == {"webhook", "aliyun", "sls", "prometheus"}
Alert == [channel : Channel, flag : {"absent", "no", "yes"}, signed : BOOLEAN, oddCount : BOOLEAN]
RunRequest == [channel |-> "webhook", flag |-> "absent", signed |-> TRUE, oddCount |-> FALSE]

IdleHandler == [pc |-> "idle", entry |-> "webhook", agent |-> FALSE, attempt |-> 0, first |-> 0,
                case |-> 0, verdict |-> "failed", sending |-> {}]

-----------------------------------------------------------------------------
(* The alert. *)

\* ChannelSecurity: an allowlist or a secret, when configured.
SecurityRefuses(alert) == settings.secured /\ ~alert.signed

\* A count that is no number is a ValueError as well, so it is refused the same way.
NormalizeRefuses(alert) == alert.channel = "sls" /\ alert.oddCount

\* Fields that no normaliser knows become metadata, except those of an Alertmanager message.
KeepsFields(channel) == channel # "prometheus"

\* Whether the answer is that of an agent run: the alert's own wish, then the setting.
UseAgent(alert) ==
    CASE alert.flag = "yes" -> TRUE
      [] alert.flag = "no" /\ KeepsFields(alert.channel) -> FALSE
      [] OTHER -> settings.agent

Step(r, step) == request' = [request EXCEPT ![r].pc = step]

\* Handlers that have the event loop to themselves.
Running == {r \in Request : request[r].pc \notin {"idle", "flushing", "ok", "not-ok", "refused", "error"}}

HasLoop(r) == Running \subseteq {r}

HandleWebhook(r) ==
    /\ request[r].pc = "idle" /\ Running = {}
    /\ \E alert \in Alert :
          request' = [request EXCEPT ![r] =
              [IdleHandler EXCEPT !.entry = "webhook", !.agent = UseAgent(alert),
                  !.pc = IF SecurityRefuses(alert) \/ NormalizeRefuses(alert)
                         THEN "refused" ELSE "attempt"]]
    /\ UNCHANGED <<settings, stores, queued, announced, created, mishaps>>

RunDefaultCase(r) ==
    /\ request[r].pc = "idle" /\ Running = {}
    /\ request' = [request EXCEPT ![r] =
          [IdleHandler EXCEPT !.entry = "run-default", !.agent = UseAgent(RunRequest),
                              !.pc = "attempt"]]
    /\ UNCHANGED <<settings, stores, queued, announced, created, mishaps>>

RunAgentCase(r) ==
    /\ request[r].pc = "idle" /\ Running = {}
    /\ request' = [request EXCEPT ![r] =
          [IdleHandler EXCEPT !.entry = "run-agent", !.agent = TRUE, !.pc = "attempt"]]
    /\ UNCHANGED <<settings, stores, queued, announced, created, mishaps>>

-----------------------------------------------------------------------------
(* The attempts. *)

\* Each attempt has a case of its own, also one that failed before it had a plan.
RunOnce(r) ==
    /\ request[r].pc = "attempt" /\ created < MaxCases
    /\ created' = created + 1
    /\ \E verdict \in Verdict :
          request' = [request EXCEPT ![r].pc = "case", ![r].verdict = verdict,
                          ![r].attempt = @ + 1, ![r].case = created + 1,
                          ![r].first = IF @ = 0 THEN created + 1 ELSE @]
    /\ UNCHANGED <<settings, stores, queued, announced, mishaps>>

PutCase(r) ==
    /\ request[r].pc = "case"
    /\ cases' = [cases EXCEPT ![request[r].case] = request[r].verdict]
    /\ Step(r, "pack")
    /\ UNCHANGED <<settings, packs, reports, checkpoints, queued, announced, created, mishaps>>

PutPack(r) ==
    /\ request[r].pc = "pack"
    /\ packs' = [packs EXCEPT ![request[r].case] = TRUE]
    /\ Step(r, "report")
    /\ UNCHANGED <<settings, cases, reports, checkpoints, queued, announced, created, mishaps>>

PutReport(r) ==
    /\ request[r].pc = "report"
    /\ reports' = [reports EXCEPT ![request[r].case] = TRUE]
    /\ Step(r, IF request[r].verdict = "completed" \/ request[r].attempt = MaxAttempts
               THEN "publish" ELSE "attempt")
    /\ UNCHANGED <<settings, cases, packs, checkpoints, queued, announced, created, mishaps>>

\* A run is known by the case of its last attempt.
FinalCase(handler) == handler.case

\* The result of the run is announced on the event bus, which queues it for the clients.
PublishCaseCompleted(r) ==
    /\ request[r].pc = "publish"
    /\ LET case == FinalCase(request[r])
       IN  /\ queued' = IF cases[case] # "none" THEN queued \cup {case} ELSE queued
           /\ request' = [request EXCEPT ![r].case = case,
                 ![r].pc = IF request[r].agent THEN "flush" ELSE "complete"]
    /\ UNCHANGED <<settings, stores, announced, created, mishaps>>

\* The default flow fills in what the run left out of the stores.
RunDefaultFlow(r) ==
    /\ request[r].pc = "complete"
    /\ LET case == request[r].case
       IN  /\ cases' = [cases EXCEPT ![case] = IF @ = "none" THEN "failed" ELSE @]
           /\ packs' = [packs EXCEPT ![case] = TRUE]
           /\ reports' = [reports EXCEPT ![case] = TRUE]
    /\ Step(r, IF request[r].entry = "webhook" THEN "checkpoint" ELSE "flush")
    /\ UNCHANGED <<settings, checkpoints, queued, announced, created, mishaps>>

-----------------------------------------------------------------------------
(* The answer. *)

\* Faulty: every checkpoint says that the flow completed.
CheckpointStatus_Completed(handler) == "completed"

\* A webhook saves what became of the case; /cases/run-default says "completed" of every case.
CheckpointStatus(handler) ==
    IF handler.entry = "webhook" THEN cases[handler.case] ELSE "completed"

\* A row of its own for every execution.
SavedRecord(handler) ==
    checkpoints \cup {[case |-> handler.case, entry |-> handler.entry,
                       status |-> CheckpointStatus(handler)]}

SaveCheckpoint(r) ==
    /\ request[r].pc = "checkpoint"
    /\ checkpoints' = SavedRecord(request[r])
    /\ Step(r, IF request[r].entry = "webhook" THEN "flush" ELSE "respond")
    /\ UNCHANGED <<settings, cases, packs, reports, queued, announced, created, mishaps>>

\* The queue is taken over and emptied before the first await.
QueueAfter(sent) == IF sent THEN queued ELSE {}

FlushBroadcasts(r) ==
    /\ request[r].pc = "flush"
    /\ queued' = QueueAfter(FALSE)
    /\ request' = [request EXCEPT ![r].pc = "flushing", ![r].sending = queued]
    /\ UNCHANGED <<settings, stores, announced, created, mishaps>>

BroadcastsSent(r) ==
    /\ request[r].pc = "flushing" /\ HasLoop(r)
    /\ announced' = announced \cup request[r].sending
    /\ queued' = QueueAfter(TRUE)
    /\ request' = [request EXCEPT ![r].sending = {},
          ![r].pc = IF request[r].entry = "run-default" /\ ~request[r].agent
                    THEN "checkpoint" ELSE "respond"]
    /\ UNCHANGED <<settings, stores, created, mishaps>>

Respond(r) ==
    /\ request[r].pc = "respond"
    /\ Step(r, IF request[r].verdict = "completed" THEN "ok" ELSE "not-ok")
    /\ UNCHANGED <<settings, stores, queued, announced, created, mishaps>>

-----------------------------------------------------------------------------
(* Mishaps. *)

Mishap == mishaps < MaxMishaps /\ mishaps' = mishaps + 1

\* A store raises: the handler ends with an error, and what was queued stays queued.
PutFails(r) ==
    /\ Mishap
    /\ request[r].pc \in {"case", "pack", "report", "checkpoint"}
    /\ Step(r, "error")
    /\ UNCHANGED <<settings, stores, queued, announced, created>>

\* Handlers and queue are gone; what was kept in memory, too, and with it what an earlier answer
\* was about.
ApiRestarts ==
    /\ Mishap
    /\ request' = [r \in Request |->
          IF request[r].pc \in {"idle", "refused", "error"} THEN request[r]
          ELSE [request[r] EXCEPT !.pc = IF settings.backend = "memory" \/ @ \notin {"ok", "not-ok"}
                                         THEN "error" ELSE @,
                                  !.sending = {}]]
    /\ queued' = {}
    /\ IF settings.backend = "memory"
       THEN /\ cases' = [c \in CaseId |-> "none"]
            /\ packs' = [c \in CaseId |-> FALSE]
            /\ reports' = [c \in CaseId |-> FALSE]
            /\ checkpoints' = {}
       ELSE UNCHANGED stores
    /\ UNCHANGED <<settings, announced, created>>

IntakeInit ==
    /\ settings \in [backend : Backend, agent : BOOLEAN, secured : BOOLEAN]
    /\ request = [r \in Request |-> IdleHandler]
    /\ cases = [c \in CaseId |-> "none"]
    /\ packs = [c \in CaseId |-> FALSE] /\ reports = [c \in CaseId |-> FALSE]
    /\ checkpoints = {} /\ queued = {} /\ announced = {} /\ created = 0 /\ mishaps = 0

IntakeNext ==
    \/ \E r \in Request :
          \/ HandleWebhook(r) \/ RunDefaultCase(r) \/ RunAgentCase(r)
          \/ RunOnce(r) \/ PutCase(r) \/ PutPack(r) \/ PutReport(r)
          \/ PublishCaseCompleted(r) \/ RunDefaultFlow(r) \/ SaveCheckpoint(r)
          \/ FlushBroadcasts(r) \/ BroadcastsSent(r) \/ Respond(r) \/ PutFails(r)
    \/ ApiRestarts

IntakeSpec == IntakeInit /\ [][IntakeNext]_intakeVars

-----------------------------------------------------------------------------
IntakeTypeOK ==
    /\ settings \in [backend : Backend, agent : BOOLEAN, secured : BOOLEAN]
    /\ \A r \in Request :
          /\ request[r].case \in 0 .. MaxCases /\ request[r].attempt \in 0 .. MaxAttempts
          /\ request[r].verdict \in Verdict /\ request[r].sending \subseteq CaseId
    /\ cases \in CaseRows /\ packs \in PackRows /\ reports \in ReportRows
    /\ checkpoints \subseteq CheckpointRows
    /\ queued \subseteq CaseId /\ announced \subseteq CaseId
    /\ created \in 0 .. MaxCases /\ mishaps \in 0 .. MaxMishaps

\* What a handler answers is what a reader finds under the case it names: an answer that says ok
\* names a completed case, one that does not a failed case, and both have evidence and report.
AnswerBacked ==
    \A r \in Request : request[r].pc \in {"ok", "not-ok"} =>
        LET case == request[r].case
        IN  /\ cases[case] = (IF request[r].pc = "ok" THEN "completed" ELSE "failed")
            /\ packs[case] /\ reports[case]

\* The checkpoint of an alert says of its case what the case says, whatever attempts, failed
\* writes and restarts came between.
CheckpointAgrees ==
    \A point \in checkpoints : point.entry = "webhook" => point.status = cases[point.case]

\* No answer overtakes its announcement, and no announcement is sent by two handlers, although one
\* may queue its own while another awaits its flush (flush_broadcasts takes the queue over before
\* its first await).
AnnouncedOnce ==
    /\ \A r \in Request : request[r].pc \in {"ok", "not-ok"} => request[r].case \in announced
    /\ queued \cap announced = {}
    /\ \A r \in Request :
          /\ request[r].sending \cap (queued \cup announced) = {}
          /\ \A s \in Request \ {r} : request[r].sending \cap request[s].sending = {}

\* What callers, checkpoints and clients are told of a case is what the stores hold of it.
AnswersTrue == AnswerBacked /\ CheckpointAgrees /\ AnnouncedOnce

=============================================================================
