----------------------------- MODULE ApiProofs -----------------------------
(***************************************************************************)
(* Theorems about the parts of the API: what it answers, saves and         *)
(* announces of a case; what a forwarded tool works with; what an analysis *)
(* concludes from; which repository and which lines are shown; that the    *)
(* message to the model fits.  Each part has a specification of its own,   *)
(* and the last theorems carry them over to the parts side by side.        *)
(***************************************************************************)
EXTENDS MCApi, SequenceTheorems, FiniteSetTheorems, TLAPS

-----------------------------------------------------------------------------
(* The intake of alerts.                                                   *)

\* Where a handler is not running: before it starts, at its await, and after its
\* answer.
Parked == {"idle", "flushing", "ok", "not-ok", "refused", "error"}
IntakePc == Parked \cup {"attempt", "case", "pack", "report", "publish", "complete",
                         "checkpoint", "flush", "respond"}
Handler == [pc : IntakePc, entry : {"webhook", "run-default", "run-agent"}, agent : BOOLEAN,
            attempt : 0 .. MaxAttempts, first : 0 .. MaxCases, case : 0 .. MaxCases,
            verdict : Verdict, sending : SUBSET CaseId]

\* The type of the state, with what the guards of the numbered attempts need.
Typed ==
    /\ settings \in [backend : Backend, agent : BOOLEAN, secured : BOOLEAN]
    /\ request \in [Request -> Handler]
    /\ cases \in CaseRows /\ packs \in PackRows /\ reports \in ReportRows
    /\ checkpoints \subseteq CheckpointRows
    /\ queued \subseteq CaseId /\ announced \subseteq CaseId
    /\ created \in 0 .. MaxCases /\ mishaps \in 0 .. MaxMishaps
    /\ \A r \in Request :
          /\ request[r].pc = "attempt" => request[r].attempt < MaxAttempts
          /\ request[r].pc = "checkpoint" => request[r].entry # "run-agent"

Case(r) == request[r].case
In(r, pcs) == request[r].pc \in pcs

\* The event loop runs one handler at a time.
OneRuns == \A r, s \in Running : r = s

\* Each attempt has a case of its own.
OwnCase ==
    /\ \A r \in Request : Case(r) <= created
    /\ \A r \in Request : In(r, {"idle", "refused", "attempt", "error"}) \/ Case(r) > 0
    /\ \A r \in Request : In(r, {"idle", "refused"}) => Case(r) = 0
    /\ \A r, s \in Request : r # s /\ Case(r) # 0 => Case(r) # Case(s)

\* What a handler has put is there.
Responded == {"ok", "not-ok"}
Told == {"publish", "complete", "checkpoint", "flush", "flushing", "respond"} \cup Responded
Has(r) ==
    /\ In(r, {"pack", "report"} \cup Told) => cases[Case(r)] = request[r].verdict
    /\ In(r, {"report"} \cup Told) => packs[Case(r)]
    /\ In(r, Told) => reports[Case(r)]
    /\ request[r].pc = "ok" => request[r].verdict = "completed"
    /\ request[r].pc = "not-ok" => request[r].verdict = "failed"
Stored == \A r \in Request : Has(r)

\* A case is saved in a checkpoint when it no longer changes.
Untold == {"attempt", "case", "pack", "report", "publish"}
PointsSettled ==
    \A point \in checkpoints :
        /\ point.case <= created
        /\ point.entry = "webhook" => point.status = cases[point.case]
        /\ \A r \in Request : In(r, {"case"}) => point.case # Case(r)

\* Where the announcement of a handler's case is.
Heard == queued \cup announced \cup UNION {request[r].sending : r \in Request}
Where(r) ==
    /\ In(r, {"flushing"}) \/ request[r].sending = {}
    /\ In(r, {"complete", "flush"}) \/ (In(r, {"checkpoint"}) /\ request[r].entry = "webhook")
           => Case(r) \in queued
    /\ In(r, {"flushing"}) => Case(r) \in request[r].sending
    /\ In(r, {"respond"} \cup Responded)
         \/ (In(r, {"checkpoint"}) /\ request[r].entry # "webhook")
           => Case(r) \in announced
Whereabouts ==
    /\ \A c \in Heard : c <= created
    /\ \A r \in Request : In(r, Untold) => Case(r) \notin Heard
    /\ \A r \in Request : Where(r)

\* No announcement is in two places.
Apart ==
    /\ queued \cap announced = {}
    /\ \A r \in Request :
          /\ request[r].sending \cap (queued \cup announced) = {}
          /\ \A s \in Request \ {r} : request[r].sending \cap request[s].sending = {}

IntakeInv == Typed /\ OneRuns /\ OwnCase /\ Stored /\ PointsSettled /\ Whereabouts /\ Apart

LEMMA InvGivesAnswers == IntakeInv => IntakeTypeOK /\ AnswersTrue
<1> SUFFICES ASSUME IntakeInv PROVE IntakeTypeOK /\ AnswersTrue
  OBVIOUS
<1>1. IntakeTypeOK
  BY DEF IntakeInv, Typed, IntakeTypeOK, Handler
<1>2. AnswerBacked
  BY DEF IntakeInv, Stored, Has, AnswerBacked, In, Case, Told, Responded
<1>3. CheckpointAgrees
  BY DEF IntakeInv, PointsSettled, CheckpointAgrees
<1>4. AnnouncedOnce
  BY DEF IntakeInv, Whereabouts, Where, Apart, AnnouncedOnce, In, Case, Responded
<1> QED
  BY <1>1, <1>2, <1>3, <1>4 DEF AnswersTrue

LEMMA IntakeInitInv == IntakeInit => IntakeInv
<1> SUFFICES ASSUME IntakeInit PROVE IntakeInv
  OBVIOUS
<1> USE IntakeAssumption DEF IntakeAssumption, IntakeInit, IdleHandler
<1>1. Typed
  BY DEF Typed, Handler, IntakePc, Parked, Verdict, CaseRows, PackRows, ReportRows
<1>2. OneRuns /\ OwnCase
  BY DEF OneRuns, Running, OwnCase, In, Case
<1>3. Stored /\ PointsSettled
  BY DEF Stored, Has, PointsSettled, In, Told, Responded
<1>4. Whereabouts /\ Apart
  BY DEF Whereabouts, Where, Apart, Heard, In, Untold, Responded
<1> QED
  BY <1>1, <1>2, <1>3, <1>4 DEF IntakeInv

\* A step of the handler of r, which has the event loop, after which its frame is h.
Steps(r, h) ==
    /\ r \in Request /\ h \in Handler /\ HasLoop(r)
    /\ request' = [request EXCEPT ![r] = h]

LEMMA Frame ==
    ASSUME Typed, NEW r, NEW h, Steps(r, h)
    PROVE  /\ request' \in [Request -> Handler] /\ request'[r] = h
           /\ \A s \in Request : s # r => request'[s] = request[s]
  BY DEF Typed, Steps

LEMMA LoopKept == ASSUME Typed, NEW r, NEW h, Steps(r, h) PROVE OneRuns'
  BY Frame DEF OneRuns, Running, Steps, HasLoop

LEMMA OwnKept ==
    ASSUME Typed, OwnCase, NEW r, NEW h, Steps(r, h), UNCHANGED created, h.case = Case(r),
           h.pc \in {"idle", "refused"} => h.case = 0,
           h.pc \in {"idle", "refused", "attempt", "error"} \/ h.case > 0
    PROVE  OwnCase'
  BY Frame DEF OwnCase, In, Case, Steps

\* What a step writes into the stores concerns the case of its handler.
LEMMA StoredKept ==
    ASSUME Typed, OwnCase, Stored, NEW r, NEW h, Steps(r, h), Has(r)',
           \A c \in CaseId : c # Case(r) =>
               cases'[c] = cases[c] /\ packs'[c] = packs[c] /\ reports'[c] = reports[c]
    PROVE  Stored'
<1> SUFFICES ASSUME NEW s \in Request, s # r PROVE Has(s)'
  BY DEF Stored
<1>1. request'[s] = request[s] /\ Has(s)
  BY Frame DEF Stored
<1>2. CASE Case(s) = 0
  <2>1. In(s, {"idle", "refused", "attempt", "error"})
    BY <1>2 DEF OwnCase, Typed, Handler
  <2> QED
    BY <1>1, <2>1 DEF Has, In, Told, Responded
<1>3. CASE Case(s) # 0
  <2>1. Case(s) \in CaseId /\ Case(s) # Case(r)
    BY <1>3, IntakeAssumption DEF IntakeAssumption, OwnCase, Case, Typed, Handler, CaseId, Steps
  <2> QED
    BY <1>1, <2>1 DEF Has, In, Case
<1> QED
  BY <1>2, <1>3

LEMMA PointsKept ==
    ASSUME Typed, PointsSettled, NEW r, NEW h, Steps(r, h), UNCHANGED checkpoints,
           created' \in Nat, created <= created',
           \A point \in checkpoints :
               /\ cases'[point.case] = cases[point.case]
               /\ h.pc = "case" => point.case # h.case
    PROVE  PointsSettled'
  BY Frame DEF PointsSettled, Typed, In, Case, CheckpointRows, CaseId

LEMMA WhereKept ==
    ASSUME Typed, Whereabouts, Apart, NEW r, NEW h, Steps(r, h), UNCHANGED <<queued, announced>>,
           created' \in Nat, created <= created', h.sending = request[r].sending,
           Where(r)', h.pc \in Untold => h.case \notin Heard
    PROVE  Whereabouts' /\ Apart'
<1>1. Heard' = Heard
  BY Frame DEF Heard, Steps
<1>2. \A s \in Request : Where(s)'
  BY Frame DEF Whereabouts, Where, In, Case
<1>3. \A c \in Heard : c <= created'
  <2>1. \A s \in Request : request[s].sending \subseteq CaseId
    BY DEF Typed, Handler
  <2>2. Heard \subseteq CaseId
    BY <2>1 DEF Heard, Typed
  <2> QED
    BY <2>2 DEF Whereabouts, Typed, CaseId
<1>4. Whereabouts'
  BY <1>1, <1>2, <1>3, Frame DEF Whereabouts, In, Case
<1>5. Apart'
  BY Frame DEF Apart, Steps
<1> QED
  BY <1>4, <1>5

\* A step that moves the handler on, and at most writes about its case into the stores.
LEMMA MovesOn ==
    ASSUME IntakeInv, NEW r, NEW h, Steps(r, h),
           UNCHANGED <<settings, checkpoints, queued, announced, created>>,
           mishaps' \in 0 .. MaxMishaps, h.case = Case(r), h.sending = request[r].sending,
           h.pc = "attempt" => h.attempt < MaxAttempts,
           h.pc = "checkpoint" => h.entry # "run-agent",
           h.pc \in {"idle", "refused"} => h.case = 0,
           h.pc \in {"idle", "refused", "attempt", "error"} \/ h.case > 0,
           h.pc # "case", h.pc \in Untold => h.case \notin Heard, Has(r)', Where(r)',
           cases' \in CaseRows, packs' \in PackRows, reports' \in ReportRows,
           \A c \in CaseId : c # Case(r) =>
               cases'[c] = cases[c] /\ packs'[c] = packs[c] /\ reports'[c] = reports[c],
           cases' = cases \/ \A point \in checkpoints : point.case # Case(r)
    PROVE  IntakeInv'
<1> USE DEF IntakeInv
<1>1. Typed'
  BY Frame DEF Typed
<1>2. OneRuns' /\ OwnCase'
  BY LoopKept, OwnKept
<1>3. Stored'
  BY StoredKept
<1>4. \A point \in checkpoints : cases'[point.case] = cases[point.case]
  BY DEF Typed, CheckpointRows
<1>5. created' \in Nat /\ created <= created'
  BY IntakeAssumption DEF IntakeAssumption, Typed
<1>6. PointsSettled'
  BY <1>4, <1>5, PointsKept
<1>7. Whereabouts' /\ Apart'
  BY <1>5, WhereKept
<1> QED
  BY <1>1, <1>2, <1>3, <1>6, <1>7

Start(e, a, p) == [IdleHandler EXCEPT !.entry = e, !.agent = a, !.pc = p]

LEMMA IdleTyped ==
    IdleHandler \in Handler /\ IdleHandler.case = 0 /\ IdleHandler.attempt = 0
      /\ IdleHandler.sending = {}
  BY IntakeAssumption DEF IntakeAssumption, IdleHandler, Handler, IntakePc, Parked, Verdict

LEMMA BeginsAt ==
    ASSUME NEW e \in {"webhook", "run-default", "run-agent"}, NEW a \in BOOLEAN,
           NEW p \in {"attempt", "refused"}
    PROVE  /\ Start(e, a, p) \in Handler /\ Start(e, a, p).pc = p /\ Start(e, a, p).case = 0
           /\ Start(e, a, p).attempt = 0 /\ Start(e, a, p).sending = {}
  BY IdleTyped DEF Start, Handler, IntakePc, Parked

LEMMA BeginsInv ==
    ASSUME IntakeInv, NEW r \in Request,
           HandleWebhook(r) \/ RunDefaultCase(r) \/ RunAgentCase(r)
    PROVE  IntakeInv'
<1> USE DEF IntakeInv
<1>1. PICK h \in Handler :
         /\ request' = [request EXCEPT ![r] = h]
         /\ h.pc \in {"attempt", "refused"} /\ h.case = 0 /\ h.attempt = 0 /\ h.sending = {}
  <2>1. \A alert : UseAgent(alert) \in BOOLEAN
    BY DEF UseAgent, Typed
  <2>2. \E e \in {"webhook", "run-default", "run-agent"}, a \in BOOLEAN,
           p \in {"attempt", "refused"} : request' = [request EXCEPT ![r] = Start(e, a, p)]
    BY <2>1 DEF HandleWebhook, RunDefaultCase, RunAgentCase, Start
  <2>3. PICK e \in {"webhook", "run-default", "run-agent"}, a \in BOOLEAN,
             p \in {"attempt", "refused"} : request' = [request EXCEPT ![r] = Start(e, a, p)]
    BY <2>2
  <2> QED
    BY <2>3, BeginsAt
<1>2. /\ request[r].pc = "idle" /\ Running = {} /\ Case(r) = 0
      /\ UNCHANGED <<settings, stores, queued, announced, created, mishaps>>
  BY DEF HandleWebhook, RunDefaultCase, RunAgentCase, OwnCase, In
<1>3. Steps(r, h)
  BY <1>1, <1>2 DEF Steps, HasLoop
<1>4. request'[r] = h
  BY <1>3, Frame
<1>5. Where(r)' /\ Has(r)'
  BY <1>1, <1>4 DEF Where, Has, In, Told, Responded
<1>6. 0 \notin Heard
  BY DEF Heard, Typed, Handler, CaseId
<1>7. request[r].sending = {} /\ 0 < MaxAttempts
  BY <1>2, IntakeAssumption DEF IntakeAssumption, Whereabouts, Where, In
<1> QED
  BY <1>1, <1>2, <1>3, <1>5, <1>6, <1>7, MovesOn DEF stores, Typed

\* The handler that runs has the event loop, and its case is one of those created.
LEMMA RunnerHasLoop ==
    ASSUME IntakeInv, NEW r \in Running PROVE HasLoop(r)
  BY DEF IntakeInv, OneRuns, HasLoop

LEMMA OwnId ==
    ASSUME IntakeInv, NEW r \in Request, ~ In(r, {"idle", "refused", "attempt", "error"})
    PROVE  Case(r) \in CaseId /\ Case(r) <= created
  BY IntakeAssumption DEF IntakeAssumption, IntakeInv, Typed, OwnCase, Handler, Case, In, CaseId

LEMMA PutsInv ==
    ASSUME IntakeInv, NEW r \in Request, PutCase(r) \/ PutPack(r) \/ PutReport(r)
    PROVE  IntakeInv'
<1>1. PICK p \in {"pack", "report", "publish", "attempt"} :
        /\ request' = [request EXCEPT ![r].pc = p]
        /\ p = IF PutCase(r) THEN "pack" ELSE IF PutPack(r) THEN "report"
               ELSE IF request[r].verdict = "completed" \/ request[r].attempt = MaxAttempts
                    THEN "publish" ELSE "attempt"
  BY DEF PutCase, PutPack, PutReport, Step
<1> DEFINE h == [request[r] EXCEPT !.pc = p]
<1>2. r \in Running /\ In(r, {"case", "pack", "report"}) /\ Case(r) \in CaseId
  BY OwnId DEF PutCase, PutPack, PutReport, Running, In
<1>3. /\ h \in Handler /\ h.pc = p /\ h.case = Case(r) /\ h.sending = request[r].sending
      /\ h.attempt = request[r].attempt /\ h.verdict = request[r].verdict
  BY DEF IntakeInv, Typed, Handler, IntakePc, Case
<1>4. Steps(r, h)
  BY <1>1, <1>2, <1>3, RunnerHasLoop DEF Steps
<1> HIDE DEF h
<1>5. request'[r] = h
  BY <1>4, Frame DEF IntakeInv
<1>6. h.pc = "attempt" => h.attempt < MaxAttempts
  <2>1. request[r].attempt \in 0 .. MaxAttempts
    BY DEF IntakeInv, Typed, Handler
  <2> QED
    BY <1>1, <1>3, <2>1, IntakeAssumption DEF IntakeAssumption
<1>7. /\ cases' \in CaseRows /\ packs' \in PackRows /\ reports' \in ReportRows
      /\ \A c \in CaseId : c # Case(r) =>
             cases'[c] = cases[c] /\ packs'[c] = packs[c] /\ reports'[c] = reports[c]
  BY <1>2 DEF PutCase, PutPack, PutReport, IntakeInv, Typed, CaseRows, PackRows, ReportRows, Case,
              Handler
<1>8. cases' = cases \/ \A point \in checkpoints : point.case # Case(r)
  BY DEF PutCase, PutPack, PutReport, IntakeInv, PointsSettled, In
<1>9. Has(r)'
  BY <1>1, <1>2, <1>3, <1>5
  DEF PutCase, PutPack, PutReport, IntakeInv, Stored, Has, In, Case, Told, Responded, Typed,
      CaseRows, PackRows, ReportRows, Handler
<1>10. Where(r)' /\ Case(r) \notin Heard
  BY <1>1, <1>2, <1>3, <1>5 DEF IntakeInv, Whereabouts, Where, In, Untold, Responded
<1>11. /\ UNCHANGED <<settings, checkpoints, queued, announced, created, mishaps>>
       /\ mishaps \in 0 .. MaxMishaps
  BY DEF PutCase, PutPack, PutReport, IntakeInv, Typed
<1>12. Case(r) > 0 /\ h.pc \in {"pack", "report", "publish", "attempt"}
  BY <1>2, <1>3 DEF CaseId
<1> QED
  BY <1>3, <1>4, <1>6, <1>7, <1>8, <1>9, <1>10, <1>11, <1>12, MovesOn

LEMMA EndsInv ==
    ASSUME IntakeInv, NEW r \in Request, Respond(r) \/ PutFails(r) PROVE IntakeInv'
<1>1. PICK p \in {"ok", "not-ok", "error"} :
        /\ request' = [request EXCEPT ![r].pc = p]
        /\ p = IF PutFails(r) THEN "error"
               ELSE IF request[r].verdict = "completed" THEN "ok" ELSE "not-ok"
  BY DEF Respond, PutFails, Step
<1> DEFINE h == [request[r] EXCEPT !.pc = p]
<1>2. /\ r \in Running /\ In(r, {"case", "pack", "report", "checkpoint", "respond"})
      /\ Case(r) \in CaseId
  BY OwnId DEF Respond, PutFails, Running, In
<1>3. /\ h \in Handler /\ h.pc = p /\ h.case = Case(r) /\ h.sending = request[r].sending
      /\ h.attempt = request[r].attempt /\ h.verdict = request[r].verdict
  BY DEF IntakeInv, Typed, Handler, IntakePc, Parked, Case
<1>4. Steps(r, h)
  BY <1>1, <1>2, <1>3, RunnerHasLoop DEF Steps
<1> HIDE DEF h
<1>5. request'[r] = h
  BY <1>4, Frame DEF IntakeInv
<1>6. UNCHANGED <<settings, stores, queued, announced, created>> /\ mishaps' \in 0 .. MaxMishaps
  BY IntakeAssumption DEF IntakeAssumption, Respond, PutFails, Mishap, IntakeInv, Typed
<1>7. p # "error" => In(r, {"respond"})
  BY <1>1 DEF Respond, PutFails, In
<1>8. Has(r)'
  BY <1>1, <1>3, <1>5, <1>6, <1>7
  DEF IntakeInv, Stored, Has, In, Case, Told, Responded, stores, Typed, Handler, Verdict
<1>9. Where(r)'
  BY <1>2, <1>3, <1>5, <1>6, <1>7 DEF IntakeInv, Whereabouts, Where, In, Case, Responded
<1> QED
  BY <1>1, <1>2, <1>3, <1>4, <1>6, <1>8, <1>9, MovesOn
  DEF IntakeInv, Typed, CaseId, stores, Untold

LEMMA FlowInv ==
    ASSUME IntakeInv, NEW r \in Request, RunDefaultFlow(r) PROVE IntakeInv'
<1> DEFINE p == IF request[r].entry = "webhook" THEN "checkpoint" ELSE "flush"
           h == [request[r] EXCEPT !.pc = p]
<1>2. r \in Running /\ In(r, {"complete"}) /\ Case(r) \in CaseId
  BY OwnId DEF RunDefaultFlow, Running, In
<1>3. /\ h \in Handler /\ h.pc = p /\ h.case = Case(r) /\ h.sending = request[r].sending
      /\ h.entry = request[r].entry /\ h.verdict = request[r].verdict
      /\ p \in {"checkpoint", "flush"}
  BY DEF IntakeInv, Typed, Handler, IntakePc, Case
<1>4. Steps(r, h)
  BY <1>2, <1>3, RunnerHasLoop DEF Steps, RunDefaultFlow, Step
<1>5. p = "checkpoint" <=> request[r].entry = "webhook"
  OBVIOUS
<1> HIDE DEF h, p
<1>6. request'[r] = h
  BY <1>4, Frame DEF IntakeInv
<1>7. cases[Case(r)] \in Verdict /\ packs[Case(r)] /\ reports[Case(r)]
  BY <1>2 DEF IntakeInv, Stored, Has, In, Told, Typed, Handler
<1>8. UNCHANGED <<stores, settings, queued, announced, created, mishaps>>
  BY <1>2, <1>7
  DEF RunDefaultFlow, stores, Case, IntakeInv, Typed, CaseRows, PackRows, ReportRows, Verdict
<1>9. Has(r)'
  BY <1>2, <1>3, <1>6, <1>8
  DEF IntakeInv, Stored, Has, In, Case, Told, Responded, stores
<1>10. Where(r)'
  BY <1>2, <1>3, <1>5, <1>6, <1>8 DEF IntakeInv, Whereabouts, Where, In, Case, Responded
<1> QED
  BY <1>2, <1>3, <1>4, <1>5, <1>8, <1>9, <1>10, MovesOn
  DEF IntakeInv, Typed, CaseId, stores, Untold

LEMMA RunOnceInv == ASSUME IntakeInv, NEW r \in Request, RunOnce(r) PROVE IntakeInv'
<1> DEFINE n == created + 1
<1>1. PICK verdict \in Verdict :
          request' = [request EXCEPT ![r].pc = "case", ![r].verdict = verdict,
                          ![r].attempt = @ + 1, ![r].case = n,
                          ![r].first = IF @ = 0 THEN n ELSE @]
  BY DEF RunOnce
<1>2. /\ r \in Running /\ In(r, {"attempt"}) /\ n \in CaseId /\ created' = n /\ created \in Nat
      /\ request[r].attempt < MaxAttempts
      /\ UNCHANGED <<settings, stores, queued, announced, mishaps>>
  BY IntakeAssumption DEF IntakeAssumption, RunOnce, Running, In, IntakeInv, Typed, CaseId
<1>3. PICK h \in Handler :
         /\ request' = [request EXCEPT ![r] = h]
         /\ h.pc = "case" /\ h.case = n /\ h.sending = request[r].sending
  <2>1. request[r] \in Handler
    BY DEF IntakeInv, Typed
  <2> DEFINE first == IF request[r].first = 0 THEN n ELSE request[r].first
             g == [request[r] EXCEPT !.pc = "case", !.verdict = verdict, !.attempt = @ + 1,
                                     !.case = n, !.first = first]
  <2>2. request' = [request EXCEPT ![r] = g]
    BY <1>1
  <2> HIDE DEF first
  <2>3. g \in Handler /\ g.pc = "case" /\ g.case = n /\ g.sending = request[r].sending
    <3>1. first \in 0 .. MaxCases
      BY <1>2, <2>1 DEF first, Handler, CaseId
    <3>2. request[r].attempt + 1 \in 0 .. MaxAttempts /\ n \in 0 .. MaxCases
      BY <1>2, <2>1, IntakeAssumption DEF IntakeAssumption, Handler, CaseId
    <3> HIDE DEF n
    <3> QED
      BY <2>1, <3>1, <3>2 DEF Handler, IntakePc
  <2> HIDE DEF g
  <2> QED
    BY <2>2, <2>3
<1>4. Steps(r, h)
  BY <1>2, <1>3, RunnerHasLoop DEF Steps
<1>5. request'[r] = h /\ \A s \in Request : s # r => request'[s] = request[s]
  BY <1>4, Frame DEF IntakeInv
<1>6. Typed'
  BY <1>2, <1>3, <1>4, <1>5, Frame DEF IntakeInv, Typed, stores, CaseId
<1>7. OneRuns'
  BY <1>4, LoopKept DEF IntakeInv
<1>8. \A s \in Request : Case(s) \in 0 .. created
  BY IntakeAssumption DEF IntakeAssumption, IntakeInv, Typed, OwnCase, Handler, Case
<1>9. OwnCase'
  BY <1>2, <1>3, <1>5, <1>8 DEF IntakeInv, OwnCase, In, Case
<1>10. Stored'
  BY <1>2, <1>3, <1>4, <1>5, StoredKept DEF IntakeInv, stores, Has, In, Told, Responded
<1>11. \A point \in checkpoints : point.case # n
  BY <1>2 DEF IntakeInv, PointsSettled, Typed, CheckpointRows, CaseId
<1>12. PointsSettled'
  BY <1>2, <1>3, <1>4, <1>11, PointsKept DEF IntakeInv, stores
<1>13. Where(r)' /\ n \notin Heard
  <2>1. h.sending = {}
    BY <1>2, <1>3 DEF IntakeInv, Whereabouts, Where, In
  <2>2. Where(r)'
    BY <1>3, <1>5, <2>1 DEF Where, In, Responded
  <2>3. n \notin Heard
    BY <1>2 DEF IntakeInv, Whereabouts
  <2> QED
    BY <2>2, <2>3
<1>14. Whereabouts' /\ Apart'
  BY <1>2, <1>3, <1>4, <1>13, WhereKept DEF IntakeInv
<1> QED
  BY <1>6, <1>7, <1>9, <1>10, <1>12, <1>14 DEF IntakeInv

LEMMA CheckpointInv == ASSUME IntakeInv, NEW r \in Request, SaveCheckpoint(r) PROVE IntakeInv'
<1> DEFINE p == IF request[r].entry = "webhook" THEN "flush" ELSE "respond"
           h == [request[r] EXCEPT !.pc = p]
           new == [case |-> Case(r), entry |-> request[r].entry,
                   status |-> CheckpointStatus(request[r])]
<1>2. r \in Running /\ In(r, {"checkpoint"}) /\ Case(r) \in CaseId /\ Case(r) <= created
  BY OwnId DEF SaveCheckpoint, Running, In
<1>3. /\ h \in Handler /\ h.pc = p /\ h.case = Case(r) /\ h.sending = request[r].sending
      /\ h.entry = request[r].entry /\ h.verdict = request[r].verdict
      /\ p \in {"respond", "flush"}
  BY DEF IntakeInv, Typed, Handler, IntakePc, Case
<1>4. Steps(r, h)
  BY <1>2, <1>3, RunnerHasLoop DEF Steps, SaveCheckpoint, Step
<1>5. p = "flush" <=> request[r].entry = "webhook"
  OBVIOUS
<1> HIDE DEF h, p
<1>6. request'[r] = h
  BY <1>4, Frame DEF IntakeInv
<1>7. checkpoints' = checkpoints \cup {new}
  BY DEF SaveCheckpoint, SavedRecord, Case
<1>8. cases[Case(r)] \in Verdict
  BY <1>2 DEF IntakeInv, Stored, Has, In, Told, Typed, Handler
<1>9. UNCHANGED <<settings, cases, packs, reports, queued, announced, created, mishaps>>
  BY DEF SaveCheckpoint
<1>10. new \in CheckpointRows
  <2>1. request[r].entry \in {"webhook", "run-default"}
    BY <1>2 DEF IntakeInv, Typed, Handler, In
  <2>2. CheckpointStatus(request[r]) \in Verdict
    BY <1>8 DEF CheckpointStatus, Case, Verdict
  <2> QED
    BY <1>2, <2>1, <2>2 DEF CheckpointRows
<1>11. Typed'
  BY <1>3, <1>4, <1>6, <1>7, <1>9, <1>10, Frame DEF IntakeInv, Typed
<1>12. OneRuns' /\ OwnCase'
  BY <1>2, <1>3, <1>4, <1>9, LoopKept, OwnKept DEF IntakeInv, CaseId
<1>13. Stored'
  <2>1. Has(r)'
    BY <1>2, <1>3, <1>6, <1>9 DEF IntakeInv, Stored, Has, In, Case, Told, Responded
  <2> QED
    BY <1>4, <1>9, <2>1, StoredKept DEF IntakeInv
<1>14. PointsSettled'
  <2>1. new.case = Case(r) /\ new.entry = "webhook" => new.status = cases[Case(r)]
    BY DEF CheckpointStatus, Case
  <2>2. \A s \in Request : In(s, {"case"}) => Case(r) # Case(s)
    BY <1>2 DEF IntakeInv, OwnCase, In, CaseId
  <2> HIDE DEF new
  <2>3. new.case = Case(r)
    BY DEF new
  <2>4. PointsSettled
    BY DEF IntakeInv
  <2> QED
    BY <1>2, <1>3, <1>4, <1>6, <1>7, <1>9, <2>1, <2>2, <2>3, <2>4, Frame
    DEF IntakeInv, PointsSettled, In, Case
<1>15. Whereabouts' /\ Apart'
  <2>1. Where(r)'
    BY <1>2, <1>3, <1>5, <1>6, <1>9 DEF IntakeInv, Whereabouts, Where, In, Case, Responded
  <2> QED
    BY <1>3, <1>4, <1>9, <2>1, WhereKept, IntakeAssumption
    DEF IntakeAssumption, IntakeInv, Typed, Untold
<1> QED
  BY <1>11, <1>12, <1>13, <1>14, <1>15 DEF IntakeInv

\* Steps that move announcements: the stores and the case of the handler stay.
LEMMA AnnouncesOn ==
    ASSUME IntakeInv, NEW r, NEW h, Steps(r, h), UNCHANGED <<settings, stores, created, mishaps>>,
           ~ In(r, {"idle", "refused", "attempt", "error", "case", "pack", "report"}),
           h.case = Case(r), h.verdict = request[r].verdict,
           h.pc \in {"complete", "flush", "flushing", "checkpoint", "respond"},
           h.pc = "checkpoint" => h.entry # "run-agent"
    PROVE  OneRuns' /\ OwnCase' /\ Stored' /\ PointsSettled'
             /\ (queued' \subseteq CaseId /\ announced' \subseteq CaseId => Typed')
<1> USE DEF IntakeInv, stores
<1>1. request'[r] = h /\ r \in Request
  BY Frame DEF Steps
<1>2. Case(r) > 0
  BY <1>1 DEF OwnCase, In
<1>3. OneRuns' /\ OwnCase'
  BY <1>2, LoopKept, OwnKept
<1>4. Has(r)'
  BY <1>1 DEF Stored, Has, In, Case, Told, Responded, Typed, Handler, IntakePc, Parked
<1>5. Stored' /\ PointsSettled'
  BY <1>4, StoredKept, PointsKept, IntakeAssumption DEF IntakeAssumption, Typed
<1>6. queued' \subseteq CaseId /\ announced' \subseteq CaseId => Typed'
  BY <1>1, Frame DEF Typed
<1> QED
  BY <1>3, <1>5, <1>6

LEMMA PublishInv == ASSUME IntakeInv, NEW r \in Request, PublishCaseCompleted(r) PROVE IntakeInv'
<1> DEFINE p == IF request[r].agent THEN "flush" ELSE "complete"
           h == [request[r] EXCEPT !.case = Case(r), !.pc = p]
<1>1. r \in Running /\ In(r, {"publish"}) /\ Case(r) \in CaseId /\ Case(r) <= created
  BY OwnId DEF PublishCaseCompleted, Running, In
<1>2. cases[Case(r)] # "none"
  BY <1>1 DEF IntakeInv, Stored, Has, In, Told, Typed, Handler, Verdict
<1>3. queued' = queued \cup {Case(r)} /\ request' = [request EXCEPT ![r] = h]
      /\ UNCHANGED <<settings, stores, announced, created, mishaps>>
  BY <1>2 DEF PublishCaseCompleted, FinalCase, Case
<1>4. /\ h \in Handler /\ h.pc = p /\ h.case = Case(r) /\ h.sending = request[r].sending
      /\ h.verdict = request[r].verdict /\ p \in {"flush", "complete"}
  <2>1. request[r] \in Handler /\ Case(r) \in 0 .. MaxCases
    BY DEF IntakeInv, Typed, Handler, Case
  <2> QED
    BY <2>1 DEF Handler, IntakePc
<1> HIDE DEF h, p
<1>5. Steps(r, h)
  BY <1>1, <1>3, <1>4, RunnerHasLoop DEF Steps
<1>6. request'[r] = h /\ \A s \in Request : s # r => request'[s] = request[s]
  BY <1>5, Frame DEF IntakeInv
<1>7. OneRuns' /\ OwnCase' /\ Stored' /\ PointsSettled' /\ Typed'
  BY <1>1, <1>3, <1>4, <1>5, AnnouncesOn DEF In, IntakeInv, Typed
<1>8. Case(r) \notin Heard /\ Heard' = Heard \cup {Case(r)}
  <2>1. \A s \in Request : request'[s].sending = request[s].sending
    BY <1>4, <1>6
  <2> QED
    BY <1>1, <1>3, <2>1 DEF IntakeInv, Whereabouts, In, Untold, Heard
<1>9. Apart'
  BY <1>3, <1>4, <1>6, <1>8 DEF IntakeInv, Apart, Heard
<1>10. \A s \in Request : Where(s)'
  BY <1>1, <1>3, <1>4, <1>6 DEF IntakeInv, Whereabouts, Where, In, Case, Responded
<1>11. \A s \in Request : In(s, Untold)' => Case(s)' \notin Heard'
  <2> SUFFICES ASSUME NEW s \in Request, In(s, Untold)' PROVE Case(s)' \notin Heard'
    OBVIOUS
  <2>1. s # r
    BY <1>4, <1>6 DEF In, Untold
  <2>2. In(s, Untold) /\ Case(s)' = Case(s) /\ Case(s) # Case(r)
    BY <1>1, <1>6, <2>1 DEF In, Case, IntakeInv, OwnCase, CaseId
  <2> QED
    BY <1>8, <2>2 DEF IntakeInv, Whereabouts
<1>12. Whereabouts'
  BY <1>1, <1>3, <1>8, <1>10, <1>11 DEF IntakeInv, Whereabouts
<1> QED
  BY <1>7, <1>9, <1>12 DEF IntakeInv

LEMMA FlushInv == ASSUME IntakeInv, NEW r \in Request, FlushBroadcasts(r) PROVE IntakeInv'
<1> DEFINE h == [request[r] EXCEPT !.pc = "flushing", !.sending = queued]
<1>1. r \in Running /\ In(r, {"flush"}) /\ Case(r) \in CaseId
  BY OwnId DEF FlushBroadcasts, Running, In
<1>2. queued' = {} /\ request' = [request EXCEPT ![r] = h]
      /\ UNCHANGED <<settings, stores, announced, created, mishaps>>
  BY DEF FlushBroadcasts, QueueAfter
<1>3. /\ h \in Handler /\ h.pc = "flushing" /\ h.case = Case(r) /\ h.sending = queued
      /\ h.verdict = request[r].verdict
  <2>1. request[r] \in Handler /\ queued \in SUBSET CaseId
    BY DEF IntakeInv, Typed
  <2> QED
    BY <2>1 DEF Handler, IntakePc, Parked, Case
<1> HIDE DEF h
<1>4. Steps(r, h)
  BY <1>1, <1>2, <1>3, RunnerHasLoop DEF Steps
<1>5. request'[r] = h /\ \A s \in Request : s # r => request'[s] = request[s]
  BY <1>4, Frame DEF IntakeInv
<1>6. OneRuns' /\ OwnCase' /\ Stored' /\ PointsSettled' /\ Typed'
  BY <1>1, <1>2, <1>3, <1>4, AnnouncesOn DEF In, IntakeInv, Typed
<1>7. request[r].sending = {} /\ Case(r) \in queued
  BY <1>1 DEF IntakeInv, Whereabouts, Where, In
<1>8. Heard' = Heard
  <2>1. \A s \in Request : request'[s].sending = IF s = r THEN queued ELSE request[s].sending
    BY <1>3, <1>5
  <2>2. UNION {request'[s].sending : s \in Request}
          = queued \cup UNION {request[s].sending : s \in Request}
    BY <1>7, <2>1
  <2> QED
    BY <1>2, <2>2 DEF Heard
<1>9. Apart'
  BY <1>2, <1>3, <1>5 DEF IntakeInv, Apart
<1>10. \A s \in Request : Where(s)'
  <2> SUFFICES ASSUME NEW s \in Request PROVE Where(s)'
    OBVIOUS
  <2>1. CASE s = r
    BY <1>3, <1>5, <1>7, <2>1 DEF Where, In, Case, Responded
  <2>2. CASE s # r
    <3>1. ~ In(s, {"complete", "flush", "checkpoint"})
      BY <1>1, <2>2 DEF IntakeInv, OneRuns, Running, In
    <3> QED
      BY <1>2, <1>5, <2>2, <3>1 DEF IntakeInv, Whereabouts, Where, In, Case
  <2> QED
    BY <2>1, <2>2
<1>11. \A s \in Request : In(s, Untold)' => Case(s)' \notin Heard'
  BY <1>3, <1>5, <1>8 DEF IntakeInv, Whereabouts, In, Case, Untold
<1>12. Whereabouts'
  BY <1>2, <1>8, <1>10, <1>11 DEF IntakeInv, Whereabouts
<1> QED
  BY <1>6, <1>9, <1>12 DEF IntakeInv

LEMMA SentInv == ASSUME IntakeInv, NEW r \in Request, BroadcastsSent(r) PROVE IntakeInv'
<1> DEFINE p == IF request[r].entry = "run-default" /\ ~request[r].agent
                THEN "checkpoint" ELSE "respond"
           h == [request[r] EXCEPT !.sending = {}, !.pc = p]
<1>1. In(r, {"flushing"}) /\ Case(r) \in CaseId /\ HasLoop(r)
  BY OwnId DEF BroadcastsSent, In
<1>2. /\ queued' = queued /\ announced' = announced \cup request[r].sending
      /\ request' = [request EXCEPT ![r] = h]
      /\ UNCHANGED <<settings, stores, created, mishaps>>
  BY DEF BroadcastsSent, QueueAfter
<1>3. /\ h \in Handler /\ h.pc = p /\ h.case = Case(r) /\ h.sending = {}
      /\ h.verdict = request[r].verdict /\ h.entry = request[r].entry
      /\ p \in {"checkpoint", "respond"} /\ (p = "checkpoint" => h.entry = "run-default")
  BY DEF IntakeInv, Typed, Handler, IntakePc, Case
<1> HIDE DEF h, p
<1>4. Steps(r, h)
  BY <1>1, <1>2, <1>3 DEF Steps
<1>5. request'[r] = h /\ \A s \in Request : s # r => request'[s] = request[s]
  BY <1>4, Frame DEF IntakeInv
<1>6. announced' \subseteq CaseId
  BY <1>2 DEF IntakeInv, Typed, Handler
<1>7. OneRuns' /\ OwnCase' /\ Stored' /\ PointsSettled' /\ Typed'
  BY <1>1, <1>2, <1>3, <1>4, <1>6, AnnouncesOn DEF In, IntakeInv, Typed
<1>8. Heard' = Heard
  <2>1. \A s \in Request : request'[s].sending = IF s = r THEN {} ELSE request[s].sending
    BY <1>3, <1>5
  <2>2. UNION {request[s].sending : s \in Request}
          = request[r].sending \cup UNION {request'[s].sending : s \in Request}
    BY <2>1
  <2> QED
    BY <1>2, <2>2 DEF Heard
<1>9. Apart'
  BY <1>2, <1>3, <1>5 DEF IntakeInv, Apart
<1>10. Case(r) \in announced'
  BY <1>1, <1>2 DEF IntakeInv, Whereabouts, Where
<1>11. \A s \in Request : Where(s)'
  BY <1>2, <1>3, <1>5, <1>10 DEF IntakeInv, Whereabouts, Where, In, Case
<1>12. \A s \in Request : In(s, Untold)' => Case(s)' \notin Heard'
  BY <1>3, <1>5, <1>8 DEF IntakeInv, Whereabouts, In, Case, Untold
<1>13. Whereabouts'
  BY <1>2, <1>8, <1>11, <1>12 DEF IntakeInv, Whereabouts
<1> QED
  BY <1>7, <1>9, <1>13 DEF IntakeInv

LEMMA RestartInv == ASSUME IntakeInv, ApiRestarts PROVE IntakeInv'
<1> DEFINE Stays(s) == In(s, {"idle", "refused", "error"})
                        \/ (settings.backend # "memory" /\ In(s, Responded))
<1>1. ASSUME NEW s \in Request
      PROVE  /\ request'[s] \in Handler /\ Case(s)' = Case(s) /\ request'[s].sending = {}
             /\ request'[s].pc = IF Stays(s) THEN request[s].pc ELSE "error"
             /\ request'[s].verdict = request[s].verdict
  <2>1. request[s] \in Handler /\ (In(s, {"flushing"}) \/ request[s].sending = {})
    BY DEF IntakeInv, Typed, Whereabouts, Where
  <2> QED
    BY <2>1 DEF ApiRestarts, In, Case, Responded, Handler, IntakePc, Parked
<1>2. /\ queued' = {} /\ announced' = announced /\ created' = created /\ settings' = settings
      /\ request' = [s \in Request |-> request'[s]]
  BY DEF ApiRestarts
<1>3. /\ settings.backend # "memory" => UNCHANGED stores
      /\ settings.backend = "memory" => checkpoints' = {}
      /\ cases' \in CaseRows /\ packs' \in PackRows /\ reports' \in ReportRows
  BY DEF ApiRestarts, stores, IntakeInv, Typed, CaseRows, PackRows, ReportRows
<1>4. Typed'
  <2>1. request' \in [Request -> Handler]
    BY <1>1, <1>2
  <2>2. mishaps' \in 0 .. MaxMishaps
    <3>1. mishaps < MaxMishaps /\ mishaps' = mishaps + 1
      BY DEF ApiRestarts, Mishap
    <3> QED
      BY <3>1, IntakeAssumption DEF IntakeAssumption, IntakeInv, Typed
  <2>3. checkpoints' \subseteq CheckpointRows
    BY <1>3 DEF stores, IntakeInv, Typed
  <2>4. \A s \in Request : request'[s].pc \notin {"attempt", "checkpoint"}
    BY <1>1 DEF In, Responded
  <2> QED
    BY <1>2, <1>3, <2>1, <2>2, <2>3, <2>4 DEF IntakeInv, Typed
<1>5. OneRuns' /\ OwnCase'
  BY <1>1, <1>2 DEF IntakeInv, OneRuns, Running, OwnCase, In, Case, Responded
<1>6. Stored'
  <2> SUFFICES ASSUME NEW s \in Request PROVE Has(s)'
    BY DEF Stored
  <2>1. CASE settings.backend # "memory" /\ In(s, Responded)
    BY <1>1, <1>3, <2>1 DEF IntakeInv, Stored, Has, In, Case, stores, Told, Responded
  <2>2. CASE ~ (settings.backend # "memory" /\ In(s, Responded))
    BY <1>1, <2>2 DEF Has, In, Told, Responded
  <2> QED
    BY <2>1, <2>2
<1>7. PointsSettled'
  BY <1>1, <1>2, <1>3 DEF IntakeInv, PointsSettled, In, stores, Responded
<1>8. Heard' \subseteq Heard
  BY <1>1, <1>2 DEF Heard
<1>9. Whereabouts'
  BY <1>1, <1>2, <1>8 DEF IntakeInv, Whereabouts, Where, In, Case, Responded, Untold
<1>10. Apart'
  BY <1>1, <1>2 DEF IntakeInv, Apart
<1> QED
  BY <1>4, <1>5, <1>6, <1>7, <1>9, <1>10 DEF IntakeInv

LEMMA IntakeStepInv == IntakeInv /\ [IntakeNext]_intakeVars => IntakeInv'
<1> SUFFICES ASSUME IntakeInv, [IntakeNext]_intakeVars PROVE IntakeInv'
  OBVIOUS
<1>1. CASE UNCHANGED intakeVars
  BY <1>1 DEF intakeVars, stores, IntakeInv, Typed, OneRuns, Running, OwnCase, Stored, Has,
              PointsSettled, Whereabouts, Where, Heard, Apart, In, Case
<1> QED
  BY <1>1, BeginsInv, RunOnceInv, PutsInv, PublishInv, FlowInv, CheckpointInv, FlushInv, SentInv,
     EndsInv, RestartInv
  DEF IntakeNext

\* What the API answers, saves and announces of a case is what its stores hold of it, for any
\* number of deliveries, attempts, failed writes and restarts.
THEOREM AnswersAreTrue == IntakeSpec => [](IntakeTypeOK /\ AnswersTrue)
  BY IntakeInitInv, IntakeStepInv, InvGivesAnswers, PTL DEF IntakeSpec

-----------------------------------------------------------------------------
(* The forwarding of tools.                                                *)

AnyField == UNION {Fields(tool) : tool \in Tool}

\* The request carries what the adapter sends of the call, and what the route
\* passes on of that; a process that calls itself keeps its loop until the call
\* has ended.
ForwardingInv ==
    /\ ForwardingTypeOK
    /\ call \in [pc : {"idle", "adapter", "waiting", "ok", "failed"}, tool : Tool, args : SUBSET AnyField]
    /\ served \in [pc : {"none", "received", "answered", "error", "refused"}, args : SUBSET AnyField]
    /\ call.pc \in {"idle", "adapter"} => served = NoRequest
    /\ served.pc \in {"received", "refused"} => served.args = Sent(call.tool, call.args)
    /\ served.pc \in {"answered", "error"} => served.args = Passed(call.tool, Sent(call.tool, call.args))
    /\ own /\ call.pc \in {"adapter", "waiting"} => busy
    /\ own /\ call.pc = "waiting" => served.pc = "received"
    /\ adapter = "http" /\ own => call.pc # "ok"

LEMMA AnyFields == ASSUME NEW tool \in Tool PROVE Fields(tool) \subseteq AnyField
BY DEF AnyField

LEMMA RequiredAreFields == ASSUME NEW tool \in Tool PROVE Required(tool) \subseteq Fields(tool)
<1> USE DEF Required, Fields, Catalog, GraphTool, RepoTool, LspTool, ByName, Position, Tool
<1>1. CASE tool \in Catalog BY <1>1
<1>2. CASE tool \in GraphTool BY <1>2 DEF GraphFields
<1>3. CASE tool \in RepoTool BY <1>3 DEF RepoFields
<1>4. CASE tool \in LspTool BY <1>4 DEF LspFields
<1>5. CASE tool \notin Catalog \cup GraphTool \cup RepoTool \cup LspTool BY <1>5
<1> QED BY <1>1, <1>2, <1>3, <1>4, <1>5

\* What is sent of a call is of its fields.
LEMMA SentAreFields ==
    ASSUME NEW tool, NEW args
    PROVE  Sent(tool, args) \subseteq args
BY DEF Sent

\* The route fills in what the tool may be given.
LEMMA PassedAreFields ==
    ASSUME NEW tool, NEW args \in SUBSET Fields(tool)
    PROVE  Passed(tool, args) \subseteq Fields(tool)
<1>1. CASE tool = "code.find_callers"
  BY <1>1 DEF Passed, Defaulted, Fields, Catalog, GraphTool, RepoTool, LspTool, ByName, Position,
              Tool
<1>2. CASE tool # "code.find_callers"
  BY <1>2 DEF Passed, Defaulted
<1> QED BY <1>1, <1>2

\* A tool that is not lossy gets what it was called with.
LEMMA NothingIsLost ==
    ASSUME NEW tool \in Tool, tool \notin Lossy, NEW args \in SUBSET Fields(tool)
    PROVE  Passed(tool, Sent(tool, args)) = args
<1>1. Unknown(tool) = {} /\ Defaulted(tool) = {} /\ tool # "repo.sync_all"
  BY DEF Lossy, LspTool, Position, Unknown, Defaulted
<1>2. Sent(tool, args) = args
  <2>1. CASE tool \in {"repo.sync_changed", "repo.sync"} \cup ByName
    <3>1. Fields(tool) = RepoFields(tool)
      BY <2>1 DEF Fields, Catalog, GraphTool, RepoTool, LspTool, ByName, Position, Tool
    <3> QED BY <2>1, <3>1, <1>1 DEF Sent, RepoFields, ByName
  <2>2. CASE tool \notin {"repo.sync_changed", "repo.sync"} \cup ByName
    BY <2>2, <1>1 DEF Sent
  <2> QED BY <2>1, <2>2
<1> QED BY <1>1, <1>2 DEF Passed

LEMMA ForwardingInitOK == ForwardingInit => ForwardingInv
<1> SUFFICES ASSUME ForwardingInit PROVE ForwardingInv
  OBVIOUS
<1>1. "index.get_status" \in Tool BY DEF Tool
<1> QED BY <1>1 DEF ForwardingInit, ForwardingInv, ForwardingTypeOK, NoCall, NoRequest

LEMMA ForwardingStep == ForwardingInv /\ [ForwardingNext]_forwardingVars => ForwardingInv'
<1> SUFFICES ASSUME ForwardingInv, [ForwardingNext]_forwardingVars PROVE ForwardingInv'
  OBVIOUS
<1>t. ForwardingTypeOK BY DEF ForwardingInv
<1>f. Fields(call.tool) \subseteq AnyField BY <1>t, AnyFields DEF ForwardingTypeOK
<1>1. CASE InvokeTool
  <2>0. PICK tool \in Tool : \E more \in SUBSET (Fields(tool) \ Required(tool)) :
           call' = [pc |-> "adapter", tool |-> tool, args |-> Required(tool) \cup more]
    BY <1>1 DEF InvokeTool
  <2>1. PICK more \in SUBSET (Fields(tool) \ Required(tool)) :
           call' = [pc |-> "adapter", tool |-> tool, args |-> Required(tool) \cup more]
    BY <2>0
  <2>2. Required(tool) \cup more \subseteq Fields(tool) /\ Fields(tool) \subseteq AnyField
    BY RequiredAreFields, AnyFields
  <2>3. served' = served /\ served = NoRequest /\ busy' = (own \/ busy)
    BY <1>1 DEF InvokeTool, ForwardingInv
  <2>4. call'.pc = "adapter" /\ call'.tool = tool /\ call'.args \subseteq Fields(tool)
    BY <2>1, <2>2
  <2>5. adapter' = adapter /\ own' = own BY <1>1 DEF InvokeTool
  <2>6. served'.pc = "none" /\ served'.args = {} BY <2>3 DEF NoRequest
  <2>7. call' \in [pc : {"idle", "adapter", "waiting", "ok", "failed"}, tool : Tool, args : SUBSET AnyField]
    BY <2>1, <2>2
  <2> QED BY <2>3, <2>4, <2>5, <2>6, <2>7, <1>t DEF ForwardingInv, ForwardingTypeOK
<1>2. CASE CallComposite
  <2>1. PICK end \in {"ok", "failed"} : call' = [call EXCEPT !.pc = end]
    BY <1>2 DEF CallComposite
  <2>2. call'.pc = end /\ call'.tool = call.tool /\ call'.args = call.args
    BY <2>1 DEF ForwardingInv
  <2> QED
    BY <2>1, <2>2, <1>2, <1>t DEF CallComposite, ForwardingInv, ForwardingTypeOK, NoRequest
<1>3. CASE Post
  <2>1. Sent(call.tool, call.args) \subseteq Fields(call.tool)
    BY <1>t, SentAreFields DEF ForwardingTypeOK
  <2>2. call'.pc = "waiting" /\ call'.tool = call.tool /\ call'.args = call.args
    BY <1>3 DEF Post, ForwardingInv
  <2> QED
    BY <2>1, <2>2, <1>f, <1>3, <1>t DEF Post, ForwardingInv, ForwardingTypeOK, NoRequest
<1>4. CASE ServeRoute
  <2> DEFINE args == Passed(call.tool, served.args)
  <2>1. args \subseteq Fields(call.tool)
    BY <1>t, PassedAreFields DEF ForwardingTypeOK
  <2>2. served.pc = "received" /\ ~busy /\ served.args = Sent(call.tool, call.args)
    BY <1>4 DEF ServeRoute, ForwardingInv
  <2>3. ~(own /\ call.pc \in {"adapter", "waiting"})
    BY <2>2 DEF ForwardingInv
  <2>4. UNCHANGED <<adapter, own, busy, call>> BY <1>4 DEF ServeRoute
  <2>5. call.pc \notin {"idle", "adapter"} BY <2>2 DEF ForwardingInv, NoRequest
  <2>6. CASE Demanded(call.tool) \subseteq args
    <3>1. served'.args = args /\ served'.pc \in {"answered", "error"}
          /\ served' = [pc |-> served'.pc, args |-> args]
      BY <1>4, <2>6 DEF ServeRoute
    <3> QED BY <3>1, <2>1, <2>2, <2>3, <2>4, <2>5, <1>t, <1>f DEF ForwardingInv, ForwardingTypeOK
  <2>7. CASE ~(Demanded(call.tool) \subseteq args)
    <3>1. served' = [served EXCEPT !.pc = "refused"]
      BY <1>4, <2>7 DEF ServeRoute
    <3>2. served'.args = served.args /\ served'.pc = "refused"
      BY <3>1 DEF ForwardingInv
    <3> QED BY <3>1, <3>2, <2>2, <2>3, <2>4, <2>5, <1>t DEF ForwardingInv, ForwardingTypeOK
  <2> QED BY <2>6, <2>7
<1>5. CASE Response \/ Timeout
  <2>1. call.pc = "waiting" /\ UNCHANGED <<adapter, own, busy, served>>
    BY <1>5 DEF Response, Timeout
  <2>2. \E pc \in {"ok", "failed"} :
           call' = [call EXCEPT !.pc = pc] /\ (pc = "ok" => served.pc = "answered")
    BY <1>5 DEF Response, Timeout
  <2>3. PICK pc \in {"ok", "failed"} :
           call' = [call EXCEPT !.pc = pc] /\ (pc = "ok" => served.pc = "answered")
    BY <2>2
  <2>4. call'.pc = pc /\ call'.tool = call.tool /\ call'.args = call.args
    BY <2>3 DEF ForwardingInv
  <2>5. own => pc = "failed" BY <2>1, <2>3 DEF ForwardingInv
  <2> QED BY <2>1, <2>3, <2>4, <2>5, <1>t DEF ForwardingInv, ForwardingTypeOK
<1>6. CASE CallerEnds \/ OtherFlow \/ UNCHANGED forwardingVars
  <2>1. UNCHANGED <<adapter, own, call, served>> /\ busy' \in BOOLEAN
    BY <1>6, <1>t DEF CallerEnds, OtherFlow, forwardingVars, ForwardingTypeOK
  <2>2. own /\ call.pc \in {"adapter", "waiting"} => busy' = busy
    BY <1>6 DEF CallerEnds, OtherFlow, forwardingVars
  <2> QED BY <2>1, <2>2, <1>t DEF ForwardingInv, ForwardingTypeOK
<1> QED BY <1>1, <1>2, <1>3, <1>4, <1>5, <1>6 DEF ForwardingNext

LEMMA ForwardingInvariance == ForwardingSpec => []ForwardingInv
BY ForwardingInitOK, ForwardingStep, PTL DEF ForwardingSpec

\* Wherever a tool is called, it works with the arguments it was given, the
\* lossy tools apart, and a flow never gets an answer by HTTP from the process
\* it runs in (HttpInternalToolAdapter and the routes of the API).
THEOREM ArgumentsArrive == ForwardingSpec => []SameArguments
<1>1. ForwardingInv => SameArguments
  <2> SUFFICES ASSUME ForwardingInv, served.pc \in {"answered", "error"}, call.tool \notin Lossy
               PROVE  served.args = call.args
    BY DEF ForwardingInv, SameArguments
  <2> QED BY NothingIsLost DEF ForwardingInv, ForwardingTypeOK
<1> QED BY <1>1, ForwardingInvariance, PTL

-----------------------------------------------------------------------------
(* Least and greatest elements.                                           *)

LEMMA LeastExists ==
    ASSUME NEW S \in SUBSET Nat, S # {}
    PROVE  \E m \in S : \A x \in S : m <= x
<1> DEFINE Less == {ab \in Nat \X Nat : ab[1] < ab[2]}
<1>1. IsWellFoundedOn(Less, Nat) BY NatLessThanWellFounded DEF OpToRel
<1>2. PICK m \in S : \A x \in S : ~(<<x, m>> \in Less)
  <2> HIDE DEF Less
  <2> QED BY <1>1, WFMin
<1>3. ASSUME NEW x \in S PROVE m <= x
  <2>1. ~(x < m) BY <1>2
  <2> QED BY <2>1
<1> QED BY <1>3

LEMMA GreatestExists ==
    ASSUME NEW n \in Nat, NEW S \in SUBSET (0 .. n), S # {}
    PROVE  \E m \in S : \A x \in S : x <= m
<1> DEFINE Left == {k \in 0 .. n : n - k \in S}
<1>1. Left \subseteq Nat OBVIOUS
<1>2. Left # {}
  <2>1. PICK x \in S : TRUE OBVIOUS
  <2>2. n - x \in 0 .. n /\ n - (n - x) = x OBVIOUS
  <2> QED BY <2>1, <2>2
<1>3. PICK j \in Left : \A k \in Left : j <= k
  <2> HIDE DEF Left
  <2> QED BY <1>1, <1>2, LeastExists
<1>4. n - j \in S BY <1>3
<1>5. ASSUME NEW x \in S PROVE x <= n - j
  <2>1. n - x \in 0 .. n /\ n - (n - x) = x OBVIOUS
  <2>2. n - x \in Left BY <2>1
  <2>3. j <= n - x BY <1>3, <2>2
  <2> QED BY <2>3, <1>3
<1> QED BY <1>4, <1>5

LEMMA MinNaturals ==
    ASSUME NEW S \in SUBSET Nat, S # {}
    PROVE  Min(S) \in S
<1>1. PICK m \in S : \A x \in S : m <= x BY LeastExists
<1> QED BY <1>1 DEF Min

-----------------------------------------------------------------------------
(* The analysis.                                                           *)

\* What is concluded from: some hypotheses, no two of one rank, that cite what is there.
Rankable(hs, p) ==
    /\ hs # {}
    /\ \A h \in hs : h.cites \subseteq Ids(p) /\ h.order \in Nat
    /\ \A g, h \in hs : g.order = h.order => g = h

DiagnosisInv ==
    /\ stage \in {"collect", "round", "conclude", "model", "reported"}
    /\ pack \in Seq(Words)
    /\ collected \in 0 .. MaxCollected /\ collected <= Len(pack)
    /\ expander \in BOOLEAN /\ converged \in BOOLEAN
    /\ round \in 0 .. MaxRounds /\ attempt \in 0 .. MaxRequests
    /\ stage = "collect" => collected = Len(pack) /\ round = 0
    /\ stage \in {"round", "conclude"} => pack # <<>>
    /\ stage = "round" => round < MaxRounds
    /\ stage = "conclude" => Rankable(hypotheses, pack)
    /\ stage \in {"model", "reported"} => conclusion.top.cites \subseteq Ids(pack)
    /\ conclusion.confidence \in 0 .. 95 /\ report.confidence \in 0 .. 100
    /\ report.cause \in {"none", "rules", "model"} /\ report.text \in {"none", "rules", "model"}

LEMMA MaxUpTo == ASSUME NEW n \in Nat PROVE Max((1 .. n) \cup {0}) = n
<1> DEFINE S == (1 .. n) \cup {0}
<1>1. n \in S /\ \A y \in S : n >= y OBVIOUS
<1>2. \A x \in S : (\A y \in S : x >= y) => x = n BY <1>1
<1> HIDE DEF S
<1>3. (CHOOSE x \in S : \A y \in S : x >= y) = n BY <1>1, <1>2
<1> QED BY <1>3 DEF Max, S

\* An item is added after the others.
LEMMA AddedOK ==
    ASSUME NEW p \in Seq(Words), NEW item \in Words
    PROVE  Added(p, item) \in Seq(Words) /\ Len(Added(p, item)) = Len(p) + 1
           /\ Added(p, item) # <<>>
<1> DEFINE n == Len(p)
<1>1. n \in Nat /\ Ids(p) = 1 .. n BY DEF Ids
<1>2. NextId(p) = n + 1 BY <1>1, MaxUpTo DEF NextId
<1>3. (1 .. n) \cup {n + 1} = 1 .. n + 1 BY <1>1
<1>4. Added(p, item) = [i \in 1 .. n + 1 |-> IF i = n + 1 THEN item ELSE p[i]]
  BY <1>1, <1>2, <1>3 DEF Added
<1>5. \A i \in 1 .. n + 1 : (IF i = n + 1 THEN item ELSE p[i]) \in Words BY <1>1
<1>6. n + 1 \in Nat BY <1>1
<1>7. Added(p, item) \in [1 .. n + 1 -> Words] BY <1>4, <1>5
<1>8. Added(p, item) \in Seq(Words) BY <1>6, <1>7, SeqDef
<1>9. Len(Added(p, item)) = n + 1 BY <1>6, <1>7, <1>8, LenProperties
<1> HIDE DEF n
<1>10. Added(p, item) # <<>> BY <1>1, <1>9
<1> QED BY <1>8, <1>9, <1>10 DEF n

LEMMA DerivedWords == Derived \subseteq Words /\ Logs \in Words
<1>1. "trace" \in Topic
  <2>1. 2 \in DOMAIN Template /\ Template[2] = "trace" BY DEF Template
  <2> QED BY <2>1 DEF Topic
<1>2. ASSUME NEW item \in Derived PROVE item \in Words
  <2>1. PICK m \in SUBSET {"trace"} :
           item = [type |-> "other", match |-> m, echo |-> m, alarm |-> FALSE, calm |-> FALSE,
                   configured |-> TRUE]
    BY DEF Derived
  <2>2. m \in SUBSET Topic /\ m \in SUBSET (Topic \cup EvidenceType) BY <1>1
  <2> QED BY <2>1, <2>2 DEF Words, EvidenceType
<1>3. Logs \in Words
  <2>1. {} \in SUBSET Topic /\ {} \in SUBSET (Topic \cup EvidenceType) OBVIOUS
  <2> QED BY <2>1 DEF Logs, Words, EvidenceType
<1> QED BY <1>2, <1>3

\* What the hypotheses of a pack cite, and how they rank.
LEMMA GeneratedOK ==
    ASSUME NEW p, Ids(p) \subseteq Nat \ {0}, IsFiniteSet(Ids(p))
    PROVE  Rankable(Generated(p), p)
<1>1. CASE p = <<>>
  <2>1. Generated(p) = {NoEvidence} BY <1>1 DEF Generated
  <2> QED BY <2>1 DEF Rankable, NoEvidence, Hypothesis
<1>2. CASE p # <<>> /\ FromTemplates(p) \cup FromTypes(p) = {}
  <2>1. Generated(p) = {CatchAll(p)} BY <1>2 DEF Generated
  <2> QED BY <2>1 DEF Rankable, CatchAll, Hypothesis
<1>3. CASE p # <<>> /\ FromTemplates(p) \cup FromTypes(p) # {}
  <2>1. Generated(p) = FromTemplates(p) \cup FromTypes(p) BY <1>3 DEF Generated
  <2>2. DOMAIN Template = 1 .. 2 /\ Len(Template) = 2 BY DEF Template
  <2>3. ASSUME NEW h \in FromTemplates(p)
        PROVE  /\ h.order \in 1 .. 2 /\ h.cites \subseteq Ids(p)
               /\ h = Hypothesis(Template[h.order], h.order, NewItems(p, h.order))
    <3>1. PICK n \in 1 .. 2 : h = Hypothesis(Template[n], n, NewItems(p, n))
      BY <2>2 DEF FromTemplates
    <3>2. NewItems(p, n) \subseteq Ids(p) BY DEF NewItems, Matching, Telling
    <3>3. h.order = n /\ h.cites = NewItems(p, n) BY <3>1 DEF Hypothesis
    <3> QED BY <3>1, <3>2, <3>3
  <2>4. ASSUME NEW h \in FromTypes(p)
        PROVE  /\ h.order - 2 \in Ids(p) /\ h.order \in Nat /\ h.order > 2
               /\ h.cites \subseteq Ids(p)
               /\ h = Hypothesis(p[h.order - 2].type, h.order, Remaining(p, p[h.order - 2].type))
    <3>1. PICK t \in EvidenceType :
             /\ Cardinality(Remaining(p, t)) >= 2
             /\ h = Hypothesis(t, Len(Template) + Min(Remaining(p, t)), Remaining(p, t))
      BY DEF FromTypes
    <3> DEFINE R == Remaining(p, t)
    <3>2. R \subseteq Ids(p) /\ (\A i \in R : p[i].type = t)
      <4>1. R = {i \in Telling(p) : p[i].type = t /\ p[i].match = {}} BY DEF Remaining
      <4>2. Telling(p) \subseteq Ids(p) BY DEF Telling
      <4> HIDE DEF R
      <4> QED BY <4>1, <4>2
    <3>3. R # {}
      <4> SUFFICES ASSUME R = {} PROVE FALSE
        OBVIOUS
      <4>1. Cardinality(R) >= 2 BY <3>1
      <4> HIDE DEF R
      <4>2. Cardinality(R) = 0 BY FS_EmptySet
      <4> QED BY <4>1, <4>2
    <3>4. Min(R) \in R
      <4> HIDE DEF R
      <4> QED BY <3>2, <3>3, MinNaturals
    <3>5. h.order = 2 + Min(R) /\ h.cites = R
      BY <2>2, <3>1 DEF Hypothesis
    <3>6. Min(R) \in Nat \ {0} BY <3>2, <3>4
    <3>7. h.order - 2 = Min(R) /\ h.order \in Nat /\ h.order > 2 BY <3>5, <3>6
    <3>8. p[h.order - 2].type = t BY <3>2, <3>4, <3>7
    <3>9. h = Hypothesis(t, h.order, R) BY <2>2, <3>1, <3>5
    <3> HIDE DEF R
    <3>10. h.order - 2 \in Ids(p) BY <3>2, <3>4, <3>7
    <3>11. h.cites \subseteq Ids(p) BY <3>2, <3>5
    <3> QED BY <3>7, <3>8, <3>9, <3>10, <3>11 DEF R
  <2>5. ASSUME NEW g \in Generated(p), NEW h \in Generated(p), g.order = h.order PROVE g = h
    <3>1. CASE g \in FromTemplates(p) /\ h \in FromTemplates(p) BY <2>3, <2>5, <3>1
    <3>2. CASE g \in FromTypes(p) /\ h \in FromTypes(p) BY <2>4, <2>5, <3>2
    <3>3. ASSUME NEW a \in FromTemplates(p), NEW b \in FromTypes(p) PROVE a.order # b.order
      <4>1. a.order \in 1 .. 2 BY <2>3
      <4>2. b.order \in Nat /\ b.order > 2 BY <2>4
      <4> QED BY <4>1, <4>2
    <3> QED BY <2>1, <2>5, <3>1, <3>2, <3>3
  <2>6. ASSUME NEW h \in Generated(p) PROVE h.cites \subseteq Ids(p) /\ h.order \in Nat
    <3>1. CASE h \in FromTemplates(p) BY <2>3, <3>1
    <3>2. CASE h \in FromTypes(p) BY <2>4, <3>2
    <3> QED BY <2>1, <3>1, <3>2
  <2> QED BY <1>3, <2>1, <2>5, <2>6 DEF Rankable
<1> QED BY <1>1, <1>2, <1>3

LEMMA ConfidenceTyped ==
    ASSUME NEW p, IsFiniteSet(Ids(p)), NEW h, h.cites \subseteq Ids(p)
    PROVE  Confidence(p, h) \in 0 .. 90
<1>1. Supporting(p, h) \subseteq Ids(p) /\ Contradicting(p, h) \subseteq Ids(p)
  BY DEF Supporting, Contradicting
<1>2. Cardinality(Supporting(p, h)) \in Nat /\ Cardinality(Contradicting(p, h)) \in Nat
  BY <1>1, FS_Subset, FS_CardinalityType
<1> DEFINE s == Cardinality(Supporting(p, h))
           c == Cardinality(Contradicting(p, h))
<1>3. s \in Nat /\ c \in Nat BY <1>2
<1>4. Confidence(p, h) = CalculateConfidence(s, c) BY DEF Confidence
<1> HIDE DEF s, c
<1> QED BY <1>3, <1>4 DEF CalculateConfidence, AtMost, AtLeast

\* Some hypothesis is on top: of those with most confidence, of those that cite
\* most, the one that ranks first.
LEMMA TopExists ==
    ASSUME NEW p, IsFiniteSet(Ids(p)), NEW hs, Rankable(hs, p)
    PROVE  Top(p, hs) \in hs
<1> DEFINE C(h) == Confidence(p, h)
           N(h) == Cardinality(h.cites)
           Cs == {C(h) : h \in hs}
<1>1. \A h \in hs : C(h) \in 0 .. 90 BY ConfidenceTyped DEF Rankable
<1>2. Cardinality(Ids(p)) \in Nat BY FS_CardinalityType
<1>3. \A h \in hs : N(h) \in 0 .. Cardinality(Ids(p))
  <2> SUFFICES ASSUME NEW h \in hs PROVE N(h) \in 0 .. Cardinality(Ids(p))
    OBVIOUS
  <2>1. h.cites \subseteq Ids(p) BY DEF Rankable
  <2>2. IsFiniteSet(h.cites) /\ Cardinality(h.cites) <= Cardinality(Ids(p)) BY <2>1, FS_Subset
  <2>3. Cardinality(h.cites) \in Nat BY <2>2, FS_CardinalityType
  <2> QED BY <1>2, <2>2, <2>3
<1>4. \A h \in hs : h.order \in Nat BY DEF Rankable
<1> HIDE DEF C, N
<1>5. PICK a \in hs : \A h \in hs : C(h) <= C(a)
  <2>1. Cs \in SUBSET (0 .. 90) /\ Cs # {} BY <1>1 DEF Rankable
  <2> HIDE DEF Cs
  <2>2. PICK m \in Cs : \A x \in Cs : x <= m BY <2>1, GreatestExists
  <2> USE DEF Cs
  <2>3. PICK a \in hs : m = C(a) BY <2>2
  <2> QED BY <2>2, <2>3
<1> DEFINE Sure == {h \in hs : C(h) = C(a)}
           Ns == {N(h) : h \in Sure}
<1>6. PICK b \in Sure : \A h \in Sure : N(h) <= N(b)
  <2>1. Ns \in SUBSET (0 .. Cardinality(Ids(p))) /\ Ns # {} BY <1>3
  <2> HIDE DEF Ns
  <2>2. PICK m \in Ns : \A x \in Ns : x <= m BY <1>2, <2>1, GreatestExists
  <2> USE DEF Ns
  <2>3. PICK b \in Sure : m = N(b) BY <2>2
  <2> QED BY <2>2, <2>3
<1> DEFINE Full == {h \in Sure : N(h) = N(b)}
           Os == {h.order : h \in Full}
<1>7. PICK c \in Full : \A h \in Full : c.order <= h.order
  <2>1. Os \in SUBSET Nat /\ Os # {} BY <1>4
  <2> HIDE DEF Os
  <2>2. PICK m \in Os : \A x \in Os : m <= x BY <2>1, LeastExists
  <2> USE DEF Os
  <2>3. PICK c \in Full : m = c.order BY <2>2
  <2> QED BY <2>2, <2>3
<1>8. ASSUME NEW g \in hs \ {c} PROVE Before(p, c, g)
  <2>1. c \in hs /\ C(c) = C(a) /\ N(c) = N(b) OBVIOUS
  <2>2. CASE C(g) # C(c)
    <3>1. C(g) <= C(c) BY <1>5, <2>1
    <3>2. C(c) > C(g) BY <1>1, <2>1, <2>2, <3>1
    <3> QED BY <3>2 DEF Before, C
  <2>3. CASE C(g) = C(c) /\ N(g) # N(c)
    <3>1. N(g) <= N(c) BY <1>6, <2>1, <2>3
    <3>2. N(c) > N(g) BY <1>3, <1>2, <2>1, <2>3, <3>1
    <3> QED BY <2>3, <3>2 DEF Before, C, N
  <2>4. CASE C(g) = C(c) /\ N(g) = N(c)
    <3>1. c.order <= g.order BY <1>7, <2>1, <2>4
    <3>2. c.order # g.order BY <2>1 DEF Rankable
    <3>3. c.order < g.order BY <1>4, <2>1, <3>1, <3>2
    <3> QED BY <2>4, <3>3 DEF Before, C, N
  <2> QED BY <2>2, <2>3, <2>4
<1>9. c \in hs OBVIOUS
<1> HIDE DEF Full, Sure
<1> QED BY <1>8, <1>9 DEF Top

\* What the first round, and the later ones, look at is of the pack.
LEMMA FocusOK ==
    ASSUME pack \in Seq(Words), NEW n
    PROVE  /\ Ids(FocusPack(pack, n)) \subseteq Ids(pack)
           /\ Ids(pack) \subseteq Nat \ {0} /\ IsFiniteSet(Ids(pack))
           /\ IsFiniteSet(Ids(FocusPack(pack, n)))
<1>1. Ids(pack) = 1 .. Len(pack) /\ Len(pack) \in Nat BY DEF Ids
<1>2. IsFiniteSet(Ids(pack)) BY <1>1, FS_Interval
<1>3. Ids(FocusPack(pack, n)) \subseteq Ids(pack)
  <2>1. CASE n = 1 BY <2>1 DEF FocusPack
  <2>2. CASE n # 1
    <3>1. FocusPack(pack, n) = [i \in Kept(pack, n) |-> pack[i]] BY <2>2 DEF FocusPack
    <3>2. Kept(pack, n) \subseteq Ids(pack) BY DEF Kept
    <3>3. DOMAIN FocusPack(pack, n) = Kept(pack, n) BY <3>1
    <3> QED BY <3>2, <3>3 DEF Ids
  <2> QED BY <2>1, <2>2
<1>4. IsFiniteSet(Ids(FocusPack(pack, n))) BY <1>2, <1>3, FS_Subset
<1> QED BY <1>1, <1>2, <1>3, <1>4

\* The confidence of the rules: a share of at least three quarters, and never certain.
LEMMA ConclusionTyped ==
    ASSUME pack \in Seq(Words), pack # <<>>, NEW top, top.cites \subseteq Ids(pack)
    PROVE  LET share == (25 * AggregateWeight(pack, top.cites)) \div AggregateWeight(pack, Ids(pack))
           IN  AtMost((Confidence(pack, top) * (75 + share)) \div 100, 95) \in 0 .. 95
<1> DEFINE Units(ids) == {unit \in (ids \cap Ids(pack)) \X (1 .. MostWeight) :
                             unit[2] <= Weight(pack, unit[1])}
           cited == AggregateWeight(pack, top.cites)
           whole == AggregateWeight(pack, Ids(pack))
           conf == Confidence(pack, top)
<1>1. Ids(pack) = 1 .. Len(pack) /\ Len(pack) \in Nat /\ IsFiniteSet(Ids(pack)) BY FocusOK DEF Ids
<1>2. IsFiniteSet(1 .. MostWeight)
  <2>1. PICK most \in Int : most = MostWeight BY DEF MostWeight
  <2>2. IsFiniteSet(1 .. most) BY FS_Interval
  <2> QED BY <2>1, <2>2
<1>3. IsFiniteSet(Ids(pack) \X (1 .. MostWeight)) BY <1>1, <1>2, FS_Product
<1>4. ASSUME NEW ids PROVE IsFiniteSet(Units(ids)) /\ Cardinality(Units(ids)) \in Nat
  <2>1. Units(ids) \subseteq Ids(pack) \X (1 .. MostWeight) OBVIOUS
  <2> HIDE DEF Units
  <2> QED BY <1>3, <2>1, FS_Subset, FS_CardinalityType
<1>5. cited = Cardinality(Units(top.cites)) /\ whole = Cardinality(Units(Ids(pack)))
  BY DEF AggregateWeight
<1>6. Units(Ids(pack)) # {}
  <2>1. 1 \in Ids(pack)
    <3>1. Len(pack) # 0 BY EmptySeq
    <3> QED BY <1>1, <3>1
  <2>2. pack[1].type \in EvidenceType
    <3>1. pack[1] \in Words BY <1>1, <2>1 DEF Ids
    <3> QED BY <3>1 DEF Words
  <2>3. TypeWeight[pack[1].type] \in {100, 90, 70}
    BY <2>2 DEF TypeWeight, EvidenceType
  <2>4. Recency(pack, 1) \in Nat
    <3>1. Cardinality(Ids(pack)) \in Nat BY <1>1, FS_CardinalityType
    <3>2. CASE Cardinality(Ids(pack)) < 2 BY <3>2 DEF Recency
    <3>3. CASE ~(Cardinality(Ids(pack)) < 2)
      <4> DEFINE d == Cardinality(Ids(pack)) - 1
      <4>1. d \in Nat \ {0} BY <3>1, <3>3
      <4>2. Recency(pack, 1) = 50 + (50 * (1 - 1)) \div d BY <3>3 DEF Recency
      <4> HIDE DEF d
      <4>3. (50 * (1 - 1)) \div d \in Nat BY <4>1
      <4> QED BY <4>2, <4>3
    <3> QED BY <3>2, <3>3
  <2>5. 1 <= Weight(pack, 1) BY <2>3, <2>4 DEF Weight
  <2>6. <<1, 1>> \in Units(Ids(pack)) BY <2>1, <2>5 DEF MostWeight
  <2> QED BY <2>6
<1> HIDE DEF Units
<1>7. cited \in Nat /\ whole \in Nat /\ whole # 0
  <2>1. Cardinality(Units(Ids(pack))) # 0 BY <1>4, <1>6, FS_EmptySet
  <2> QED BY <1>4, <1>5, <2>1
<1>8. conf \in 0 .. 90 BY <1>1, ConfidenceTyped
<1> HIDE DEF cited, whole, conf
<1> DEFINE share == (25 * cited) \div whole
<1>9. share \in Nat BY <1>7
<1> HIDE DEF share
<1>10. conf * (75 + share) \in Nat BY <1>8, <1>9
<1> DEFINE scaled == conf * (75 + share)
<1>11. scaled \in Nat BY <1>10
<1> HIDE DEF scaled
<1>12. scaled \div 100 \in Nat BY <1>11
<1>13. AtMost(scaled \div 100, 95) \in 0 .. 95
  <2>1. PICK hundredths \in Nat : hundredths = scaled \div 100 BY <1>12
  <2>2. AtMost(hundredths, 95) \in 0 .. 95 BY DEF AtMost
  <2> QED BY <2>1, <2>2
<1> QED BY <1>13 DEF scaled, share, cited, whole, conf

LEMMA DiagnosisInitOK == DiagnosisInit => DiagnosisInv
<1> SUFFICES ASSUME DiagnosisInit PROVE DiagnosisInv
  OBVIOUS
<1>1. <<>> \in Seq(Words) /\ Len(<<>>) = 0 BY EmptySeq
<1>2. MaxCollected \in Nat /\ MaxRounds \in Nat /\ MaxRequests \in Nat
  BY DiagnosisAssumption DEF DiagnosisAssumption
<1>3. pack \in Seq(Words) /\ Len(pack) = 0 BY <1>1 DEF DiagnosisInit
<1>4. /\ stage = "collect" /\ collected = 0 /\ expander \in BOOLEAN /\ converged \in BOOLEAN
      /\ round = 0 /\ attempt = 0
  BY DEF DiagnosisInit
<1>5. conclusion.confidence = 0 /\ report.confidence = 0 /\ report.cause = "none" /\ report.text = "none"
  BY DEF DiagnosisInit, NoConclusion, NoReport
<1>6. 0 \in 0 .. MaxCollected /\ 0 \in 0 .. MaxRounds /\ 0 \in 0 .. MaxRequests BY <1>2
<1> QED BY <1>3, <1>4, <1>5, <1>6 DEF DiagnosisInv

LEMMA CollectKept == ASSUME DiagnosisInv, Collect PROVE DiagnosisInv'
<1>1. PICK item \in ItemKind : pack' = Added(pack, item) BY DEF Collect
<1>2. item \in Words BY DiagnosisAssumption DEF DiagnosisAssumption
<1>3. pack \in Seq(Words) /\ Len(pack) \in Nat BY DEF DiagnosisInv
<1>4. pack' \in Seq(Words) /\ Len(pack') = Len(pack) + 1 BY <1>1, <1>2, <1>3, AddedOK
<1>5. collected < MaxCollected /\ collected' = collected + 1 /\ collected = Len(pack)
      /\ stage = "collect"
  BY DEF Collect, DiagnosisInv
<1>6. collected' \in 0 .. MaxCollected /\ collected' = Len(pack')
  BY <1>3, <1>4, <1>5, DiagnosisAssumption DEF DiagnosisAssumption, DiagnosisInv
<1> QED BY <1>3, <1>4, <1>5, <1>6 DEF Collect, DiagnosisInv

LEMMA BeginKept == ASSUME DiagnosisInv, Begin PROVE DiagnosisInv'
<1>1. round = 0 /\ MaxRounds \in Nat \ {0} /\ stage = "collect"
  BY DiagnosisAssumption DEF Begin, DiagnosisInv, DiagnosisAssumption
<1>2. CASE pack # <<>> /\ stage' = "round" /\ UNCHANGED <<conclusion, hypotheses>>
  BY <1>1, <1>2 DEF Begin, DiagnosisInv
<1>3. CASE /\ pack = <<>> /\ stage' = "model"
           /\ conclusion' = [top |-> NoEvidence, confidence |-> 0]
  <2>1. conclusion'.top.cites = {} /\ conclusion'.confidence = 0
    BY <1>3 DEF NoEvidence, Hypothesis
  <2>2. UNCHANGED <<pack, collected, expander, round, converged, attempt, report>> BY DEF Begin
  <2> QED BY <1>3, <2>1, <2>2 DEF DiagnosisInv
<1> QED BY <1>2, <1>3 DEF Begin

\* A round leaves hypotheses about the pack it concludes from, or a pack with more in it.
LEMMA AnalyzeKept == ASSUME DiagnosisInv, Analyze PROVE DiagnosisInv'
<1> DEFINE n == round + 1
           hs == Generated(FocusPack(pack, n))
<1>0. pack \in Seq(Words) /\ pack # <<>> /\ round < MaxRounds /\ round \in 0 .. MaxRounds
      /\ collected \in 0 .. MaxCollected /\ collected <= Len(pack) /\ stage = "round"
  BY DEF Analyze, DiagnosisInv
<1>1. n \in 0 .. MaxRounds /\ MaxRounds \in Nat
  BY <1>0, DiagnosisAssumption DEF DiagnosisAssumption
<1>2. round' = n /\ hypotheses' = hs /\ converged' = Converged(pack, hs, n)
      /\ UNCHANGED <<collected, conclusion, attempt, report>>
  BY DEF Analyze
<1>3. converged' \in BOOLEAN BY <1>2 DEF Converged
<1>4. CASE /\ Converged(pack, hs, n)
           /\ stage' = "conclude" /\ UNCHANGED <<pack, expander>>
  <2>1. Rankable(hs, FocusPack(pack, n)) BY <1>0, FocusOK, GeneratedOK
  <2>2. Ids(FocusPack(pack, n)) \subseteq Ids(pack) BY <1>0, FocusOK
  <2> HIDE DEF hs
  <2>3. Rankable(hs, pack) BY <2>1, <2>2 DEF Rankable
  <2>4. Rankable(hypotheses', pack') BY <1>2, <1>4, <2>3
  <2> QED BY <1>0, <1>1, <1>2, <1>3, <1>4, <2>4 DEF DiagnosisInv
<1>5. CASE /\ ~Converged(pack, hs, n)
           /\ \E p \in Synthesized(pack) : Expanded(p, hs)
           /\ UNCHANGED stage
  <2>1. n < MaxRounds BY <1>1, <1>5 DEF Converged
  <2>2. PICK p \in Synthesized(pack) : Expanded(p, hs) BY <1>5
  <2>3. PICK item \in Derived : p = Added(pack, item) BY <2>2 DEF Synthesized
  <2>4. p \in Seq(Words) /\ Len(p) = Len(pack) + 1 /\ p # <<>>
    BY <1>0, <2>3, AddedOK, DerivedWords
  <2>5. Added(p, Logs) \in Seq(Words) /\ Len(Added(p, Logs)) = Len(p) + 1 /\ Added(p, Logs) # <<>>
    BY <2>4, AddedOK, DerivedWords
  <2>6. pack' \in {p, Added(p, Logs)} /\ expander' \in BOOLEAN
    BY <2>2 DEF Expanded, DiagnosisInv
  <2>7. Len(pack) \in Nat BY <1>0
  <2>8. pack' \in Seq(Words) /\ pack' # <<>> /\ collected <= Len(pack')
    BY <1>0, <2>4, <2>5, <2>6, <2>7
  <2> QED BY <1>0, <1>1, <1>2, <1>3, <1>5, <2>1, <2>6, <2>8 DEF DiagnosisInv
<1> QED BY <1>4, <1>5 DEF Analyze

LEMMA ConcludeKept == ASSUME DiagnosisInv, Conclude PROVE DiagnosisInv'
<1> DEFINE top == Top(pack, hypotheses)
           share == (25 * AggregateWeight(pack, top.cites)) \div AggregateWeight(pack, Ids(pack))
           scaled == AtMost((Confidence(pack, top) * (75 + share)) \div 100, 95)
<1>1. pack \in Seq(Words) /\ pack # <<>> /\ Rankable(hypotheses, pack) /\ stage = "conclude"
  BY DEF Conclude, DiagnosisInv
<1>2. IsFiniteSet(Ids(pack)) BY <1>1, FocusOK
<1>3. top \in hypotheses BY <1>1, <1>2, TopExists
<1>4. top.cites \subseteq Ids(pack) BY <1>1, <1>3 DEF Rankable
<1>5. scaled \in 0 .. 95
  <2> HIDE DEF top
  <2> QED BY <1>1, <1>4, ConclusionTyped
<1>6. conclusion' = [top |-> top, confidence |-> scaled] /\ stage' = "model"
      /\ UNCHANGED <<pack, collected, expander, round, hypotheses, converged, attempt, report>>
  BY DEF Conclude
<1> HIDE DEF top, scaled, share
<1>7. conclusion'.top = top /\ conclusion'.confidence = scaled BY <1>6
<1> QED BY <1>4, <1>5, <1>6, <1>7 DEF DiagnosisInv

\* A report, of the rules or of the model, keeps its confidence within bounds.
ReportTyped(r) ==
    r.confidence \in 0 .. 100 /\ r.cause \in {"rules", "model"} /\ r.text \in {"rules", "model"}

LEMMA ReportsTyped == ASSUME DiagnosisInv, ApplyAnswer \/ Reported(Drafted) PROVE ReportTyped(report')
<1>1. conclusion.confidence \in 0 .. 100 BY DEF DiagnosisInv
<1>2. Drafted.confidence \in 0 .. 100 /\ Drafted.cause = "rules" /\ Drafted.text = "rules"
  BY <1>1 DEF Drafted
<1>3. CASE Reported(Drafted) BY <1>2, <1>3 DEF Reported, ReportTyped
<1>4. CASE \E value \in {-50, 60, 150} :
              Reported([cause |-> "model", text |-> "model", confidence |-> CoerceConfidence(value)])
  <2>1. PICK value \in {-50, 60, 150} :
           report' = [cause |-> "model", text |-> "model", confidence |-> CoerceConfidence(value)]
    BY <1>4 DEF Reported
  <2>2. CoerceConfidence(value) \in 0 .. 100 BY DEF CoerceConfidence, AtMost, AtLeast
  <2> QED BY <2>1, <2>2 DEF ReportTyped
<1>5. CASE Reported([cause |-> "model", text |-> "rules",
                     confidence |-> CoerceConfidence(conclusion.confidence)])
  <2>1. CoerceConfidence(conclusion.confidence) \in 0 .. 100
    BY <1>1 DEF CoerceConfidence, AtMost, AtLeast
  <2> QED BY <1>5, <2>1 DEF Reported, ReportTyped
<1>6. CASE Reported([Drafted EXCEPT !.text = "model"])
  <2>1. report' = [Drafted EXCEPT !.text = "model"] BY <1>6 DEF Reported
  <2>2. report'.confidence = Drafted.confidence /\ report'.cause = Drafted.cause /\ report'.text = "model"
    BY <2>1 DEF Drafted
  <2> QED BY <1>2, <2>2 DEF ReportTyped
<1> QED BY <1>3, <1>4, <1>5, <1>6 DEF ApplyAnswer

LEMMA DiagnosisStep == DiagnosisInv /\ [DiagnosisNext]_diagnosisVars => DiagnosisInv'
<1> SUFFICES ASSUME DiagnosisInv, [DiagnosisNext]_diagnosisVars PROVE DiagnosisInv'
  OBVIOUS
<1>1. CASE Collect BY <1>1, CollectKept
<1>2. CASE Begin BY <1>2, BeginKept
<1>3. CASE Analyze BY <1>3, AnalyzeKept
<1>4. CASE Conclude BY <1>4, ConcludeKept
<1>5. CASE SkipModel \/ ModelAnswers \/ ModelTimesOut \/ ModelFails
  <2>1. ReportUnchanged /\ stage = "model"
    BY <1>5 DEF SkipModel, ModelAnswers, ModelTimesOut, ModelFails
  <2>2. UNCHANGED <<stage, report>> \/ Reported(Drafted) \/ ApplyAnswer
    BY <1>5 DEF SkipModel, ModelAnswers, ModelTimesOut, ModelFails
  <2>3. attempt' \in 0 .. MaxRequests
    <3>1. attempt \in 0 .. MaxRequests /\ MaxRequests \in Nat
      BY DiagnosisAssumption DEF DiagnosisInv, DiagnosisAssumption
    <3>2. attempt' = attempt \/ (attempt < MaxRequests /\ attempt' = attempt + 1)
      BY <1>5 DEF SkipModel, ModelAnswers, ModelTimesOut, ModelFails
    <3> QED BY <3>1, <3>2
  <2>4. CASE UNCHANGED <<stage, report>>
    BY <2>1, <2>3, <2>4 DEF ReportUnchanged, DiagnosisInv
  <2>5. CASE Reported(Drafted) \/ ApplyAnswer
    <3>1. stage' = "reported" BY <2>5 DEF Reported, ApplyAnswer
    <3>2. ReportTyped(report') BY <2>5, ReportsTyped
    <3> QED BY <2>1, <2>3, <3>1, <3>2 DEF ReportUnchanged, DiagnosisInv, ReportTyped
  <2> QED BY <2>2, <2>4, <2>5
<1>6. CASE UNCHANGED diagnosisVars BY <1>6 DEF diagnosisVars, DiagnosisInv
<1> QED BY <1>1, <1>2, <1>3, <1>4, <1>5, <1>6 DEF DiagnosisNext

LEMMA DiagnosisInvariance == DiagnosisSpec => []DiagnosisInv
BY DiagnosisInitOK, DiagnosisStep, PTL DEF DiagnosisSpec

LEMMA DiagnosisTypes == DiagnosisInv => DiagnosisTypeOK
<1> SUFFICES ASSUME DiagnosisInv PROVE DiagnosisTypeOK
  OBVIOUS
<1>1. \A i \in Ids(pack) : pack[i] \in Words BY DEF DiagnosisInv, Ids
<1> QED BY <1>1 DEF DiagnosisInv, DiagnosisTypeOK

\* Whatever is narrowed, derived or fetched between the rounds, for any bound on
\* rounds and items: what was collected is there at the end, and the conclusion
\* cites only what is there (root_cause_engine.py:97).
THEOREM ConclusionStandsOnEvidence == DiagnosisSpec => []ConclusionGrounded
<1>1. DiagnosisInv => ConclusionGrounded
  <2> SUFFICES ASSUME DiagnosisInv, stage \in {"model", "reported"}
               PROVE  1 .. collected \subseteq Ids(pack) /\ conclusion.top.cites \subseteq Ids(pack)
    BY DEF ConclusionGrounded
  <2>1. Ids(pack) = 1 .. Len(pack) /\ Len(pack) \in Nat /\ collected \in Nat /\ collected <= Len(pack)
    BY DEF DiagnosisInv, Ids
  <2> QED BY <2>1 DEF DiagnosisInv
<1> QED BY <1>1, DiagnosisInvariance, PTL

-----------------------------------------------------------------------------
(* The callers of a method.                                                *)

AnyName == RepoName \cup {NoRepo}
Symbol == {"qualified", "method", "class"}
SearchResult ==
    {[hits |-> hits, callers |-> StaticCallers(hits)] : hits \in Hits \cup {<<>>}} \cup {<<>>}
Asking == [pc : {"idle", "name", "call", "again", "search", "done"},
           tool : {"callers", "impact", "context"}, asked : AnyName, symbol : Symbol,
           op : {"impact", "context"}, start : AnyName, repo : AnyName, candidate : 1 .. 3,
           within : BOOLEAN, held : Answer, answer : Answer, steady : BOOLEAN,
           result : SearchResult, source : {"none", "gitnexus", "zoekt"}]
Proper(l) == l \in Asking /\ l.candidate <= Len(SymbolCandidates(l.symbol))

\* A question about a symbol: nothing it holds says that the repository is unknown,
\* and it is asked again only under a name the graph has.
Followed(l) ==
    /\ l.op = "context" /\ l.pc # "search"
    /\ l.pc = "again" => l.repo \in registered
    /\ ~l.within => l.repo = NoRepo /\ ~l.held.missing
    /\ l.pc = "done" => ~l.answer.missing

LookupInv ==
    /\ registered \subseteq Grouped /\ names \subseteq Grouped /\ graph \in BOOLEAN
    /\ changes \in 0 .. MaxChanges /\ lookups \in 0 .. MaxLookups
    /\ Proper(lookup)
    /\ lookup.tool = "context" /\ lookup.steady
          /\ CanonicalRepo(lookup.asked, registered) \in registered
       => Followed(lookup)

LEMMA CandidatesCounted ==
    /\ Len(SymbolCandidates("qualified")) = 3
    /\ Len(SymbolCandidates("method")) = 1
    /\ Len(SymbolCandidates("class")) = 1
    /\ \A s \in Symbol : Len(SymbolCandidates(s)) \in 1 .. 3
                         /\ DOMAIN SymbolCandidates(s) = 1 .. Len(SymbolCandidates(s))
<1>1. Len(Candidates) = 3 /\ DOMAIN Candidates = 1 .. 3 BY DEF Candidates
<1>2. \A s : Len(<<s>>) = 1 /\ DOMAIN <<s>> = 1 .. 1 OBVIOUS
<1>3. SymbolCandidates("qualified") = Candidates
      /\ \A s \in Symbol : s # "qualified" => SymbolCandidates(s) = <<s>>
  BY DEF SymbolCandidates
<1>4. "qualified" \in Symbol /\ "method" \in Symbol /\ "class" \in Symbol BY DEF Symbol
<1>5. ASSUME NEW s \in Symbol
      PROVE  Len(SymbolCandidates(s)) \in 1 .. 3
             /\ DOMAIN SymbolCandidates(s) = 1 .. Len(SymbolCandidates(s))
  <2>1. CASE s = "qualified" BY <2>1, <1>1, <1>3
  <2>2. CASE s # "qualified" BY <2>2, <1>2, <1>3
  <2> QED BY <2>1, <2>2
<1> QED BY <1>1, <1>2, <1>3, <1>4, <1>5

\* The name that stands for one is among the names of the list, or the name itself.
LEMMA CanonicalTyped ==
    ASSUME NEW r \in AnyName, NEW list \in SUBSET Grouped
    PROVE  CanonicalRepo(r, list) \in AnyName
<1>1. list \subseteq RepoName BY DEF Grouped
<1>2. CASE \E n \in list : n.tail = r.tail
  <2>1. (CHOOSE n \in list : n.tail = r.tail) \in list BY <1>2
  <2> QED BY <2>1, <1>1 DEF CanonicalRepo, MatchRepo, AnyName
<1>3. CASE ~\E n \in list : n.tail = r.tail
  BY <1>3, <1>1 DEF CanonicalRepo, MatchRepo, AnyName
<1> QED BY <1>2, <1>3

LEMMA AnswersTyped ==
    ASSUME NEW repo
    PROVE  /\ Answers(repo) \subseteq Answer
           /\ repo = NoRepo \/ repo \in registered => \A a \in Answers(repo) : ~a.missing
<1>1. NoAnswer \in Answer /\ ~NoAnswer.missing BY DEF NoAnswer, Answer
<1>2. Missing \in Answer BY DEF NoAnswer, Missing, Answer
<1>3. \A a \in RunCli \cup RunHttp : a \in Answer /\ ~a.missing
  BY <1>1 DEF RunCli, RunHttp, Parsed
<1>4. \A a \in RunCli \cup RunHttp : \A b \in ResolveAmbiguous(a) : b \in RunCli \cup RunHttp
  BY DEF ResolveAmbiguous
<1>5. \A b \in UNION {ResolveAmbiguous(a) : a \in RunCli \cup RunHttp} : b \in Answer /\ ~b.missing
  BY <1>3, <1>4
<1> QED BY <1>2, <1>5 DEF Answers

SameQuestion(l, m) == m.steady = l.steady /\ m.tool = l.tool /\ m.asked = l.asked

\* The first candidate is one of any symbol.
LEMMA FirstCandidate ==
    ASSUME NEW l \in Asking, l.candidate = 1
    PROVE  Proper(l)
<1>1. l.symbol \in Symbol BY DEF Asking
<1> DEFINE n == Len(SymbolCandidates(l.symbol))
<1>2. n \in 1 .. 3 BY <1>1, CandidatesCounted
<1> HIDE DEF n
<1>3. 1 <= n BY <1>2
<1>4. l.candidate <= n BY <1>3
<1> QED BY <1>4 DEF Proper, n

LEMMA SameCandidate ==
    ASSUME NEW l, Proper(l), NEW m \in Asking, m.candidate = l.candidate, m.symbol = l.symbol
    PROVE  Proper(m)
BY DEF Proper

LEMMA NextSymbolProper ==
    ASSUME NEW l, Proper(l)
    PROVE  Proper(NextSymbol(l)) /\ SameQuestion(l, NextSymbol(l))
<1>1. l \in Asking /\ l.symbol \in Symbol BY DEF Proper, Asking
<1>2. PICK one \in 1 .. 3 : one = 1 OBVIOUS
<1>3. ASSUME NEW symbol \in Symbol,
             NextSymbol(l)
               = [l EXCEPT !.pc = "name", !.op = "impact", !.candidate = one, !.symbol = symbol]
      PROVE  Proper(NextSymbol(l)) /\ SameQuestion(l, NextSymbol(l))
  <2>1. NextSymbol(l) \in Asking BY <1>1, <1>3 DEF Asking
  <2>2. NextSymbol(l).candidate = one /\ SameQuestion(l, NextSymbol(l))
    BY <1>1, <1>3 DEF Asking, SameQuestion
  <2> QED BY <1>2, <2>1, <2>2, FirstCandidate
<1>4. CASE l.symbol = "qualified"
  <2>1. NextSymbol(l)
          = [l EXCEPT !.pc = "name", !.op = "impact", !.candidate = one, !.symbol = "method"]
    BY <1>2, <1>4 DEF NextSymbol
  <2> QED BY <1>3, <2>1 DEF Symbol
<1>5. CASE l.symbol = "method"
  <2>1. NextSymbol(l)
          = [l EXCEPT !.pc = "name", !.op = "impact", !.candidate = one, !.symbol = "class"]
    BY <1>2, <1>5 DEF NextSymbol
  <2> QED BY <1>3, <2>1 DEF Symbol
<1>6. CASE l.symbol = "class"
  <2>1. NextSymbol(l) = [l EXCEPT !.pc = "search"] BY <1>6 DEF NextSymbol
  <2>2. NextSymbol(l) \in Asking BY <1>1, <2>1 DEF Asking
  <2>3. NextSymbol(l).candidate = l.candidate /\ NextSymbol(l).symbol = l.symbol
        /\ SameQuestion(l, NextSymbol(l))
    BY <1>1, <2>1 DEF Asking, SameQuestion
  <2> QED BY <2>2, <2>3, SameCandidate
<1> QED BY <1>1, <1>4, <1>5, <1>6 DEF Symbol

\* What is done with an answer: a symbol's answer ends the question.
LEMMA AnsweredProper ==
    ASSUME NEW l, Proper(l), NEW a \in Answer
    PROVE  /\ Proper(Answered(l, a)) /\ SameQuestion(l, Answered(l, a))
           /\ l.tool = "context" /\ Followed(l) /\ ~a.missing => Followed(Answered(l, a))
<1> DEFINE m == Answered(l, a)
<1>1. l \in Asking BY DEF Proper
<1>2. CASE l.tool # "callers"
  <2>1. m = [l EXCEPT !.pc = "done", !.answer = a] BY <1>2 DEF Answered
  <2>2. m \in Asking /\ m.pc = "done" /\ m.answer = a
    BY <1>1, <2>1 DEF Asking
  <2>3. m.candidate = l.candidate /\ m.symbol = l.symbol /\ m.op = l.op /\ m.repo = l.repo
        /\ m.within = l.within /\ m.held = l.held /\ SameQuestion(l, m)
    BY <1>1, <2>1 DEF Asking, SameQuestion
  <2> QED BY <2>2, <2>3 DEF Proper, Followed
<1>3. CASE l.tool = "callers" /\ a.ok /\ a.callers
  <2>1. m = [l EXCEPT !.pc = "done", !.answer = a, !.source = "gitnexus"]
    BY <1>3 DEF Answered, CallersForSymbol
  <2>2. m \in Asking BY <1>1, <2>1 DEF Asking
  <2>3. m.candidate = l.candidate /\ m.symbol = l.symbol /\ SameQuestion(l, m)
    BY <1>1, <2>1 DEF Asking, SameQuestion
  <2> QED BY <1>3, <2>2, <2>3 DEF Proper
<1>4. CASE l.tool = "callers" /\ ~(a.ok /\ a.callers) /\ a.ok /\ l.op = "impact"
  <2>1. m = [l EXCEPT !.pc = "name", !.op = "context", !.answer = a]
    BY <1>4 DEF Answered, CallersForSymbol
  <2>2. m \in Asking BY <1>1, <2>1 DEF Asking
  <2>3. m.candidate = l.candidate /\ m.symbol = l.symbol /\ SameQuestion(l, m)
    BY <1>1, <2>1 DEF Asking, SameQuestion
  <2> QED BY <1>4, <2>2, <2>3 DEF Proper
<1>5. CASE l.tool = "callers" /\ ~(a.ok /\ a.callers) /\ ~(a.ok /\ l.op = "impact")
  <2> DEFINE n == [l EXCEPT !.answer = a]
  <2>1. m = NextSymbol(n) BY <1>5 DEF Answered, CallersForSymbol
  <2>2. n \in Asking BY <1>1 DEF Asking
  <2>3. n.candidate = l.candidate /\ n.symbol = l.symbol /\ SameQuestion(l, n)
    BY <1>1 DEF Asking, SameQuestion
  <2>4. Proper(n) BY <2>2, <2>3 DEF Proper
  <2> HIDE DEF n
  <2> QED BY <1>5, <2>1, <2>3, <2>4, NextSymbolProper DEF SameQuestion
<1> QED BY <1>2, <1>3, <1>4, <1>5

\* A candidate that was judged leaves a proper question, and of a symbol in a
\* repository that is known, one that is still followed.
LEMMA JudgedProper ==
    ASSUME NEW l, Proper(l), NEW a \in Answer
    PROVE  /\ Proper(Judged(l, a)) /\ SameQuestion(l, Judged(l, a))
           /\ l.tool = "context" /\ Followed(l) /\ ~a.missing => Followed(Judged(l, a))
<1> DEFINE m == Judged(l, a)
<1>1. l \in Asking BY DEF Proper
<1>2. CASE ~Convinces(a, l.symbol) /\ l.candidate < Len(SymbolCandidates(l.symbol))
  <2>1. m = [l EXCEPT !.pc = "call", !.candidate = l.candidate + 1] BY <1>2 DEF Judged
  <2>2. l.candidate \in 1 .. 3 /\ Len(SymbolCandidates(l.symbol)) \in 1 .. 3
    BY <1>1, CandidatesCounted DEF Asking
  <2>3. PICK next \in 1 .. 3 : next = l.candidate + 1 /\ next <= Len(SymbolCandidates(l.symbol))
    <3> DEFINE c == l.candidate
               n == Len(SymbolCandidates(l.symbol))
    <3>1. c \in 1 .. 3 /\ n \in 1 .. 3 BY <2>2
    <3>2. c < n BY <1>2
    <3> HIDE DEF c, n
    <3>3. c + 1 \in 1 .. 3 /\ c + 1 <= n BY <3>1, <3>2
    <3> QED BY <3>3 DEF c, n
  <2>4. m = [l EXCEPT !.pc = "call", !.candidate = next] BY <2>1, <2>3
  <2>5. m \in Asking BY <1>1, <2>4 DEF Asking
  <2>6. m.candidate = next /\ m.symbol = l.symbol /\ m.op = l.op /\ m.repo = l.repo
        /\ m.within = l.within /\ m.held = l.held /\ m.pc = "call" /\ SameQuestion(l, m)
    BY <1>1, <2>4 DEF Asking, SameQuestion
  <2> QED BY <2>3, <2>5, <2>6 DEF Proper, Followed
<1>3. CASE ~(~Convinces(a, l.symbol) /\ l.candidate < Len(SymbolCandidates(l.symbol)))
  <2>1. m = EndOfPass(l, a) BY <1>3 DEF Judged
  <2>2. CASE ~Convinces(a, l.symbol) /\ l.within /\ l.start # NoRepo
    <3>0. PICK one \in 1 .. 3 : one = 1 OBVIOUS
    <3>1. m = [l EXCEPT !.pc = "call", !.within = FALSE, !.held = a, !.repo = NoRepo, !.candidate = one]
      BY <2>1, <2>2, <3>0 DEF EndOfPass
    <3>2. m \in Asking BY <1>1, <3>1 DEF Asking, AnyName
    <3>3. m.candidate = one /\ m.symbol = l.symbol /\ m.op = l.op /\ m.repo = NoRepo
          /\ m.within = FALSE /\ m.held = a /\ m.pc = "call" /\ SameQuestion(l, m)
      BY <1>1, <3>1 DEF Asking, SameQuestion
    <3>4. Proper(m) BY <3>0, <3>2, <3>3, FirstCandidate
    <3> QED BY <3>3, <3>4 DEF Followed
  <2>3. CASE Convinces(a, l.symbol) \/ (l.within /\ l.start = NoRepo)
    <3>1. m = Answered(l, a) BY <2>1, <2>3 DEF EndOfPass
    <3> QED BY <3>1, AnsweredProper
  <2>4. CASE ~Convinces(a, l.symbol) /\ ~l.within
    <3>1. m = Answered(l, l.held) /\ l.held \in Answer BY <1>1, <2>1, <2>4 DEF EndOfPass, Asking
    <3>2. Followed(l) => ~l.held.missing BY <2>4 DEF Followed
    <3> QED BY <3>1, <3>2, AnsweredProper
  <2> QED BY <2>2, <2>3, <2>4
<1> QED BY <1>2, <1>3

LEMMA LookupInitOK == LookupInit => LookupInv
<1> SUFFICES ASSUME LookupInit PROVE LookupInv
  OBVIOUS
<1>1. NoAnswer \in Answer /\ ~NoAnswer.missing BY DEF NoAnswer, Answer
<1>2. Idle \in Asking
  BY <1>1 DEF Idle, Asking, AnyName, Symbol, SearchResult
<1>3. Proper(Idle) BY <1>2, FirstCandidate DEF Idle
<1>4. lookup.tool # "context" BY DEF LookupInit, Idle
<1> QED BY <1>3, <1>4, LookupAssumption DEF LookupInit, LookupInv, LookupAssumption

LEMMA AskKept ==
    ASSUME LookupInv, NEW tool \in {"callers", "impact", "context"}, NEW asked \in AnyName,
           NEW prefer \in BOOLEAN, Ask(tool, asked, prefer)
    PROVE  LookupInv'
<1>1. NoAnswer \in Answer /\ ~NoAnswer.missing BY DEF NoAnswer, Answer
<1>2. lookup'.tool = tool /\ lookup'.pc \in {"name", "search", "done"}
      /\ (tool = "context" => lookup'.pc \in {"name", "done"} /\ lookup'.op = "context")
      /\ lookup'.within = TRUE /\ lookup'.answer = NoAnswer
      /\ lookup'.candidate = 1 /\ lookup'.symbol = "qualified"
  BY DEF Ask, Idle
<1>3. lookup' \in Asking
  <2>1. Idle \in Asking
    BY <1>1 DEF Idle, Asking, AnyName, Symbol, SearchResult
  <2>2. PICK op \in {"impact", "context"}, pc \in {"name", "search", "done"} :
           lookup' = [Idle EXCEPT !.tool = tool, !.asked = asked, !.op = op, !.pc = pc]
    BY DEF Ask
  <2> QED BY <2>1, <2>2 DEF Asking
<1>4. Proper(lookup)' BY <1>2, <1>3, FirstCandidate
<1>5. lookup'.tool = "context" => Followed(lookup)' BY <1>1, <1>2 DEF Followed
<1>6. lookups' \in 0 .. MaxLookups BY LookupAssumption DEF Ask, LookupInv, LookupAssumption
<1> QED BY <1>4, <1>5, <1>6 DEF Ask, LookupInv

LEMMA NameKept == ASSUME LookupInv, Name PROVE LookupInv'
<1>1. PICK list \in Listed(names, registered, FALSE) :
         LET r == CanonicalRepo(lookup.asked, list)
         IN  /\ names' = IF lookup.asked = NoRepo THEN names ELSE list
             /\ lookup' = [lookup EXCEPT !.pc = "call", !.start = r, !.repo = r, !.candidate = 1,
                                         !.within = TRUE]
  BY DEF Name
<1> DEFINE r == CanonicalRepo(lookup.asked, list)
<1>2. list \subseteq Grouped BY DEF Listed, LookupInv
<1>3. lookup \in Asking BY DEF LookupInv, Proper
<1>4. lookup.asked \in AnyName BY <1>3 DEF Asking
<1>5. r \in AnyName BY <1>2, <1>4, CanonicalTyped
<1> HIDE DEF r
<1>0. PICK one \in 1 .. 3 : one = 1 OBVIOUS
<1>6. lookup' = [lookup EXCEPT !.pc = "call", !.start = r, !.repo = r, !.candidate = one, !.within = TRUE]
  BY <1>0, <1>1 DEF r
<1>7. lookup' \in Asking BY <1>3, <1>5, <1>6 DEF Asking
<1>8. lookup'.candidate = one /\ lookup'.within = TRUE /\ lookup'.pc = "call" /\ lookup'.op = lookup.op
      /\ SameQuestion(lookup, lookup')
  BY <1>3, <1>6 DEF Asking, SameQuestion
<1>9. Proper(lookup)' BY <1>0, <1>7, <1>8, FirstCandidate
<1>10. Followed(lookup) => Followed(lookup)' BY <1>8 DEF Followed
<1>11. names' \subseteq Grouped BY <1>1, <1>2 DEF LookupInv
<1> QED BY <1>8, <1>9, <1>10, <1>11 DEF Name, LookupInv, SameQuestion

LEMMA CallKept == ASSUME LookupInv, Call PROVE LookupInv'
<1>1. PICK a \in Answers(lookup.repo) :
         \/ /\ ~a.missing
            /\ lookup' = Judged(lookup, a) /\ UNCHANGED names
         \/ /\ a.missing
            /\ \E list \in Listed(names, registered, TRUE) :
                  LET r == RenewedName(list)
                      l == [lookup EXCEPT !.steady = @ /\ list # {}]
                  IN  /\ names' = list
                      /\ lookup' = IF r # lookup.repo
                                   THEN [l EXCEPT !.pc = "again", !.repo = r]
                                   ELSE Judged(l, a)
  BY DEF Call
<1>2. a \in Answer BY AnswersTyped
<1>3. UNCHANGED <<registered, graph, changes, lookups>> BY DEF Call
<1>4. Proper(lookup) /\ lookup \in Asking BY DEF LookupInv, Proper
<1>5. CASE ~a.missing
  <2>1. lookup' = Judged(lookup, a) /\ names' = names BY <1>1, <1>5
  <2>2. Proper(lookup)' /\ SameQuestion(lookup, lookup')
        /\ (lookup.tool = "context" /\ Followed(lookup) => Followed(lookup'))
    BY <1>2, <1>4, <1>5, <2>1, JudgedProper
  <2>3. Followed(lookup') => Followed(lookup)' BY <1>3 DEF Followed
  <2> QED BY <1>3, <2>1, <2>2, <2>3 DEF LookupInv, SameQuestion
<1>6. CASE a.missing
  <2>1. PICK list \in Listed(names, registered, TRUE) :
           LET r == RenewedName(list)
               l == [lookup EXCEPT !.steady = @ /\ list # {}]
           IN  /\ names' = list
               /\ lookup' = IF r # lookup.repo
                            THEN [l EXCEPT !.pc = "again", !.repo = r]
                            ELSE Judged(l, a)
    BY <1>1, <1>6
  <2> DEFINE r == RenewedName(list)
             l == [lookup EXCEPT !.steady = @ /\ list # {}]
  <2>2. list \in {registered, {}} /\ list \subseteq Grouped BY DEF Listed, LookupInv
  <2>3. lookup.asked \in AnyName /\ lookup.start \in AnyName BY <1>4 DEF Asking
  <2>4. r \in AnyName BY <2>2, <2>3, CanonicalTyped DEF RenewedName
  <2>5. names' = list BY <2>1
  <2>6. lookup' = IF r # lookup.repo THEN [l EXCEPT !.pc = "again", !.repo = r] ELSE Judged(l, a)
    BY <2>1
  <2>7. l \in Asking /\ l.candidate = lookup.candidate /\ l.symbol = lookup.symbol
        /\ l.tool = lookup.tool /\ l.asked = lookup.asked /\ l.op = lookup.op
        /\ l.within = lookup.within /\ l.held = lookup.held
        /\ l.steady = (lookup.steady /\ list # {})
    BY <1>4 DEF Asking
  <2>8. Proper(l) BY <1>4, <2>7 DEF Proper
  <2>9. r = RenewedName(list) OBVIOUS
  <2> HIDE DEF r, l
  <2>10. CASE r # lookup.repo
    <3>1. lookup' = [l EXCEPT !.pc = "again", !.repo = r] BY <2>6, <2>10
    <3>2. lookup' \in Asking BY <2>4, <2>7, <3>1 DEF Asking
    <3>3. lookup'.candidate = l.candidate /\ lookup'.symbol = l.symbol /\ lookup'.tool = l.tool
          /\ lookup'.asked = l.asked /\ lookup'.op = l.op /\ lookup'.within = l.within
          /\ lookup'.held = l.held /\ lookup'.steady = l.steady /\ lookup'.repo = r
          /\ lookup'.pc = "again"
      BY <2>7, <3>1 DEF Asking
    <3>4. Proper(lookup)' BY <2>8, <3>2, <3>3 DEF Proper
    <3>5. ASSUME lookup'.tool = "context", lookup'.steady,
                 CanonicalRepo(lookup'.asked, registered) \in registered
          PROVE  Followed(lookup)'
      <4>1. Followed(lookup) BY <2>7, <3>3, <3>5 DEF LookupInv
      <4>2. list = registered BY <2>2, <2>7, <3>3, <3>5
      <4>3. r \in registered
        BY <2>7, <2>9, <3>3, <3>5, <4>1, <4>2 DEF RenewedName, Followed
      <4>4. lookup.within
        BY <1>1, <1>6, <4>1, AnswersTyped DEF Followed
      <4> QED BY <1>3, <2>7, <3>3, <4>1, <4>3, <4>4 DEF Followed
    <3> QED BY <1>3, <2>2, <2>5, <3>4, <3>5 DEF LookupInv
  <2>11. CASE r = lookup.repo
    <3>1. lookup' = Judged(l, a) BY <2>6, <2>11
    <3>2. Proper(lookup)' /\ SameQuestion(l, lookup') BY <1>2, <2>8, <3>1, JudgedProper
    <3>3. ~(lookup'.tool = "context" /\ lookup'.steady
              /\ CanonicalRepo(lookup'.asked, registered) \in registered)
      <4> SUFFICES ASSUME lookup'.tool = "context", lookup'.steady,
                          CanonicalRepo(lookup'.asked, registered) \in registered
                   PROVE  FALSE
        OBVIOUS
      <4>1. Followed(lookup) BY <2>7, <3>2 DEF LookupInv, SameQuestion
      <4>2. list = registered BY <2>2, <2>7, <3>2 DEF SameQuestion
      <4>3. r \in registered
        BY <2>7, <2>9, <3>2, <4>1, <4>2 DEF RenewedName, Followed, SameQuestion
      <4> QED BY <1>1, <1>6, <2>11, <4>3, AnswersTyped
    <3> QED BY <1>3, <2>2, <2>5, <3>2, <3>3 DEF LookupInv
  <2> QED BY <2>10, <2>11
<1> QED BY <1>5, <1>6

LEMMA AgainKept == ASSUME LookupInv, Again PROVE LookupInv'
<1>1. PICK a \in Answers(lookup.repo) : lookup' = Judged(lookup, a) BY DEF Again
<1>2. a \in Answer BY AnswersTyped
<1>3. UNCHANGED <<registered, names, graph, changes, lookups>> /\ lookup.pc = "again" BY DEF Again
<1>4. Proper(lookup) BY DEF LookupInv
<1>5. Followed(lookup) => ~a.missing BY <1>3, AnswersTyped DEF Followed
<1>6. Proper(lookup)' /\ SameQuestion(lookup, lookup')
      /\ (lookup.tool = "context" /\ Followed(lookup) => Followed(lookup'))
  BY <1>1, <1>2, <1>4, <1>5, JudgedProper
<1>7. Followed(lookup') => Followed(lookup)' BY <1>3 DEF Followed
<1> QED BY <1>3, <1>6, <1>7 DEF LookupInv, SameQuestion

LEMMA LookupStep == LookupInv /\ [LookupNext]_lookupVars => LookupInv'
<1> SUFFICES ASSUME LookupInv, [LookupNext]_lookupVars PROVE LookupInv'
  OBVIOUS
<1>0. lookup \in Asking BY DEF LookupInv, Proper
<1>1. ASSUME NEW tool \in {"callers", "impact", "context"}, NEW asked \in RepoName \cup {NoRepo},
             NEW prefer \in BOOLEAN, Ask(tool, asked, prefer)
      PROVE  LookupInv'
  BY <1>1, AskKept DEF AnyName
<1>2. CASE Name BY <1>2, NameKept
<1>3. CASE Call BY <1>3, CallKept
<1>4. CASE Again BY <1>4, AgainKept
<1>5. CASE Search
  <2>1. PICK hits \in Hits \cup {<<>>} :
           lookup' = [lookup EXCEPT !.pc = "done", !.source = "zoekt", !.held = NoAnswer,
                         !.result = [hits |-> hits, callers |-> StaticCallers(hits)]]
    BY <1>5 DEF Search
  <2>2. [hits |-> hits, callers |-> StaticCallers(hits)] \in SearchResult BY DEF SearchResult
  <2>3. NoAnswer \in Answer BY DEF NoAnswer, Answer
  <2>4. lookup' \in Asking BY <1>0, <2>1, <2>2, <2>3 DEF Asking
  <2>5. lookup'.candidate = lookup.candidate /\ lookup'.symbol = lookup.symbol
        /\ SameQuestion(lookup, lookup')
    BY <1>0, <2>1 DEF Asking, SameQuestion
  <2>6. Proper(lookup)' BY <2>4, <2>5 DEF Proper, LookupInv
  <2>7. ~Followed(lookup) BY <1>5 DEF Search, Followed
  <2> QED BY <1>5, <2>5, <2>6, <2>7 DEF Search, LookupInv, SameQuestion
<1>6. ASSUME NEW r \in Grouped, RegisterGraph(r) \/ RemoveGraph(r) PROVE LookupInv'
  <2>1. lookup' = [lookup EXCEPT !.steady = FALSE] /\ UNCHANGED <<names, graph, lookups>>
        /\ registered' \subseteq Grouped /\ changes < MaxChanges /\ changes' = changes + 1
    BY <1>6 DEF RegisterGraph, RemoveGraph, LookupInv
  <2>2. lookup' \in Asking /\ lookup'.steady = FALSE /\ lookup'.candidate = lookup.candidate
        /\ lookup'.symbol = lookup.symbol
    BY <1>0, <2>1 DEF Asking
  <2>3. Proper(lookup)' BY <2>2 DEF Proper, LookupInv
  <2>4. changes' \in 0 .. MaxChanges
    BY <2>1, LookupAssumption DEF LookupInv, LookupAssumption
  <2> QED BY <2>1, <2>2, <2>3, <2>4 DEF LookupInv
<1>7. CASE UNCHANGED lookupVars BY <1>7 DEF lookupVars, LookupInv, Proper, Followed
<1> QED BY <1>1, <1>2, <1>3, <1>4, <1>5, <1>6, <1>7 DEF LookupNext

LEMMA LookupInvariance == LookupSpec => []LookupInv
BY LookupInitOK, LookupStep, PTL DEF LookupSpec

LEMMA LookupTypes == LookupInv => LookupTypeOK
<1> SUFFICES ASSUME LookupInv PROVE LookupTypeOK
  OBVIOUS
<1>1. lookup \in Asking BY DEF LookupInv, Proper
<1>2. lookup.symbol \in Symbol /\ lookup.candidate \in 1 .. 3 BY <1>1 DEF Asking
<1>3. lookup.candidate \in DOMAIN SymbolCandidates(lookup.symbol)
  BY <1>2, CandidatesCounted DEF LookupInv, Proper
<1>4. {lookup.asked, lookup.start, lookup.repo} \subseteq RepoName \cup {NoRepo}
  BY <1>1 DEF Asking, AnyName
<1>5. {lookup.held, lookup.answer} \subseteq Answer BY <1>1 DEF Asking
<1> QED BY <1>1, <1>3, <1>4, <1>5 DEF LookupInv, LookupTypeOK, Asking

\* However old the list of names is that the adapter keeps, a question about a
\* symbol in a service the graph has under some name is not turned down because
\* the repository is unknown (gitnexus_adapter.py:124).
THEOREM RenamesAreFollowed == LookupSpec => []ContextFollowsRename
<1>1. LookupInv => ContextFollowsRename
  BY DEF LookupInv, ContextFollowsRename, Followed
<1> QED BY <1>1, LookupInvariance, PTL

-----------------------------------------------------------------------------
(* The reading of code.                                                    *)

ReadRecord == [pc : {"idle", "http", "list", "search", "done"}, path : Path \cup {NoFile},
               repo : Repo \cup {AnyRepo}, list : {NoList}, file : (Repo \X Path) \cup {NoFile},
               held : BOOLEAN, from : {"none", "server", "list", "search"}]

\* The file that the repository asked for holds is looked for in a list that
\* names the repository.
ReadingInv ==
    /\ configured \in BOOLEAN /\ serves \in BOOLEAN
    /\ indexed \subseteq Repo /\ clone \in [Repo -> SUBSET Path]
    /\ kept \in [known : BOOLEAN, repos : SUBSET Repo]
    /\ read \in ReadRecord
    /\ moves \in 0 .. MaxMoves
    /\ read.held /\ read.pc \in {"http", "list"} =>
          /\ read.repo \in indexed /\ read.path \in clone[read.repo]
          /\ kept.known => read.repo \in kept.repos
    /\ read.pc # "done" => read.from = "none"
    /\ OwnFileFirst

LEMMA ReadingInitOK == ReadingInit => ReadingInv
BY ReadingAssumption
   DEF ReadingInit, ReadingInv, ReadRecord, NoList, NoRead, NoFile, OwnFileFirst, ReadingAssumption

LEMMA ListTyped ==
    ASSUME NEW s \in SUBSET Repo
    PROVE  ListOf(s) \in [known : BOOLEAN, repos : SUBSET Repo]
BY DEF ListOf

\* What is found through a list lies in a clone, and is the file asked for when
\* the list names a repository that has it.
LEMMA ListedFiles ==
    ASSUME ReadingInv, NEW list \in FetchIndexList, NEW p, NEW r
    PROVE  /\ list \in [known : BOOLEAN, repos : SUBSET Repo]
           /\ ReadFromList(list, p, r) \subseteq Repo \X Path
           /\ r \in list.repos /\ p \in clone[r] => ReadFromList(list, p, r) = {<<r, p>>}
<1>1. list \in [known : BOOLEAN, repos : SUBSET Repo]
  <2>1. ListOf(indexed) \in [known : BOOLEAN, repos : SUBSET Repo]
        /\ NoList \in [known : BOOLEAN, repos : SUBSET Repo]
    BY ListTyped DEF ReadingInv, ReadRecord, NoList
  <2>2. kept \in [known : BOOLEAN, repos : SUBSET Repo] BY DEF ReadingInv, ReadRecord
  <2> QED BY <2>1, <2>2 DEF FetchIndexList
<1>2. ASSUME NEW s \in list.repos, NEW f \in ReadFromRoot(s, p) PROVE f \in Repo \X Path
  <2>1. s \in Repo /\ clone[s] \subseteq Path BY <1>1 DEF ReadingInv, ReadRecord
  <2>2. PICK q \in clone[s] : f = <<s, q>> BY <1>2 DEF ReadFromRoot
  <2> QED BY <2>1, <2>2
<1>3. ASSUME NEW f \in UNION {ReadFromRoot(s, p) : s \in list.repos} PROVE f \in Repo \X Path
  <2>1. PICK s \in list.repos : f \in ReadFromRoot(s, p) BY <1>3
  <2> QED BY <1>2, <2>1
<1>4. ReadFromList(list, p, r) \subseteq Repo \X Path
  BY <1>2, <1>3 DEF ReadFromList
<1>5. ASSUME r \in list.repos, p \in clone[r] PROVE ReadFromList(list, p, r) = {<<r, p>>}
  BY <1>5 DEF ReadFromRoot, ReadFromList
<1> QED BY <1>1, <1>4, <1>5

LEMMA FoundOK ==
    ASSUME ReadingInv, NEW files \in SUBSET (Repo \X Path), NEW from \in {"list", "search"},
           NEW otherwise \in {"search", "done"}, Found(files, from, otherwise), read.pc # "done"
    PROVE  /\ read' \in ReadRecord
           /\ read'.pc \in {"done", "search"}
           /\ read'.pc # "done" => read'.from = "none"
           /\ read'.from = "list" /\ read'.pc = "done" => files # {} /\ from = "list" /\ read'.file \in files
           /\ read'.repo = read.repo /\ read'.path = read.path /\ read'.held = read.held
<1>1. CASE files # {} /\ \E f \in files : read' = [read EXCEPT !.pc = "done", !.file = f, !.from = from]
  <2>1. PICK f \in files : read' = [read EXCEPT !.pc = "done", !.file = f, !.from = from]
    BY <1>1
  <2>2. read \in ReadRecord /\ f \in Repo \X Path BY DEF ReadingInv, ReadRecord
  <2> QED BY <1>1, <2>1, <2>2 DEF ReadRecord
<1>2. CASE files = {} /\ read' = [read EXCEPT !.pc = otherwise]
  <2>1. read \in ReadRecord /\ read.from = "none" BY DEF ReadingInv, ReadRecord
  <2> QED BY <1>2, <2>1 DEF ReadRecord
<1> QED BY <1>1, <1>2 DEF Found

LEMMA ReadingStep == ReadingInv /\ [ReadingNext]_readingVars => ReadingInv'
<1> SUFFICES ASSUME ReadingInv, [ReadingNext]_readingVars PROVE ReadingInv'
  OBVIOUS
<1>0. read \in ReadRecord /\ kept \in [known : BOOLEAN, repos : SUBSET Repo]
  BY DEF ReadingInv, ReadRecord
<1>1. ASSUME NEW p \in Path, NEW r \in Repo \cup {AnyRepo}, ReadFile(p, r) PROVE ReadingInv'
  <2> DEFINE h == r \in Repo /\ (~kept.known \/ r \in kept.repos) /\ r \in indexed /\ p \in clone[r]
  <2>1. PICK pc \in {"http", "done"} :
           read' = [NoRead EXCEPT !.pc = pc, !.path = p, !.repo = r, !.held = h]
    BY <1>1 DEF ReadFile
  <2>2. h \in BOOLEAN OBVIOUS
  <2>3. h => r \in indexed /\ p \in clone[r] /\ (kept.known => r \in kept.repos) OBVIOUS
  <2> HIDE DEF h
  <2>4. NoRead \in ReadRecord BY DEF NoRead, ReadRecord
  <2>5. read' \in ReadRecord BY <2>1, <2>2, <2>4 DEF ReadRecord
  <2>6. read'.pc = pc /\ read'.path = p /\ read'.repo = r /\ read'.held = h /\ read'.from = "none"
    BY <2>1 DEF NoRead
  <2> QED BY <1>1, <2>3, <2>5, <2>6 DEF ReadFile, ReadingInv, ReadRecord, OwnFileFirst
<1>2. CASE ReadHttp
  <2>0. UNCHANGED <<configured, serves, indexed, clone, kept, moves>> /\ read.pc = "http"
    BY <1>2 DEF ReadHttp
  <2>1. CASE /\ serves /\ read.repo \in indexed /\ read.path \in clone[read.repo]
             /\ read' = [read EXCEPT !.pc = "done", !.file = <<read.repo, read.path>>, !.from = "server"]
    <3>1. <<read.repo, read.path>> \in Repo \X Path BY <2>1 DEF ReadingInv, ReadRecord
    <3>2. read' \in ReadRecord BY <1>0, <2>1, <3>1 DEF ReadRecord
    <3>3. read'.pc = "done" /\ read'.from = "server" BY <1>0, <2>1 DEF ReadRecord
    <3> QED BY <2>0, <3>2, <3>3 DEF ReadingInv, ReadRecord, OwnFileFirst
  <2>2. CASE read' = [read EXCEPT !.pc = "list"]
    <3>1. read' \in ReadRecord BY <1>0, <2>2 DEF ReadRecord
    <3>2. read'.pc = "list" /\ read'.from = read.from /\ read'.repo = read.repo
          /\ read'.path = read.path /\ read'.held = read.held
      BY <1>0, <2>2 DEF ReadRecord
    <3> QED BY <2>0, <3>1, <3>2 DEF ReadingInv, ReadRecord, OwnFileFirst
  <2> QED BY <1>2, <2>1, <2>2 DEF ReadHttp
<1>3. CASE ReadIndexList
  <2>0. UNCHANGED <<configured, serves, indexed, clone, moves>> /\ read.pc = "list"
    BY <1>3 DEF ReadIndexList
  <2>1. PICK list \in FetchIndexList :
           kept' = list /\ Found(ReadFromList(list, read.path, read.repo), "list", "search")
    BY <1>3 DEF ReadIndexList
  <2> DEFINE files == ReadFromList(list, read.path, read.repo)
  <2>2. kept' \in [known : BOOLEAN, repos : SUBSET Repo] /\ files \subseteq Repo \X Path
    BY <2>1, ListedFiles
  <2>3. read.held /\ files # {} => files = {<<read.repo, read.path>>}
    <3> SUFFICES ASSUME read.held, files # {} PROVE files = {<<read.repo, read.path>>}
      OBVIOUS
    <3>1. read.repo \in indexed /\ read.path \in clone[read.repo]
          /\ (kept.known => read.repo \in kept.repos)
      BY <2>0 DEF ReadingInv, ReadRecord
    <3>2. list # NoList \/ kept.known
      BY DEF ReadFromList, NoList
    <3>3. read.repo \in list.repos BY <3>1, <3>2 DEF FetchIndexList, ListOf
    <3> QED BY <3>1, <3>3, ListedFiles
  <2> HIDE DEF files
  <2>4. Found(files, "list", "search") BY <2>1 DEF files
  <2>5. /\ read' \in ReadRecord
        /\ read'.pc \in {"done", "search"}
        /\ read'.pc # "done" => read'.from = "none"
        /\ read'.from = "list" /\ read'.pc = "done" => files # {} /\ read'.file \in files
        /\ read'.repo = read.repo /\ read'.path = read.path /\ read'.held = read.held
    BY <2>0, <2>2, <2>4, FoundOK
  <2>6. OwnFileFirst' BY <2>3, <2>5 DEF OwnFileFirst
  <2> QED BY <2>0, <2>2, <2>5, <2>6 DEF ReadingInv, ReadRecord
<1>4. CASE ReadSearchHit
  <2>0. UNCHANGED <<configured, serves, indexed, clone, moves>> /\ read.pc = "search"
    BY <1>4 DEF ReadSearchHit
  <2>1. PICK list \in FetchIndexList, hits \in {RankedHits(read.path, read.repo), {}} :
           kept' = list /\ Found(UNION {ReadFromList(list, h[2], h[1]) : h \in hits}, "search", "done")
    BY <1>4 DEF ReadSearchHit
  <2> DEFINE files == UNION {ReadFromList(list, h[2], h[1]) : h \in hits}
  <2>2. kept' \in [known : BOOLEAN, repos : SUBSET Repo]
    BY <2>1, ListedFiles
  <2>3. \A h \in hits : ReadFromList(list, h[2], h[1]) \subseteq Repo \X Path
    BY ListedFiles
  <2>4. files \subseteq Repo \X Path
    <3> SUFFICES ASSUME NEW f \in files PROVE f \in Repo \X Path
      OBVIOUS
    <3>1. PICK h \in hits : f \in ReadFromList(list, h[2], h[1]) OBVIOUS
    <3> QED BY <2>3, <3>1
  <2> HIDE DEF files
  <2>5. Found(files, "search", "done") BY <2>1 DEF files
  <2>6. /\ read' \in ReadRecord
        /\ read'.pc \in {"done", "search"}
        /\ read'.pc # "done" => read'.from = "none"
        /\ read'.from # "list" \/ read'.pc # "done"
    BY <2>0, <2>4, <2>5, FoundOK
  <2> QED BY <2>0, <2>2, <2>6 DEF ReadingInv, ReadRecord, OwnFileFirst
<1>5. CASE GetIndexStatus
  <2>1. kept' \in [known : BOOLEAN, repos : SUBSET Repo]
    <3>1. ListOf(indexed) \in [known : BOOLEAN, repos : SUBSET Repo]
      BY ListTyped DEF ReadingInv, ReadRecord
    <3> QED BY <1>0, <1>5, <3>1 DEF GetIndexStatus
  <2> QED BY <1>5, <2>1 DEF GetIndexStatus, ReadingInv, ReadRecord, OwnFileFirst
<1>6. CASE Close
  <2>1. kept' \in [known : BOOLEAN, repos : SUBSET Repo] BY <1>6 DEF Close, NoList
  <2> QED BY <1>6, <2>1 DEF Close, ReadingInv, ReadRecord, OwnFileFirst
<1>7. ASSUME NEW r \in Repo, IndexMoves(r) \/ CloneMoves(r) PROVE ReadingInv'
  <2>1. read' = [read EXCEPT !.held = FALSE] /\ moves' = moves + 1 /\ moves < MaxMoves
        /\ UNCHANGED <<configured, serves, kept>>
    BY <1>7 DEF IndexMoves, CloneMoves, Moved
  <2>2. read' \in ReadRecord /\ read'.held = FALSE /\ read'.pc = read.pc /\ read'.from = read.from
    BY <1>0, <2>1 DEF ReadRecord
  <2>3. indexed' \subseteq Repo BY <1>7 DEF IndexMoves, CloneMoves, ReadingInv, ReadRecord
  <2>4. clone' \in [Repo -> SUBSET Path] BY <1>7 DEF IndexMoves, CloneMoves, ReadingInv, ReadRecord
  <2>5. moves' \in 0 .. MaxMoves BY <2>1, ReadingAssumption DEF ReadingInv, ReadRecord, ReadingAssumption
  <2> QED BY <2>1, <2>2, <2>3, <2>4, <2>5 DEF ReadingInv, ReadRecord, OwnFileFirst
<1>8. CASE UNCHANGED readingVars BY <1>8 DEF readingVars, ReadingInv, ReadRecord, OwnFileFirst
<1> QED BY <1>1, <1>2, <1>3, <1>4, <1>5, <1>6, <1>7, <1>8 DEF ReadingNext

LEMMA ReadingInvariance == ReadingSpec => []ReadingInv
BY ReadingInitOK, ReadingStep, PTL DEF ReadingSpec

-----------------------------------------------------------------------------
(* The cutting of code.                                                    *)

LEMMA MaxInterval ==
    ASSUME NEW n \in Nat, NEW S \in SUBSET (0 .. n), S # {}
    PROVE  Max(S) \in S
<1>1. PICK m \in S : \A x \in S : x <= m BY GreatestExists
<1>2. \A x \in S : m >= x BY <1>1
<1> QED BY <1>2 DEF Max

\* A method that is not closed ends with the text.
LEMMA MethodEnds ==
    ASSUME NEW text \in Seq(Line), NEW first \in 1 .. Len(text)
    PROVE  MethodEnd(text, first) \in first .. Len(text)
<1> DEFINE ends == {n \in first .. Len(text) :
                       text[n].kind = "close" /\ Depth(text, first, n) = 0
                       /\ \E i \in first .. n : text[i].kind \in {"method", "open"}}
<1>1. Len(text) \in Nat OBVIOUS
<1>2. MethodEnd(text, first) = IF ends = {} THEN Len(text) ELSE Min(ends)
  BY DEF MethodEnd
<1>3. ends \subseteq first .. Len(text) /\ ends \subseteq Nat BY <1>1
<1> HIDE DEF ends
<1>4. ends # {} => Min(ends) \in ends BY <1>3, MinNaturals
<1>5. Len(text) \in first .. Len(text) BY <1>1
<1>6. CASE ends = {} BY <1>2, <1>5, <1>6
<1>7. CASE ends # {} BY <1>2, <1>3, <1>4, <1>7
<1> QED BY <1>6, <1>7

LEMMA Intervals ==
    ASSUME NEW a \in Int, NEW b \in Int, NEW n \in Nat, b - a + 1 <= n
    PROVE  Cardinality(a .. b) <= n
<1>1. Cardinality(a .. b) = IF a > b THEN 0 ELSE b - a + 1 BY FS_Interval
<1> QED BY <1>1

\* However much is asked for, a window has its limit.
LEMMA WindowSize ==
    ASSUME NEW first \in Int, NEW last \in Int, NEW total \in Int, NEW focus \in Int
    PROVE  Cardinality(ClampWindow(first, last, total, focus)) <= MaxLines
<1> DEFINE to == Lower(total, Upper(first, last))
           at == Upper(first, Lower(IF focus = 0 THEN to ELSE focus, to))
           from == Upper(first, at - MaxLines + Margin)
           until == Lower(to, from + MaxLines - 1)
           low == Upper(first, until - MaxLines + 1)
<1>0. MaxLines \in Nat /\ Margin \in Int BY SliceAssumption DEF SliceAssumption
<1>1. to \in Int BY DEF Lower, Upper
<1>2. at \in Int BY <1>1 DEF Lower, Upper
<1>3. from \in Int BY <1>0, <1>2 DEF Upper
<1>4. until \in Int BY <1>0, <1>1, <1>3 DEF Lower
<1>5. low \in Int /\ until - low + 1 <= MaxLines BY <1>0, <1>4 DEF Upper
<1>6. ClampWindow(first, last, total, focus)
        = IF to - first + 1 <= MaxLines THEN first .. to ELSE low .. until
  BY DEF ClampWindow
<1> HIDE DEF to, at, from, until, low
<1>7. CASE to - first + 1 <= MaxLines BY <1>0, <1>1, <1>6, <1>7, Intervals
<1>8. CASE ~(to - first + 1 <= MaxLines) BY <1>0, <1>4, <1>5, <1>6, <1>8, Intervals
<1> QED BY <1>7, <1>8

\* A window around a line holds the line.
LEMMA WindowHolds ==
    ASSUME NEW first \in Int, NEW last \in Int, NEW total \in Int, NEW focus \in Int,
           first <= focus, focus <= last, focus <= total, focus # 0
    PROVE  focus \in ClampWindow(first, last, total, focus)
<1> DEFINE to == Lower(total, Upper(first, last))
           at == Upper(first, Lower(IF focus = 0 THEN to ELSE focus, to))
           from == Upper(first, at - MaxLines + Margin)
           until == Lower(to, from + MaxLines - 1)
           low == Upper(first, until - MaxLines + 1)
<1>0. MaxLines \in Nat /\ Margin \in 1 .. MaxLines BY SliceAssumption DEF SliceAssumption
<1>1. to \in Int /\ focus <= to BY DEF Lower, Upper
<1>2. at = focus BY <1>1 DEF Lower, Upper
<1>3. from \in Int /\ from <= focus /\ focus - MaxLines + Margin <= from BY <1>0, <1>2 DEF Upper
<1>4. until \in Int /\ focus <= until /\ until - MaxLines + 1 <= from
  BY <1>0, <1>1, <1>3 DEF Lower
<1>5. low \in Int /\ low <= focus BY <1>0, <1>3, <1>4 DEF Upper
<1>6. ClampWindow(first, last, total, focus)
        = IF to - first + 1 <= MaxLines THEN first .. to ELSE low .. until
  BY DEF ClampWindow
<1> HIDE DEF to, at, from, until, low
<1> QED BY <1>1, <1>4, <1>5, <1>6

\* The window around a fault: of its method, or of the lines before and after.
LEMMA FocusWindow ==
    ASSUME NEW text \in Seq(Line), text # <<>>, NEW focus \in Nat \ {0}
    PROVE  LET at == Lower(focus, Len(text))
               before == MethodStart(text, at)
           IN  /\ Cardinality(AroundFocus(text, focus)) <= MaxLines
               /\ before = {} \/ MethodEnd(text, Max(before)) >= at
                  => at \in AroundFocus(text, focus)
<1> DEFINE f == Lower(focus, Len(text))
           before == MethodStart(text, f)
           first == Max(before)
           low == Upper(1, f - LinesBefore)
           high == Lower(Len(text), f + LinesAfter)
<1>0. Len(text) \in Nat /\ Len(text) > 0 BY EmptySeq
<1>1. f \in 1 .. Len(text) BY <1>0 DEF Lower
<1>2. CASE before # {}
  <2>1. before \subseteq 1 .. Len(text) /\ \A i \in before : i <= f
    BY DEF MethodStart, Starts
  <2>2. before \in SUBSET (0 .. Len(text)) BY <1>0, <2>1
  <2>3. first \in before BY <1>0, <1>2, <2>2, MaxInterval
  <2>4. first \in 1 .. Len(text) /\ first <= f BY <2>1, <2>3
  <2>5. MethodEnd(text, first) \in first .. Len(text) BY <2>4, MethodEnds
  <2>6. AroundFocus(text, focus) = ClampWindow(first, MethodEnd(text, first), Len(text), f)
    BY <1>2 DEF AroundFocus
  <2>7. first \in Int /\ MethodEnd(text, first) \in Int /\ Len(text) \in Int /\ f \in Int
        /\ f <= Len(text) /\ f # 0
    BY <1>0, <1>1, <2>4, <2>5
  <2>8. Cardinality(AroundFocus(text, focus)) <= MaxLines BY <2>6, <2>7, WindowSize
  <2>9. MethodEnd(text, first) >= f => f \in AroundFocus(text, focus)
    BY <2>4, <2>6, <2>7, WindowHolds
  <2> QED BY <1>2, <2>8, <2>9
<1>3. CASE before = {}
  <2>1. AroundFocus(text, focus) = ClampWindow(low, high, Len(text), f)
    BY <1>3 DEF AroundFocus
  <2>2. LinesBefore \in Nat /\ LinesAfter \in Nat BY SliceAssumption DEF SliceAssumption
  <2>3. low \in Int /\ low <= f BY <1>0, <1>1, <2>2 DEF Upper
  <2>4. high \in Int /\ f <= high BY <1>0, <1>1, <2>2 DEF Lower
  <2>5. Len(text) \in Int /\ f \in Int /\ f <= Len(text) /\ f # 0 BY <1>0, <1>1
  <2> HIDE DEF f, low, high, before, first
  <2>6. Cardinality(AroundFocus(text, focus)) <= MaxLines BY <2>1, <2>3, <2>4, <2>5, WindowSize
  <2>7. f \in AroundFocus(text, focus) BY <2>1, <2>3, <2>4, <2>5, WindowHolds
  <2> QED BY <2>6, <2>7 DEF f
<1> QED BY <1>2, <1>3

\* What a read without methods returns of a text.
LEMMA WindowOfRequest ==
    ASSUME NEW text \in Text, text # <<>>, NEW q \in ReadRequest, q.methods = {}
    PROVE  LET at == Lower(q.focus, Len(text))
               before == MethodStart(text, at)
               lines == SourceWindow(text, q)
           IN  /\ q.end = 0 \/ q.start > 1 \/ q.focus # 0 => Cardinality(lines) <= MaxLines
               /\ q.focus # 0 /\ q.end = 0 /\ (before = {} \/ MethodEnd(text, Max(before)) >= at)
                     => at \in lines
<1> DEFINE lines == SourceWindow(text, q)
           named == ExtractNamedMethods(text, q.methods, q.focus)
<1>0. text \in Seq(Line) /\ MaxLines \in Nat BY SliceAssumption DEF SliceAssumption
<1>1. named = {} BY DEF ExtractNamedMethods
<1>2. Len(text) \in Nat /\ q.start \in 1 .. 2 /\ q.end \in {0, 2, 4} /\ q.focus \in 0 .. 5
  BY <1>0 DEF ReadRequest
<1> HIDE DEF named
<1>3. CASE q.end > 0 /\ q.start > 1
  <2>1. lines = ClampWindow(q.start, Lower(Len(text), q.end), Len(text), q.focus)
    BY <1>1, <1>3 DEF SourceWindow, named
  <2>2. Lower(Len(text), q.end) \in Int BY <1>2 DEF Lower
  <2>3. Cardinality(lines) <= MaxLines BY <1>2, <2>1, <2>2, WindowSize
  <2> QED BY <1>2, <1>3, <2>3
<1>4. CASE ~(q.end > 0 /\ q.start > 1) /\ q.focus # 0
  <2>1. lines = AroundFocus(text, q.focus) BY <1>1, <1>4 DEF SourceWindow, named
  <2>2. q.focus \in Nat \ {0} BY <1>2, <1>4
  <2> QED BY <1>0, <2>1, <2>2, FocusWindow
<1>5. CASE ~(q.end > 0 /\ q.start > 1) /\ q.focus = 0
  <2>1. lines = IF Len(text) > MaxLines /\ q.end = 0 THEN 1 .. MaxLines ELSE 1 .. Len(text)
    BY <1>1, <1>5 DEF SourceWindow, named
  <2>2. ASSUME q.end = 0 PROVE Cardinality(lines) <= MaxLines
    <3>1. CASE Len(text) > MaxLines
      <4>1. lines = 1 .. MaxLines BY <2>1, <2>2, <3>1
      <4> QED BY <1>0, <4>1, Intervals
    <3>2. CASE ~(Len(text) > MaxLines)
      <4>1. lines = 1 .. Len(text) /\ Len(text) - 1 + 1 <= MaxLines BY <1>0, <1>2, <2>1, <3>2
      <4> QED BY <1>0, <1>2, <4>1, Intervals
    <3> QED BY <3>1, <3>2
  <2>3. q.start > 1 => q.end = 0 BY <1>2, <1>5
  <2> QED BY <1>5, <2>2, <2>3
<1> QED BY <1>3, <1>4, <1>5

\* The cutting keeps to its limit, and of the method of a fault keeps the fault
\* (code_slice.py:180).
LEMMA SliceInvariance == SliceSpec => []WindowBounded
<1>1. SliceInit => WindowBounded BY DEF SliceInit, WindowBounded
<1>2. WindowBounded /\ [SliceNext]_slice => WindowBounded'
  <2> SUFFICES ASSUME WindowBounded, [SliceNext]_slice PROVE WindowBounded'
    OBVIOUS
  <2>1. CASE SliceNext
    <3>1. PICK text \in Text, q \in ReadRequest :
             slice' = [text |-> text, request |-> q, lines |-> SourceWindow(text, q)]
      BY <2>1 DEF SliceNext, SlicedResult
    <3>2. slice'.text = text /\ slice'.request = q /\ slice'.lines = SourceWindow(text, q)
      BY <3>1
    <3> QED BY <3>2, WindowOfRequest DEF WindowBounded
  <2>2. CASE UNCHANGED slice BY <2>2 DEF WindowBounded
  <2> QED BY <2>1, <2>2
<1> QED BY <1>1, <1>2, PTL DEF SliceSpec

LEMMA ReadingTypes == ReadingInv => ReadingTypeOK
BY DEF ReadingInv, ReadRecord, ReadingTypeOK

-----------------------------------------------------------------------------
(* The message to the model.                                               *)

\* What the steps have given up so far; in the end only the excerpt is left to cut.
GivenUp(p, step) ==
    /\ step > 1 => p.evidence = 0
    /\ step > 2 => p.trace = 0
    /\ step > 4 => p.chain = 0
    /\ step > 5 => p.report = Small
OnlyExcerpt(p) ==
    p.evidence = 0 /\ p.trace = 0 /\ p.chain = 0 /\ p.report = Small /\ p.case = Small

PayloadInv ==
    /\ draft \in [pc : {"idle", "compose", "shrink", "halve", "bare", "sent"}, step : 1 .. 6,
                  given : Given \cup {NoGiven}, payload : Payload]
    /\ draft.pc = "compose" => draft.step \in 1 .. 3 /\ draft.given \in Given
    /\ draft.pc = "shrink" => GivenUp(draft.payload, draft.step)
    /\ draft.pc \in {"halve", "bare"} => OnlyExcerpt(draft.payload)
    /\ draft.pc \in {"bare", "sent"} => Fits(draft.payload)

LEMMA Sizes ==
    /\ ByteLimit \in Nat /\ LongExcerpt \in Nat /\ LeastExcerpt \in Nat /\ Floor \in Nat
    /\ Mark \in Nat /\ Small \in Nat
    /\ 2 * Small + Floor + 2 * Mark <= ByteLimit
BY PayloadAssumption DEF PayloadAssumption

LEMMA TruncatedNat ==
    ASSUME NEW size \in Nat, NEW limit \in Nat
    PROVE  Truncated(size, limit) \in Nat
BY Sizes DEF Truncated

LEMMA ComposedTyped ==
    ASSUME NEW given \in Given, NEW level \in 1 .. 3
    PROVE  Composed(given, level) \in Payload
<1>1. given.content \in Nat /\ given.chain \in Nat /\ given.trace \in Nat /\ given.nested \in Nat
      /\ given.report \in Nat /\ given.case \in Nat
  BY Sizes DEF Given
<1> DEFINE first == IF given.chain > 0 THEN LongExcerpt \div 2 ELSE LongExcerpt
           once == Greater(LeastExcerpt, first \div 2)
           twice == Greater(LeastExcerpt, once \div 2)
<1>2. first \in Nat BY <1>1, Sizes
<1>3. once \in Nat BY <1>2, Sizes DEF Greater
<1>4. twice \in Nat BY <1>3, Sizes DEF Greater
<1>5. ErrorLimit(given, level) = <<first, once, twice>>[level] BY DEF ErrorLimit
<1> HIDE DEF first, once, twice
<1>6. ErrorLimit(given, level) \in Nat BY <1>2, <1>3, <1>4, <1>5
<1>7. CompactEvidence(given, level) \in Nat
  <2>1. <<3, 2, 1>>[level] \in {1, 2, 3} OBVIOUS
  <2> QED BY <1>1, <2>1 DEF CompactEvidence
<1>8. Truncated(given.content, ErrorLimit(given, level)) \in Nat BY <1>1, <1>6, TruncatedNat
<1> QED BY <1>1, <1>7, <1>8 DEF Composed, Payload

LEMMA ShrunkOK ==
    ASSUME NEW p \in Payload, NEW step \in 1 .. 6, GivenUp(p, step)
    PROVE  /\ Shrunk(p, step) \in Payload
           /\ step < 6 => GivenUp(Shrunk(p, step), step + 1)
           /\ step = 6 => OnlyExcerpt(Shrunk(p, step))
<1>1. p.chain \in Nat /\ Lesser(p.chain, 1) \in Nat BY DEF Payload, Lesser
<1>2. CASE step = 1
  <2>1. Shrunk(p, step) = [p EXCEPT !.evidence = 0] BY <1>2 DEF Shrunk
  <2> QED BY <1>2, <2>1 DEF Payload, GivenUp
<1>3. CASE step = 2
  <2>1. Shrunk(p, step) = [p EXCEPT !.trace = 0] BY <1>3 DEF Shrunk
  <2> QED BY <1>3, <2>1 DEF Payload, GivenUp
<1>4. CASE step = 3
  <2>1. Shrunk(p, step) = [p EXCEPT !.chain = Lesser(p.chain, 1)] BY <1>4 DEF Shrunk
  <2> QED BY <1>1, <1>4, <2>1 DEF Payload, GivenUp
<1>5. CASE step = 4
  <2>1. Shrunk(p, step) = [p EXCEPT !.chain = 0] BY <1>5 DEF Shrunk
  <2> QED BY <1>5, <2>1 DEF Payload, GivenUp
<1>6. CASE step = 5
  <2>1. Shrunk(p, step) = [p EXCEPT !.report = Small] BY <1>6 DEF Shrunk
  <2> QED BY <1>6, <2>1, Sizes DEF Payload, GivenUp
<1>7. CASE step = 6
  <2>1. Shrunk(p, step) = [p EXCEPT !.case = Small] BY <1>7 DEF Shrunk
  <2> QED BY <1>7, <2>1, Sizes DEF Payload, GivenUp, OnlyExcerpt
<1> QED BY <1>2, <1>3, <1>4, <1>5, <1>6, <1>7

\* With nothing but the excerpt left to cut, an excerpt within the floor fits, and one that
\* does not fit gets shorter when it is halved, the note about the cut included.
LEMMA HalvingShortens ==
    ASSUME NEW p \in Payload, OnlyExcerpt(p), ~Fits(p)
    PROVE  /\ p.excerpt > Floor
           /\ Truncated(p.excerpt, Greater(Floor, p.excerpt \div 2)) \in Nat
           /\ Truncated(p.excerpt, Greater(Floor, p.excerpt \div 2)) < p.excerpt
<1> DEFINE x == p.excerpt
           h == x \div 2
<1>1. x \in Nat BY DEF Payload
<1>2. x + 2 * Small > ByteLimit
  <2>1. Bytes(p) = x + 2 * Small BY <1>1, Sizes DEF OnlyExcerpt, Bytes, Payload
  <2> QED BY <1>1, <2>1, Sizes DEF Fits
<1>3. x > Floor + 2 * Mark BY <1>1, <1>2, Sizes
<1> HIDE DEF x
<1>4. h \in Nat /\ 2 * h <= x BY <1>1
<1> HIDE DEF h
<1>5. h + Mark < x /\ h < x BY <1>1, <1>3, <1>4, Sizes
<1>6. Truncated(x, Greater(Floor, h)) = Greater(Floor, h) + Mark
  BY <1>1, <1>3, <1>4, <1>5, Sizes DEF Truncated, Greater
<1>7. Greater(Floor, h) + Mark < x /\ Greater(Floor, h) + Mark \in Nat
  BY <1>1, <1>3, <1>4, <1>5, Sizes DEF Greater
<1>8. x > Floor BY <1>1, <1>3, Sizes
<1> QED BY <1>6, <1>7, <1>8 DEF x, h

LEMMA PayloadInitOK == PayloadInit => PayloadInv
BY DEF PayloadInit, PayloadInv, NoPayload, Payload

LEMMA PayloadStep == PayloadInv /\ [PayloadNext]_draft => PayloadInv'
<1> SUFFICES ASSUME PayloadInv, [PayloadNext]_draft PROVE PayloadInv'
  OBVIOUS
<1> DEFINE Draft == [pc : {"idle", "compose", "shrink", "halve", "bare", "sent"}, step : 1 .. 6,
                     given : Given \cup {NoGiven}, payload : Payload]
<1>0. draft \in Draft BY DEF PayloadInv
<1>1. CASE BeginPayload
  <2>1. PICK given \in Given :
           draft' = [pc |-> "compose", step |-> 1, given |-> given, payload |-> NoPayload]
    BY <1>1 DEF BeginPayload
  <2>2. NoPayload \in Payload BY DEF NoPayload, Payload
  <2> QED BY <2>1, <2>2 DEF PayloadInv
<1>2. CASE ComposePayload
  <2> DEFINE p == Composed(draft.given, draft.step)
  <2>1. draft.step \in 1 .. 3 /\ draft.given \in Given /\ draft.pc = "compose"
    BY <1>2 DEF ComposePayload, PayloadInv
  <2>2. p \in Payload BY <2>1, ComposedTyped
  <2>3. Fits(p) => draft' = [draft EXCEPT !.payload = p, !.pc = "sent"]
    BY <1>2 DEF ComposePayload, SendPayload
  <2>4. ~Fits(p) => draft' = [draft EXCEPT !.payload = p,
                                 !.pc = IF draft.step < 3 THEN "compose" ELSE "shrink",
                                 !.step = IF draft.step < 3 THEN draft.step + 1 ELSE 1]
    BY <1>2 DEF ComposePayload
  <2> HIDE DEF p
  <2>5. CASE Fits(p) BY <1>0, <2>2, <2>3, <2>5 DEF PayloadInv
  <2>6. CASE ~Fits(p)
    <3>1. PICK n \in 1 .. 3, pc \in {"compose", "shrink"} :
             /\ draft' = [draft EXCEPT !.payload = p, !.pc = pc, !.step = n]
             /\ pc = "shrink" => n = 1
      <4>1. CASE draft.step < 3
        <5>1. PICK k \in 1 .. 3 : k = draft.step + 1 BY <2>1, <4>1
        <5>2. draft' = [draft EXCEPT !.payload = p, !.pc = "compose", !.step = k]
          BY <2>4, <2>6, <4>1, <5>1
        <5> QED BY <5>2
      <4>2. CASE ~(draft.step < 3)
        <5>1. draft' = [draft EXCEPT !.payload = p, !.pc = "shrink", !.step = 1]
          BY <2>4, <2>6, <4>2
        <5> QED BY <5>1
      <4> QED BY <4>1, <4>2
    <3>0. n \in 1 .. 6 /\ draft' = [draft EXCEPT !.payload = p, !.pc = pc, !.step = n] BY <3>1
    <3>2. draft' \in Draft /\ draft'.pc = pc /\ draft'.step = n /\ draft'.given = draft.given
      BY <1>0, <2>2, <3>0
    <3>3. pc = "shrink" => GivenUp(draft'.payload, draft'.step)
      BY <3>1, <3>2 DEF GivenUp
    <3> QED BY <2>1, <3>2, <3>3 DEF PayloadInv
  <2> QED BY <2>5, <2>6
<1>3. CASE ShrinkPayload
  <2> DEFINE p == Shrunk(draft.payload, draft.step)
  <2>1. draft.pc = "shrink" /\ draft.payload \in Payload /\ draft.step \in 1 .. 6
        /\ GivenUp(draft.payload, draft.step)
    BY <1>0, <1>3 DEF ShrinkPayload, PayloadInv
  <2>2. CASE Fits(draft.payload)
    <3>1. draft' = [draft EXCEPT !.payload = draft.payload, !.pc = "sent"]
      BY <1>3, <2>2 DEF ShrinkPayload, SendPayload
    <3> QED BY <1>0, <2>1, <2>2, <3>1 DEF PayloadInv
  <2>3. CASE ~Fits(draft.payload)
    <3>1. draft' = [draft EXCEPT !.payload = p,
                       !.pc = IF draft.step < 6 THEN "shrink" ELSE "halve",
                       !.step = IF draft.step < 6 THEN draft.step + 1 ELSE 1]
      BY <1>3, <2>3 DEF ShrinkPayload
    <3>2. p \in Payload /\ (draft.step < 6 => GivenUp(p, draft.step + 1))
          /\ (draft.step = 6 => OnlyExcerpt(p))
      BY <2>1, ShrunkOK
    <3> HIDE DEF p
    <3>3. CASE draft.step < 6
      <4>1. PICK n \in 1 .. 6 : n = draft.step + 1 BY <2>1, <3>3
      <4>2. draft' = [draft EXCEPT !.payload = p, !.pc = "shrink", !.step = n] BY <3>1, <3>3, <4>1
      <4>3. draft' \in Draft /\ draft'.pc = "shrink" /\ draft'.step = n /\ draft'.payload = p
        BY <1>0, <3>2, <4>2
      <4> QED BY <3>2, <3>3, <4>1, <4>3 DEF PayloadInv
    <3>4. CASE draft.step = 6
      <4>0. PICK n \in 1 .. 6 : n = 1 OBVIOUS
      <4>1. draft' = [draft EXCEPT !.payload = p, !.pc = "halve", !.step = n] BY <3>1, <3>4, <4>0
      <4>2. draft' \in Draft /\ draft'.pc = "halve" /\ draft'.payload = p
        BY <1>0, <3>2, <4>1
      <4> QED BY <3>2, <3>4, <4>2 DEF PayloadInv
    <3> QED BY <2>1, <3>3, <3>4
  <2> QED BY <2>2, <2>3
<1>4. CASE HalveExcerpt
  <2>1. draft.pc = "halve" /\ draft.payload \in Payload /\ OnlyExcerpt(draft.payload)
    BY <1>0, <1>4 DEF HalveExcerpt, PayloadInv
  <2>2. CASE ~Fits(draft.payload)
    <3> DEFINE y == Truncated(draft.payload.excerpt, Greater(Floor, draft.payload.excerpt \div 2))
    <3>1. draft.payload.excerpt > Floor /\ y \in Nat BY <2>1, <2>2, HalvingShortens
    <3>2. draft' = [draft EXCEPT !.payload.excerpt = y] BY <1>4, <2>2, <3>1 DEF HalveExcerpt
    <3> HIDE DEF y
    <3>3. draft' = [draft EXCEPT !.payload = [draft.payload EXCEPT !.excerpt = y]]
      BY <1>0, <3>2
    <3>4. [draft.payload EXCEPT !.excerpt = y] \in Payload
          /\ OnlyExcerpt([draft.payload EXCEPT !.excerpt = y])
      BY <2>1, <3>1 DEF Payload, OnlyExcerpt
    <3>5. draft' \in Draft /\ draft'.pc = "halve" /\ OnlyExcerpt(draft'.payload)
      BY <1>0, <2>1, <3>3, <3>4
    <3> QED BY <3>5 DEF PayloadInv
  <2>3. CASE Fits(draft.payload)
    <3>1. draft' = [draft EXCEPT !.pc = "bare"] BY <1>4, <2>3 DEF HalveExcerpt
    <3>2. draft' \in Draft /\ draft'.pc = "bare" /\ draft'.payload = draft.payload
      BY <1>0, <3>1
    <3> QED BY <2>1, <2>3, <3>2 DEF PayloadInv
  <2> QED BY <2>2, <2>3
<1>5. CASE BarePayload
  <2>1. draft.pc = "bare" /\ Fits(draft.payload) BY <1>5 DEF BarePayload, PayloadInv
  <2>2. draft' = [draft EXCEPT !.payload = draft.payload, !.pc = "sent"]
    BY <1>5, <2>1 DEF BarePayload, SendPayload
  <2>3. draft' \in Draft /\ draft'.pc = "sent" /\ draft'.payload = draft.payload
    BY <1>0, <2>2
  <2> QED BY <2>1, <2>3 DEF PayloadInv
<1>6. CASE UNCHANGED draft BY <1>6 DEF PayloadInv
<1> QED BY <1>1, <1>2, <1>3, <1>4, <1>5, <1>6 DEF PayloadNext

\* A payload is sent only when it is within the limit of a message, for every
\* limit and every size of the parts of a submission.
LEMMA PayloadInvariance == PayloadInit /\ [][PayloadNext]_draft => []PayloadInv
BY PayloadInitOK, PayloadStep, PTL

\* As long as the excerpt is halved, it gets shorter, so that the loop cannot go
\* on for ever (_build_llm_error_chat_payload).
THEOREM HalvingEnds ==
    PayloadSpec => [][HalveExcerpt /\ draft'.pc = "halve"
                        => draft'.payload.excerpt < draft.payload.excerpt]_draft
<1>1. PayloadInv /\ [PayloadNext]_draft
        => [HalveExcerpt /\ draft'.pc = "halve"
              => draft'.payload.excerpt < draft.payload.excerpt]_draft
  <2> SUFFICES ASSUME PayloadInv, HalveExcerpt, draft'.pc = "halve"
               PROVE  draft'.payload.excerpt < draft.payload.excerpt
    OBVIOUS
  <2>1. draft.pc = "halve" /\ draft.payload \in Payload /\ OnlyExcerpt(draft.payload)
        /\ draft \in [pc : {"idle", "compose", "shrink", "halve", "bare", "sent"}, step : 1 .. 6,
                      given : Given \cup {NoGiven}, payload : Payload]
    BY DEF HalveExcerpt, PayloadInv
  <2> DEFINE y == Truncated(draft.payload.excerpt, Greater(Floor, draft.payload.excerpt \div 2))
  <2>2. ~Fits(draft.payload)
    <3> SUFFICES ASSUME Fits(draft.payload) PROVE FALSE
      OBVIOUS
    <3>1. draft' = [draft EXCEPT !.pc = "bare"] BY DEF HalveExcerpt
    <3>2. draft'.pc = "bare" BY <2>1, <3>1
    <3> QED BY <3>2
  <2>3. draft.payload.excerpt > Floor /\ y < draft.payload.excerpt BY <2>1, <2>2, HalvingShortens
  <2>4. draft' = [draft EXCEPT !.payload.excerpt = y] BY <2>2, <2>3 DEF HalveExcerpt
  <2> HIDE DEF y
  <2>5. draft'.payload.excerpt = y BY <2>1, <2>4 DEF Payload
  <2> QED BY <2>3, <2>5
<1> QED BY <1>1, PayloadInvariance, PTL DEF PayloadSpec

\* Whatever a submission holds: a message that is sent is within the limit (_build_llm_error_chat_payload).
THEOREM MessageFits == PayloadSpec => [](draft.pc = "sent" => Fits(draft.payload))
<1>1. PayloadInv => (draft.pc = "sent" => Fits(draft.payload))
  BY DEF PayloadInv
<1> QED
  BY <1>1, PayloadInvariance, PTL DEF PayloadSpec

-----------------------------------------------------------------------------
(* The parts side by side.                                                 *)

\* A step of the API is a step of each part or leaves it alone.
LEMMA ApiStepsOfParts ==
    ASSUME [MCNext]_MCApiVars
    PROVE  /\ [IntakeNext]_intakeVars /\ [ForwardingNext]_forwardingVars
           /\ [DiagnosisNext]_diagnosisVars /\ [LookupNext]_lookupVars
           /\ [ReadingNext]_readingVars /\ [SliceNext]_slice /\ [PayloadNext]_draft
<1> USE DEF rest, code
<1>1. CASE WritesPayload
  BY <1>1 DEF WritesPayload
<1>2. CASE IntakeNext /\ UNCHANGED <<forwardingVars, diagnosisVars, rest>>
  BY <1>2
<1>3. CASE ForwardingNext /\ UNCHANGED <<intakeVars, diagnosisVars, rest>>
  BY <1>3
<1>4. CASE DiagnosisNext /\ UNCHANGED <<intakeVars, forwardingVars, rest>>
  BY <1>4
<1>5. CASE LookupNext
           /\ UNCHANGED <<intakeVars, forwardingVars, diagnosisVars, readingVars, slice, draft>>
  BY <1>5
<1>6. CASE ReadingNext
           /\ UNCHANGED <<intakeVars, forwardingVars, diagnosisVars, lookupVars, slice, draft>>
  BY <1>6
<1>7. CASE SliceNext
           /\ UNCHANGED <<intakeVars, forwardingVars, diagnosisVars, lookupVars, readingVars, draft>>
  BY <1>7
<1>8. CASE UNCHANGED MCApiVars
  BY <1>8 DEF MCApiVars
<1> QED
  BY <1>1, <1>2, <1>3, <1>4, <1>5, <1>6, <1>7, <1>8 DEF MCNext

\* The API as it is checked implements the specification of each of its parts, for the message
\* to the model but for its fairness: what is proved of a part alone holds of the whole.
THEOREM ApiIsItsParts ==
    MCSpec => /\ IntakeSpec /\ ForwardingSpec /\ DiagnosisSpec /\ LookupSpec
              /\ ReadingSpec /\ SliceSpec /\ PayloadInit /\ [][PayloadNext]_draft
<1>1. MCInit => /\ IntakeInit /\ ForwardingInit /\ DiagnosisInit /\ LookupInit
                /\ ReadingInit /\ SliceInit /\ PayloadInit
  BY DEF MCInit
<1> QED
  BY <1>1, ApiStepsOfParts, PTL
     DEF MCSpec, IntakeSpec, ForwardingSpec, DiagnosisSpec, LookupSpec, ReadingSpec, SliceSpec

\* Whatever the size of the API: handlers and stores, the call of a tool, the analysis, the
\* questions about callers and files, and the message keep the types of their models.
THEOREM ApiIsTyped == MCSpec => []TypeOK
<1>1. ForwardingInv => ForwardingTypeOK
  BY DEF ForwardingInv
<1>2. PayloadInv => PayloadTypeOK
  BY DEF PayloadInv, PayloadTypeOK
<1> QED
  BY <1>1, <1>2, ApiIsItsParts, AnswersAreTrue, ForwardingInvariance, DiagnosisInvariance,
     DiagnosisTypes, LookupInvariance, LookupTypes, ReadingInvariance, ReadingTypes,
     PayloadInvariance, PTL DEF TypeOK

\* Whatever the files, the list of repositories and the lines asked for: a file that the
\* repository asked for has, and that the list names, is read from there; and a window has no
\* more lines than it may and holds the line at fault, unless the method before that line has
\* ended by then (zoekt_adapter.py:476, code_slice.py:84).
THEOREM RightCodeIsShown == MCSpec => []RightCodeShown
<1>1. ReadingInv => OwnFileFirst
  BY DEF ReadingInv
<1> QED
  BY <1>1, ApiIsItsParts, ReadingInvariance, SliceInvariance, PTL DEF RightCodeShown

=============================================================================
