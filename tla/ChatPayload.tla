---------------------------- MODULE ChatPayload ----------------------------
(***************************************************************************)
(* What the model is asked about an error chat: exception, call chain,     *)
(* excerpt of the error, case, report and evidence, in one message that    *)
(* has a limit.  Three levels of evidence are tried, then part after part  *)
(* is given up, then the excerpt is halved, then a bare payload is sent.   *)
(* Only sizes are modelled, in units of text; strings are capped, but what *)
(* evidence and report hold in nested lists is not.                        *)
(***************************************************************************)
EXTENDS Integers, Sequences

CONSTANTS
    ByteLimit,     \* KIMI_MESSAGE_BYTE_LIMIT
    LongExcerpt,   \* the first excerpt, of an error without a call chain
    LeastExcerpt,  \* the levels of evidence cut the excerpt no further than this
    Floor,         \* and the loop no further than this
    Mark,          \* what the note about a cut adds
    Small          \* a summary that was cut, the id and the title of a case

PayloadAssumption ==
    /\ {ByteLimit, LongExcerpt, LeastExcerpt, Floor, Mark, Small} \subseteq Nat \ {0}
    /\ 2 * Small + Floor + 2 * Mark <= ByteLimit

ASSUME PayloadAssumption

VARIABLE draft   \* what the submission holds, and the payload as far as it is cut

Lesser(x, y) == IF x < y THEN x ELSE y
Greater(x, y) == IF x > y THEN x ELSE y

\* A string over the limit is cut to it, and a note tells how much was left out.
Truncated(size, limit) == IF size <= limit THEN size ELSE limit + Mark

Payload == [excerpt : Nat, evidence : Nat, trace : Nat, chain : Nat, report : Nat, case : Nat]
Bytes(payload) ==
    payload.excerpt + payload.evidence + payload.trace + payload.chain + payload.report + payload.case
Fits(payload) == Bytes(payload) <= ByteLimit

\* Sizes of what a submission may hold: nothing, a little, more than a message.
Given == [content : {1, 3 * LongExcerpt}, chain : {0, 2}, trace : {0, 1},
          nested : {0, 1, ByteLimit}, report : {1, 2 * ByteLimit}, case : {1, 4}]

NoGiven == [content |-> 0, chain |-> 0, trace |-> 0, nested |-> 0, report |-> 0, case |-> 0]
NoPayload == [excerpt |-> 0, evidence |-> 0, trace |-> 0, chain |-> 0, report |-> 0, case |-> 0]

\* With a call chain the excerpt starts at half; each level halves it again.
ErrorLimit(given, level) ==
    LET first == IF given.chain > 0 THEN LongExcerpt \div 2 ELSE LongExcerpt
        once == Greater(LeastExcerpt, first \div 2)
    IN  <<first, once, Greater(LeastExcerpt, once \div 2)>>[level]

\* Fewer items on each level; what is nested in an item keeps its size.
CompactEvidence(given, level) == <<3, 2, 1>>[level] * given.nested

Composed(given, level) ==
    [excerpt |-> Truncated(given.content, ErrorLimit(given, level)),
     evidence |-> CompactEvidence(given, level),
     trace |-> given.trace, chain |-> given.chain, report |-> given.report, case |-> given.case]

\* Faulty: the report is kept with all that is nested in it.
Shrunk_KeepsReport(payload, step) ==
    CASE step = 1 -> [payload EXCEPT !.evidence = 0]
      [] step = 2 -> [payload EXCEPT !.trace = 0]
      [] step = 3 -> [payload EXCEPT !.chain = Lesser(@, 1)]
      [] step = 4 -> [payload EXCEPT !.chain = 0]
      [] OTHER -> [payload EXCEPT !.case = Small]

\* What is given up, in this order.
Shrunk(payload, step) ==
    CASE step = 1 -> [payload EXCEPT !.evidence = 0]
      [] step = 2 -> [payload EXCEPT !.trace = 0]
      [] step = 3 -> [payload EXCEPT !.chain = Lesser(@, 1)]
      [] step = 4 -> [payload EXCEPT !.chain = 0]
      [] step = 5 -> [payload EXCEPT !.report = Small]
      [] step = 6 -> [payload EXCEPT !.case = Small]

SendPayload(payload) == draft' = [draft EXCEPT !.payload = payload, !.pc = "sent"]

BeginPayload ==
    /\ draft.pc = "idle"
    /\ \E given \in Given :
          draft' = [pc |-> "compose", step |-> 1, given |-> given, payload |-> NoPayload]

ComposePayload ==
    /\ draft.pc = "compose"
    /\ LET payload == Composed(draft.given, draft.step)
       IN  IF Fits(payload) THEN SendPayload(payload)
           ELSE draft' = [draft EXCEPT !.payload = payload,
                              !.pc = IF draft.step < 3 THEN "compose" ELSE "shrink",
                              !.step = IF draft.step < 3 THEN @ + 1 ELSE 1]

ShrinkPayload ==
    /\ draft.pc = "shrink"
    /\ IF Fits(draft.payload) THEN SendPayload(draft.payload)
       ELSE draft' = [draft EXCEPT !.payload = Shrunk(@, draft.step),
                          !.pc = IF draft.step < 6 THEN "shrink" ELSE "halve",
                          !.step = IF draft.step < 6 THEN @ + 1 ELSE 1]

\* The note makes the excerpt longer than the floor again, so the loop ends only by fitting once
\* it has cut that far.
HalveExcerpt ==
    /\ draft.pc = "halve"
    /\ IF ~Fits(draft.payload) /\ draft.payload.excerpt > Floor
       THEN draft' = [draft EXCEPT !.payload.excerpt = Truncated(@, Greater(Floor, @ \div 2))]
       ELSE draft' = [draft EXCEPT !.pc = "bare"]

BarePayload ==
    /\ draft.pc = "bare"
    /\ SendPayload(IF Fits(draft.payload) THEN draft.payload
            ELSE [NoPayload EXCEPT !.excerpt = Truncated(draft.given.content, Small),
                                   !.report = Small, !.case = Small])

PayloadInit == draft = [pc |-> "idle", step |-> 1, given |-> NoGiven, payload |-> NoPayload]
PayloadNext == BeginPayload \/ ComposePayload \/ ShrinkPayload \/ HalveExcerpt \/ BarePayload
PayloadSpec == PayloadInit /\ [][PayloadNext]_draft /\ WF_draft(PayloadNext)

PayloadTypeOK ==
    /\ draft.pc \in {"idle", "compose", "shrink", "halve", "bare", "sent"}
    /\ draft.step \in 1 .. 6
    /\ draft.payload \in Payload

\* Whatever a submission holds, a payload is sent in the end and is within the limit of a message:
\* in particular the loop that halves the excerpt ends (_build_llm_error_chat_payload).
PayloadSent == draft.pc = "compose" ~> draft.pc = "sent" /\ Fits(draft.payload)

=============================================================================
