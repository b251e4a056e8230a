--------------------------- MODULE GatewayProofs ---------------------------
(***************************************************************************)
(* Theorems about the WebSocket control plane: its tables stay in step,    *)
(* write tools run with an approval of their own, and a broadcast that     *)
(* ends without an error has left nobody out.                              *)
(***************************************************************************)
EXTENDS Gateway, FiniteSetTheorems, TLAPS

\* A coroutine has begun when its connection was accepted, and connections are
\* listed afterwards only.
Joined ==
    /\ \A c \in Conn : link[c] = "none" <=> At(c, "new")
    /\ \A c \in table : link[c] # "none"

\* Who is in the audience of an event still has the subscription that made it so,
\* as long as it is listed.
AudienceListens ==
    \A e \in Event : \A c \in audience[e] :
        link[c] # "none" /\ (c \in table => Subscribed(wanted[c], events[e]))

\* An approval that is approved was approved once.
ApprovedWas ==
    \A i \in 1 .. Len(approvals) : approvals[i].status = "approved" => "approved" \in approvals[i].was

\* A walk is about an event that was published.
Walking == \A x \in Task : At(x, "walk") => task[x].event \in Event

\* What a walk has passed it has sent, to whom it had to.
PassedServed ==
    \A x \in Task : At(x, "walk") =>
        \A c \in task[x].passed \cap audience[task[x].event] :
            link[c] = "open" /\ c \in table => task[x].event \in got[c]

-----------------------------------------------------------------------------
(* Types.                                                                  *)

Pc == {"new", "hello", "receive", "send", "walk", "done", "crashed", "error"}
Frames == [pc : Pc, event : Event \cup {0}, size : Nat,
           passed : SUBSET Conn, failed : SUBSET Conn]

LEMMA ListedFinite == ASSUME NEW S \in SUBSET Conn PROVE Cardinality(S) \in Nat
<1>1. IsFiniteSet(Conn)
  BY GatewayAssumption, FS_Interval DEF GatewayAssumption, Conn
<1>2. IsFiniteSet(S)
  BY <1>1, FS_Subset
<1> QED
  BY <1>2, FS_CardinalityType

LEMMA IdleFrame == ASSUME NEW p \in Pc PROVE Idle(p) \in Frames
  BY DEF Idle, Frames, Event

LEMMA InitTyped == Init => TypeOK
<1> SUFFICES ASSUME Init PROVE TypeOK
  OBVIOUS
<1> USE GatewayAssumption DEF GatewayAssumption, Init, Event
<1>1. /\ link \in [Conn -> {"none", "open", "gone"}]
      /\ table \subseteq Conn /\ wanted \in [Conn -> SUBSET Pattern]
      /\ clients \subseteq Conn /\ registry \in [Conn -> SUBSET Pattern]
      /\ inbox \in [Conn -> 0 .. MaxInbox]
  OBVIOUS
<1>2. /\ events \in Seq(Topic) /\ audience \in Seq(SUBSET Conn) /\ Len(audience) = Len(events)
      /\ got \in [Conn -> SUBSET Event]
  OBVIOUS
<1>3. task \in [Task -> Frames]
  BY DEF Idle, Frames, Pc
<1>4. /\ approvals \in Seq([call : Call, status : {"pending", "approved", "rejected"},
                            was : SUBSET {"approved", "rejected"}])
      /\ ran \subseteq Call \X (1 .. Len(approvals))
      /\ requests \in 0 .. MaxRequests
  OBVIOUS
<1> QED
  BY <1>1, <1>2, <1>3, <1>4 DEF TypeOK, Frames, Pc

\* The type invariant in parts: what the actions change together.
Tables ==
    /\ table \subseteq Conn /\ wanted \in [Conn -> SUBSET Pattern]
    /\ clients \subseteq Conn /\ registry \in [Conn -> SUBSET Pattern]
    /\ inbox \in [Conn -> 0 .. MaxInbox]
Events ==
    /\ events \in Seq(Topic) /\ audience \in Seq(SUBSET Conn) /\ Len(audience) = Len(events)
    /\ got \in [Conn -> SUBSET Event]
Approvals ==
    /\ approvals \in Seq([call : Call, status : {"pending", "approved", "rejected"},
                           was : SUBSET {"approved", "rejected"}])
    /\ ran \subseteq Call \X (1 .. Len(approvals))
Types ==
    /\ link \in [Conn -> {"none", "open", "gone"}] /\ Tables
    /\ Events /\ task \in [Task -> Frames] /\ Approvals /\ requests \in 0 .. MaxRequests

LEMMA SameTypes == TypeOK <=> Types
  BY DEF TypeOK, Types, Tables, Events, Approvals, Frames, Pc

LEMMA RemovedTyped ==
    ASSUME Tables, NEW gone, Removed(gone) PROVE Tables'
  BY GatewayAssumption DEF GatewayAssumption, Tables, Removed

LEMMA GotoTyped ==
    ASSUME Types, NEW x \in Task, NEW p \in Pc, Goto(x, p), UNCHANGED events
    PROVE  (task \in [Task -> Frames])'
  BY IdleFrame DEF Types, Goto, Frames, Event

LEMMA ReceiveTyped ==
    ASSUME Types, NEW c \in Conn, Receive(c) PROVE requests' \in 0 .. MaxRequests
  BY GatewayAssumption DEF GatewayAssumption, Types, Receive

LEMMA EnforceTyped ==
    ASSUME Approvals, NEW call \in Call, NEW i, Enforce(call, i) PROVE Approvals'
<1>1. CASE IsApprovedFor(i, call) /\ ran' = ran \cup {<<call, i>>} /\ UNCHANGED approvals
  BY <1>1 DEF IsApprovedFor, Approvals
<1>2. CASE AskApproval(call) /\ UNCHANGED ran
  BY <1>2 DEF AskApproval, Approvals
<1> QED
  BY <1>1, <1>2 DEF Enforce

LEMMA DecidedTyped ==
    ASSUME Approvals, NEW i \in 1 .. Len(approvals), NEW d \in {"approved", "rejected"},
           approvals' = Decided(i, d), ran' = ran
    PROVE  Approvals'
<1> DEFINE R == [call : Call, status : {"pending", "approved", "rejected"},
                 was : SUBSET {"approved", "rejected"}]
           r == [call |-> approvals[i].call, status |-> d, was |-> approvals[i].was \cup {d}]
<1>1. approvals \in Seq(R)
  BY DEF Approvals
<1> HIDE DEF R
<1>2. approvals[i] \in R
  BY <1>1
<1>3. r \in R
  BY <1>2 DEF R
<1>4. approvals' = [approvals EXCEPT ![i] = r]
  BY DEF Decided
<1> HIDE DEF r
<1>5. approvals' \in Seq(R) /\ Len(approvals') = Len(approvals)
  BY <1>1, <1>3, <1>4
<1> QED
  BY <1>5 DEF R, Approvals

LEMMA PassedTyped ==
    ASSUME NEW f \in Frames, NEW P \in SUBSET Conn, NEW F \in SUBSET Conn
    PROVE  [f EXCEPT !.passed = P, !.failed = F] \in Frames
  BY DEF Frames

LEMMA PublishTyped ==
    ASSUME Types, NEW x \in Task, NEW t \in Topic, Publish(x, t)
    PROVE  Tables' /\ Events' /\ (task \in [Task -> Frames])' /\ link' = link /\ Approvals'
<1> USE DEF Types, Publish
<1>1. Tables'
  BY GatewayAssumption DEF GatewayAssumption, Tables, Delivered, transport
<1>2. Events' /\ Len(events') = Len(events) + 1 /\ Event \subseteq Event'
  BY DEF Events, Event, Tables
<1>3. Cardinality(table) \in Nat
  BY ListedFinite DEF Tables
<1>4. task' \in [Task -> Frames']
  <2> DEFINE f == [Idle("walk") EXCEPT !.event = Len(events) + 1, !.size = Cardinality(table)]
  <2>1. Len(events) + 1 \in Event' /\ Cardinality(table) \in Nat
    BY <1>2, <1>3 DEF Event, Events
  <2>2. f \in Frames'
    BY <2>1 DEF Frames, Idle, Pc
  <2>3. Frames \subseteq Frames'
    BY <1>2 DEF Frames
  <2> QED
    BY <2>2, <2>3
<1> QED
  BY <1>1, <1>2, <1>4 DEF transport, policy, Approvals

LEMMA StepTyped == TypeOK /\ Walking /\ [Next]_vars => TypeOK'
<1> SUFFICES ASSUME Types, Walking, [Next]_vars PROVE Types'
  BY SameTypes DEF TypeOK, Types, Tables, Events, Approvals, Frames, Pc
<1> USE DEF Task, Pc
<1>1. ASSUME NEW c \in Conn, Accept(c) PROVE Types'
  <2>1. (task \in [Task -> Frames])'
    BY <1>1, GotoTyped DEF Accept, history
  <2> QED
    BY <1>1, <2>1 DEF Accept, Types, Tables, Events, Approvals, history, policy, Event
<1>2. ASSUME NEW c \in Conn, ClientGoes(c) PROVE Types'
  BY <1>2 DEF ClientGoes, Types, Tables, Events, Approvals, server, history, policy, Event, Frames
<1>3. ASSUME NEW c \in Conn, HeartbeatFails(c) PROVE Types'
  <2>1. Tables'
    BY <1>3, RemovedTyped DEF HeartbeatFails, Types
  <2> QED
    BY <1>3, <2>1 DEF HeartbeatFails, Types, Events, Approvals, history, policy, Event, Frames
<1>4. ASSUME NEW c \in Conn, Hello(c) PROVE Types'
  <2>1. (task \in [Task -> Frames])'
    BY <1>4, GotoTyped DEF Hello, history
  <2> QED
    BY <1>4, <2>1 DEF Hello, Types, Tables, Events, Approvals, transport, server, history, policy, Event
<1>5. ASSUME NEW c \in Conn, Disconnect(c) PROVE Types'
  <2>1. (task \in [Task -> Frames])' /\ Tables'
    BY <1>5, GotoTyped, RemovedTyped DEF Disconnect, Leave, history, Types
  <2> QED
    BY <1>5, <2>1 DEF Disconnect, Leave, Types, Events, Approvals, history, policy, Event
<1>6. ASSUME NEW c \in Conn, Send(c) PROVE Types'
  <2>1. (task \in [Task -> Frames])'
    BY <1>6, GotoTyped DEF Send, Leave, history
  <2>2. Tables'
    BY <1>6, RemovedTyped DEF Send, Leave, Types, transport, server, Tables
  <2> QED
    BY <1>6, <2>1, <2>2 DEF Send, Leave, Types, Events, Approvals, transport, history, policy, Event
<1>7. ASSUME NEW c \in Conn, Frame(c) PROVE Types'
  <2>1. ASSUME NEW p \in Pattern, SubscribeFrame(c, p) PROVE Types'
    <3>1. (task \in [Task -> Frames])' /\ requests' \in 0 .. MaxRequests
      BY <2>1, GotoTyped, ReceiveTyped DEF SubscribeFrame, history
    <3> QED
      BY <2>1, <3>1 DEF SubscribeFrame, Types, Tables, Events, Approvals, history, policy, Event
  <2>2. ASSUME NEW p \in Pattern, UnsubscribeFrame(c, p) PROVE Types'
    <3>1. (task \in [Task -> Frames])' /\ requests' \in 0 .. MaxRequests
      BY <2>2, GotoTyped, ReceiveTyped DEF UnsubscribeFrame
    <3>2. Tables'
      BY <2>2 DEF UnsubscribeFrame, Types, Tables
    <3>3. Events'
      BY <2>2 DEF UnsubscribeFrame, Types, Events, Event
    <3> QED
      BY <2>2, <3>1, <3>2, <3>3 DEF UnsubscribeFrame, Types, Approvals, policy
  <2>3. ASSUME NEW d \in Conn, NEW p \in Pattern,
               SubscribeMethod(c, d, p) \/ UnsubscribeMethod(c, d, p)
        PROVE  Types'
    <3>1. (task \in [Task -> Frames])' /\ requests' \in 0 .. MaxRequests
      BY <2>3, GotoTyped, ReceiveTyped
      DEF SubscribeMethod, UnsubscribeMethod, Admitted, history
    <3>2. Tables'
      BY <2>3 DEF SubscribeMethod, UnsubscribeMethod, Types, Tables, transport
    <3> QED
      BY <2>3, <3>1, <3>2
      DEF SubscribeMethod, UnsubscribeMethod, Types, Events, Approvals, transport, history,
          policy, Event
  <2>4. ASSUME NEW t \in Topic, PublishMethod(c, t) PROVE Types'
    BY <2>4, PublishTyped, ReceiveTyped DEF PublishMethod, Admitted, Types
  <2>5. ASSUME NEW call \in Call, NEW i \in 0 .. Len(approvals), Invoke(c, call, i)
        PROVE  Types'
    <3>1. (task \in [Task -> Frames])' /\ requests' \in 0 .. MaxRequests
      BY <2>5, GotoTyped, ReceiveTyped DEF Invoke, Admitted, history
    <3>2. Approvals'
      BY <2>5, EnforceTyped DEF Invoke, Types
    <3> QED
      BY <2>5, <3>1, <3>2 DEF Invoke, Types, Tables, Events, transport, server, history, Event
  <2>6. ASSUME NEW i \in 1 .. Len(approvals), NEW d \in {"approved", "rejected"},
               Decide(c, i, d)
        PROVE  Types'
    <3>1. (task \in [Task -> Frames])' /\ requests' \in 0 .. MaxRequests
      BY <2>6, GotoTyped, ReceiveTyped DEF Decide, Admitted, history
    <3>2. Approvals'
      BY <2>6, DecidedTyped DEF Decide, Types
    <3> QED
      BY <2>6, <3>1, <3>2 DEF Decide, Types, Tables, Events, transport, server, history, Event
  <2> QED
    BY <1>7, <2>1, <2>2, <2>3, <2>4, <2>5, <2>6 DEF Frame
<1>8. ASSUME NEW h \in Caller, NEW t \in Topic, CaseCompleted(h, t) PROVE Types'
  BY <1>8, PublishTyped DEF CaseCompleted, Types
<1>9. ASSUME NEW h \in Caller, NEW call \in Call, CaseInvokes(h, call) PROVE Types'
  <2>1. Approvals'
    BY <1>9, EnforceTyped DEF CaseInvokes, Types
  <2> QED
    BY <1>9, <2>1
    DEF CaseInvokes, Types, Tables, Events, transport, server, history, Event, Frames
<1>10. ASSUME NEW x \in Task, Walk(x) PROVE Types'
  <2>1. CASE Deliver(x)
    <3>1. PICK c \in First(Remaining(x)) :
        /\ got' = IF link[c] = "open" THEN [got EXCEPT ![c] = @ \cup {task[x].event}] ELSE got
        /\ task' = [task EXCEPT ![x].passed = @ \cup {d \in table : d <= c},
                                ![x].failed = IF link[c] = "open" THEN @ ELSE @ \cup {c}]
      BY <2>1 DEF Deliver
    <3>2. c \in table /\ c \in Conn
      BY <3>1 DEF First, Remaining, Types, Tables
    <3>3. (task \in [Task -> Frames])'
      <4> DEFINE f == [task[x] EXCEPT !.passed = @ \cup {d \in table : d <= c},
                                      !.failed = IF link[c] = "open" THEN @ ELSE @ \cup {c}]
      <4>1. f \in Frames
        <5>1. task[x] \in Frames
          BY DEF Types
        <5>2. /\ task[x].passed \cup {d \in table : d <= c} \in SUBSET Conn
              /\ (IF link[c] = "open" THEN task[x].failed ELSE task[x].failed \cup {c})
                     \in SUBSET Conn
          BY <3>2, <5>1 DEF Frames, Types, Tables
        <5> QED
          BY <5>1, <5>2, PassedTyped
      <4>2. task' = [task EXCEPT ![x] = f]
        BY <3>1
      <4>3. Frames' = Frames
        BY <2>1 DEF Deliver, Frames, Event
      <4> HIDE DEF f
      <4> QED
        BY <4>1, <4>2, <4>3 DEF Types
    <3>4. Events'
      <4>1. task[x].event \in Event
        BY <2>1 DEF Deliver, Walking
      <4>2. got' \in [Conn -> SUBSET Event]
        BY <3>1, <3>2, <4>1 DEF Types, Events
      <4> QED
        BY <2>1, <4>2 DEF Deliver, Types, Events, Event
    <3> QED
      BY <2>1, <3>3, <3>4 DEF Deliver, Types, Tables, Approvals, transport, server, policy
  <2>2. CASE EndWalk(x)
    <3>1. (task \in [Task -> Frames])' /\ Tables'
      BY <2>2, GotoTyped, RemovedTyped DEF EndWalk, Types, history
    <3> QED
      BY <2>2, <3>1 DEF EndWalk, Types, Events, Approvals, history, policy, Event
  <2>3. CASE BreakWalk(x)
    <3>1. (task \in [Task -> Frames])'
      BY <2>3, GotoTyped DEF BreakWalk, Leave, history
    <3>2. Tables'
      BY <2>3, RemovedTyped DEF BreakWalk, Leave, Types, transport, server, Tables
    <3> QED
      BY <2>3, <3>1, <3>2
      DEF BreakWalk, Leave, Types, Events, Approvals, transport, history, policy, Event
  <2> QED
    BY <1>10, <2>1, <2>2, <2>3 DEF Walk
<1>11. CASE UNCHANGED vars
  BY <1>11 DEF vars, transport, server, history, policy, Types, Tables, Events, Approvals,
               Event, Frames
<1> QED
  BY <1>1, <1>2, <1>3, <1>4, <1>5, <1>6, <1>7, <1>8, <1>9, <1>10, <1>11 DEF Next, Endpoint

-----------------------------------------------------------------------------
(* The tables.                                                             *)

\* Who is where in the two tables, and which coroutines have begun and ended.
Settled == Joined /\ TablesAgree

\* Where the coroutines are after a step in which x went to p.
Reaches(x, p) == x \in Task /\ \A y \in Task : task'[y].pc = IF y = x THEN p ELSE task[y].pc

LEMMA GotoReaches ==
    ASSUME TypeOK, NEW x \in Task, NEW p, Goto(x, p) PROVE Reaches(x, p)
  BY DEF TypeOK, Goto, Idle, Reaches

LEMMA PublishReaches ==
    ASSUME TypeOK, NEW x \in Task, NEW t, Publish(x, t) PROVE Reaches(x, "walk")
  BY DEF TypeOK, Publish, Idle, Reaches

LEMMA DeliverReaches ==
    ASSUME TypeOK, NEW x \in Task, Deliver(x) PROVE Reaches(x, "walk")
  BY DEF TypeOK, Deliver, Reaches, At

\* A step in which a coroutine that had begun goes on, or comes to its end and is removed.
LEMMA GoesOn ==
    ASSUME TypeOK, Settled, NEW x, NEW p, Reaches(x, p),
           x \in Conn => ~ At(x, "new") /\ p # "new" /\ (p = "done" => x \notin table'),
           link' \in [Conn -> {"none", "open", "gone"}],
           \A c \in Conn : link'[c] = "none" <=> link[c] = "none",
           table' \subseteq table, NoGhostClient'
    PROVE  Settled'
<1>1. Joined'
  BY DEF Settled, Joined, At, TypeOK, Task, Reaches
<1>2. ASSUME NEW c \in Conn, At(c, "done")' PROVE c \notin table'
  <2>1. CASE c = x
    BY <1>2, <2>1 DEF Reaches, At
  <2>2. CASE c # x
    BY <1>2, <2>2 DEF Reaches, At, Task, Settled, TablesAgree, EndedForgotten
  <2> QED
    BY <2>1, <2>2
<1>3. EndedForgotten'
  BY <1>2 DEF EndedForgotten, NoGhostClient
<1> QED
  BY <1>1, <1>3 DEF Settled, TablesAgree

LEMMA RemovedAgree ==
    ASSUME TypeOK, NoGhostClient, NEW gone, Removed(gone)
    PROVE  NoGhostClient' /\ table' = table \ gone
  BY DEF TypeOK, NoGhostClient, Removed

LEMMA StepSettled == TypeOK /\ Settled /\ [Next]_vars => Settled'
<1> SUFFICES ASSUME TypeOK, Settled, [Next]_vars PROVE Settled'
  OBVIOUS
<1> USE DEF Task
<1>0. NoGhostClient
  BY DEF Settled, TablesAgree
<1>1. ASSUME NEW c \in Conn, Accept(c) PROVE Settled'
  <2>1. Reaches(c, "hello") /\ c \notin table
    BY <1>1, GotoReaches DEF Accept, Settled, Joined
  <2>2. Joined'
    BY <1>1, <2>1 DEF Accept, Settled, Joined, At, TypeOK, Reaches
  <2>3. NoGhostClient'
    BY <1>0, <1>1 DEF Accept, NoGhostClient, TypeOK
  <2>4. EndedForgotten'
    BY <1>1, <2>1, <2>3
    DEF Accept, Settled, TablesAgree, EndedForgotten, NoGhostClient, At, TypeOK, Reaches
  <2> QED
    BY <2>2, <2>3, <2>4 DEF Settled, TablesAgree
<1>2. ASSUME NEW c \in Conn, ClientGoes(c) PROVE Settled'
  BY <1>2 DEF ClientGoes, Settled, Joined, TablesAgree, NoGhostClient, EndedForgotten, At,
              TypeOK, server
<1>3. ASSUME NEW c \in Conn, HeartbeatFails(c) PROVE Settled'
  BY <1>0, <1>3, RemovedAgree
  DEF HeartbeatFails, Settled, Joined, TablesAgree, NoGhostClient, EndedForgotten, At, TypeOK
<1>4. ASSUME NEW c \in Conn, Hello(c) PROVE Settled'
  <2>1. Reaches(c, "receive") \/ Reaches(c, "crashed")
    BY <1>4, GotoReaches DEF Hello
  <2> QED
    BY <1>0, <1>4, <2>1, GoesOn DEF Hello, transport, server, NoGhostClient, At, TypeOK
<1>5. ASSUME NEW c \in Conn, Leave(c), ~ At(c, "new"), link[c] # "none" PROVE Settled'
  <2>1. Reaches(c, "done") /\ NoGhostClient' /\ table' = table \ {c}
    BY <1>0, <1>5, GotoReaches, RemovedAgree DEF Leave
  <2> QED
    BY <1>5, <2>1, GoesOn DEF Leave, TypeOK
<1>6. ASSUME NEW c \in Conn, Disconnect(c) \/ Send(c) PROVE Settled'
  <2>1. CASE Leave(c)
    BY <1>5, <1>6, <2>1 DEF Disconnect, Send, At
  <2>2. CASE Goto(c, "receive") /\ UNCHANGED <<transport, server>> /\ ~ At(c, "new")
    BY <1>0, <2>2, GotoReaches, GoesOn DEF transport, server, NoGhostClient, TypeOK
  <2> QED
    BY <1>6, <2>1, <2>2 DEF Disconnect, Send, At
<1>7. ASSUME NEW c \in Conn, Frame(c) PROVE Settled'
  <2>1. Receive(c) /\ c \in table /\ ~ At(c, "new")
    BY <1>7 DEF Frame, SubscribeFrame, UnsubscribeFrame, SubscribeMethod, UnsubscribeMethod,
                PublishMethod, Invoke, Decide, Admitted, Receive, At
  <2>2. /\ link' = link /\ table' = table /\ clients' = clients
        /\ Reaches(c, "send") \/ Reaches(c, "walk")
    <3>1. CASE \E p \in Pattern : SubscribeFrame(c, p) \/ UnsubscribeFrame(c, p)
      BY <3>1, <2>1, <1>0, GotoReaches DEF SubscribeFrame, UnsubscribeFrame, NoGhostClient
    <3>2. CASE \E e \in Conn, p \in Pattern :
                   SubscribeMethod(c, e, p) \/ UnsubscribeMethod(c, e, p)
      BY <3>2, GotoReaches DEF SubscribeMethod, UnsubscribeMethod, transport
    <3>3. CASE \E t \in Topic : PublishMethod(c, t)
      BY <3>3, PublishReaches DEF PublishMethod, Publish, transport
    <3>4. CASE \/ \E call \in Call, i \in 0 .. Len(approvals) : Invoke(c, call, i)
               \/ \E i \in 1 .. Len(approvals), e \in {"approved", "rejected"} : Decide(c, i, e)
      BY <3>4, GotoReaches DEF Invoke, Decide, transport, server
    <3> QED
      BY <1>7, <3>1, <3>2, <3>3, <3>4 DEF Frame
  <2>3. \A d \in Conn \ clients :
            registry'[d] = registry[d] /\ wanted'[d] = wanted[d] /\ inbox'[d] = inbox[d]
    <3> SUFFICES ASSUME NEW d \in Conn \ clients
                 PROVE  registry'[d] = registry[d] /\ wanted'[d] = wanted[d]
                          /\ inbox'[d] = inbox[d]
      OBVIOUS
    <3>1. c # d /\ registry[d] = {}
      BY <1>0, <2>1 DEF NoGhostClient
    <3>2. CASE \E p \in Pattern : SubscribeFrame(c, p) \/ UnsubscribeFrame(c, p)
      BY <3>1, <3>2 DEF SubscribeFrame, UnsubscribeFrame, TypeOK
    <3>3. CASE \E e \in Conn, p \in Pattern :
                   SubscribeMethod(c, e, p) \/ UnsubscribeMethod(c, e, p)
      <4>1. PICK e \in Conn, p \in Pattern : SubscribeMethod(c, e, p) \/ UnsubscribeMethod(c, e, p)
        BY <3>3
      <4>2. wanted' = wanted /\ inbox' = inbox /\ registry \in [Conn -> SUBSET Pattern]
        BY <4>1 DEF SubscribeMethod, UnsubscribeMethod, transport, TypeOK
      <4>3. CASE SubscribeMethod(c, e, p)
        BY <3>1, <4>2, <4>3 DEF SubscribeMethod
      <4>4. CASE UnsubscribeMethod(c, e, p)
        BY <3>1, <4>2, <4>4 DEF UnsubscribeMethod
      <4> QED
        BY <4>1, <4>3, <4>4
    <3>4. CASE \E t \in Topic : PublishMethod(c, t)
      BY <3>4 DEF PublishMethod, Publish, Delivered, transport
    <3>5. CASE \/ \E call \in Call, i \in 0 .. Len(approvals) : Invoke(c, call, i)
               \/ \E i \in 1 .. Len(approvals), e \in {"approved", "rejected"} : Decide(c, i, e)
      BY <3>5 DEF Invoke, Decide, transport, server
    <3> QED
      BY <1>7, <3>2, <3>3, <3>4, <3>5 DEF Frame
  <2> QED
    BY <2>1, <2>2, <2>3, <1>0, GoesOn DEF NoGhostClient, TypeOK
<1>8. ASSUME NEW h \in Caller, NEW t \in Topic, CaseCompleted(h, t) PROVE Settled'
  <2>1. Reaches(h, "walk") /\ h \notin Conn
    BY <1>8, PublishReaches, GatewayAssumption DEF CaseCompleted, GatewayAssumption
  <2>2. NoGhostClient' /\ link' = link /\ table' = table
    BY <1>0, <1>8 DEF CaseCompleted, Publish, Delivered, NoGhostClient, transport, TypeOK
  <2> QED
    BY <2>1, <2>2, GoesOn DEF TypeOK, Reaches, At
<1>9. ASSUME NEW h \in Caller, NEW call \in Call, CaseInvokes(h, call) PROVE Settled'
  BY <1>9 DEF CaseInvokes, Settled, Joined, TablesAgree, NoGhostClient, EndedForgotten, At,
              TypeOK, transport, server
<1>10. ASSUME NEW x \in Task, Deliver(x) PROVE Settled'
  <2>1. Reaches(x, "walk") /\ ~ At(x, "new")
    BY <1>10, DeliverReaches DEF Deliver, At
  <2>2. NoGhostClient' /\ link' = link /\ table' = table
    BY <1>0, <1>10 DEF Deliver, NoGhostClient, transport, server
  <2> QED
    BY <2>1, <2>2, GoesOn DEF TypeOK, Reaches, At
<1>11. ASSUME NEW x \in Task, EndWalk(x) PROVE Settled'
  <2>1. NoGhostClient' /\ link' = link /\ table' = table \ task[x].failed
    BY <1>0, <1>11, RemovedAgree DEF EndWalk
  <2>2. ~ At(x, "new") /\ IF x \in Conn THEN Reaches(x, "send") ELSE Reaches(x, "done")
    BY <1>11, GotoReaches DEF EndWalk, At
  <2> QED
    BY <2>1, <2>2, GoesOn DEF TypeOK, Reaches, At
<1>12. ASSUME NEW x \in Task, BreakWalk(x) PROVE Settled'
  <2>1. CASE x \in Conn /\ Leave(x)
    BY <1>5, <1>12, <2>1 DEF BreakWalk, At, Settled, Joined
  <2>2. CASE x \in Caller /\ Goto(x, "error") /\ UNCHANGED <<transport, server>>
    <3>1. Reaches(x, "error") /\ x \notin Conn
      BY <2>2, GotoReaches, GatewayAssumption DEF GatewayAssumption
    <3>2. NoGhostClient' /\ link' = link /\ table' = table
      BY <1>0, <2>2 DEF NoGhostClient, transport, server
    <3> QED
      BY <3>1, <3>2, GoesOn DEF TypeOK, Reaches, At
  <2> QED
    BY <1>12, <2>1, <2>2 DEF BreakWalk
<1>13. CASE UNCHANGED vars
  BY <1>13 DEF vars, transport, server, Settled, Joined, TablesAgree, NoGhostClient,
               EndedForgotten, At
<1> QED
  BY <1>1, <1>2, <1>3, <1>4, <1>6, <1>7, <1>8, <1>9, <1>10, <1>11, <1>12, <1>13
  DEF Next, Endpoint, Walk

-----------------------------------------------------------------------------
(* Approvals.                                                              *)

LEMMA EnforceBacked ==
    ASSUME TypeOK, ExecutionBacked, ApprovedWas, NEW call \in Call, NEW i, Enforce(call, i)
    PROVE  ExecutionBacked' /\ ApprovedWas'
<1>1. CASE IsApprovedFor(i, call) /\ ran' = ran \cup {<<call, i>>} /\ UNCHANGED approvals
  BY <1>1 DEF IsApprovedFor, ExecutionBacked, ApprovedWas
<1>2. CASE AskApproval(call) /\ UNCHANGED ran
  BY <1>2 DEF AskApproval, ExecutionBacked, ApprovedWas, TypeOK
<1> QED
  BY <1>1, <1>2 DEF Enforce

LEMMA StepBacked ==
    TypeOK /\ ExecutionBacked /\ ApprovedWas /\ [Next]_vars => ExecutionBacked' /\ ApprovedWas'
<1> SUFFICES ASSUME TypeOK, ExecutionBacked, ApprovedWas, [Next]_vars
             PROVE  ExecutionBacked' /\ ApprovedWas'
  OBVIOUS
<1>1. ASSUME NEW c \in Conn, NEW call \in Call, NEW i \in 0 .. Len(approvals), Invoke(c, call, i)
      PROVE  ExecutionBacked' /\ ApprovedWas'
  BY <1>1, EnforceBacked DEF Invoke
<1>2. ASSUME NEW h \in Caller, NEW call \in Call, CaseInvokes(h, call)
      PROVE  ExecutionBacked' /\ ApprovedWas'
  BY <1>2, EnforceBacked DEF CaseInvokes
<1>3. ASSUME NEW c \in Conn, NEW i \in 1 .. Len(approvals), NEW d \in {"approved", "rejected"},
             Decide(c, i, d)
      PROVE  ExecutionBacked' /\ ApprovedWas'
  <2>1. /\ ran' = ran /\ Len(approvals') = Len(approvals)
        /\ \A j \in 1 .. Len(approvals) :
               /\ approvals'[j].call = approvals[j].call
               /\ approvals'[j].was = IF j = i THEN approvals[j].was \cup {d} ELSE approvals[j].was
               /\ approvals'[j].status = IF j = i THEN d ELSE approvals[j].status
    <3> DEFINE R == [call : Call, status : {"pending", "approved", "rejected"},
                     was : SUBSET {"approved", "rejected"}]
               r == [call |-> approvals[i].call, status |-> d, was |-> approvals[i].was \cup {d}]
    <3>1. approvals \in Seq(R) /\ approvals' = [approvals EXCEPT ![i] = r] /\ ran' = ran
      BY <1>3 DEF Decide, Decided, TypeOK
    <3> HIDE DEF R
    <3>2. /\ Len(approvals') = Len(approvals)
          /\ \A j \in 1 .. Len(approvals) : approvals'[j] = IF j = i THEN r ELSE approvals[j]
      BY <3>1
    <3>3. r.call = approvals[i].call /\ r.status = d /\ r.was = approvals[i].was \cup {d}
      OBVIOUS
    <3> HIDE DEF r
    <3>4. ASSUME NEW j \in 1 .. Len(approvals)
          PROVE  /\ approvals'[j].call = approvals[j].call
                 /\ approvals'[j].was =
                        IF j = i THEN approvals[j].was \cup {d} ELSE approvals[j].was
                 /\ approvals'[j].status = IF j = i THEN d ELSE approvals[j].status
      <4>1. CASE j = i
        BY <3>2, <3>3, <4>1
      <4>2. CASE j # i
        BY <3>2, <4>2
      <4> QED
        BY <4>1, <4>2
    <3> QED
      BY <3>1, <3>2, <3>4
  <2>2. ApprovedWas'
    <3> SUFFICES ASSUME NEW j \in 1 .. Len(approvals), approvals'[j].status = "approved"
                 PROVE  "approved" \in approvals'[j].was
      BY <2>1 DEF ApprovedWas
    <3> QED
      BY <2>1 DEF ApprovedWas
  <2>3. ASSUME NEW y \in ran PROVE y[2] \in 1 .. Len(approvals)
    BY DEF TypeOK
  <2>4. ExecutionBacked'
    BY <2>1, <2>3 DEF ExecutionBacked
  <2> QED
    BY <2>2, <2>4
<1>4. CASE UNCHANGED policy
  BY <1>4 DEF policy, ExecutionBacked, ApprovedWas
<1> QED
  BY <1>1, <1>2, <1>3, <1>4
  DEF Next, Endpoint, Frame, Walk, Accept, ClientGoes, HeartbeatFails, Hello, Disconnect, Send,
      SubscribeFrame, UnsubscribeFrame, SubscribeMethod, UnsubscribeMethod, PublishMethod,
      CaseCompleted, Publish, Deliver, EndWalk, BreakWalk, vars

-----------------------------------------------------------------------------
(* Broadcasts.                                                             *)

\* Steps that publish nothing, send nothing and take nobody's subscription.
Quiet ==
    /\ UNCHANGED history
    /\ \A c \in Conn : link[c] # "none" => link'[c] # "none" /\ (link'[c] = "open" => link[c] = "open")
    /\ \A c \in table' : c \in table \/ link[c] = "none"
    /\ \A c \in table' : wanted[c] \subseteq wanted'[c]
    /\ \A x \in Task : At(x, "walk")' => At(x, "walk") /\ task'[x] = task[x]

\* What the broadcasts under way have done so far.
Served == Walking /\ AudienceListens /\ PassedServed

LEMMA QuietServed ==
    ASSUME TypeOK, Served, Quiet PROVE Served'
<1>1. Walking'
  BY DEF Served, Quiet, Walking, At, Event, history
<1>2. AudienceListens'
  BY DEF Served, Quiet, AudienceListens, Event, history, Subscribed, TypeOK
<1>3. PassedServed'
  <2> SUFFICES ASSUME NEW x \in Task, At(x, "walk")',
                      NEW c \in task'[x].passed \cap audience'[task'[x].event],
                      link'[c] = "open", c \in table'
               PROVE  task'[x].event \in got'[c]
    BY DEF PassedServed
  <2>1. At(x, "walk") /\ task'[x] = task[x] /\ audience' = audience /\ got' = got
    BY DEF Quiet, history
  <2>2. task[x].event \in Event
    BY <2>1 DEF Served, Walking
  <2>3. c \in Conn /\ link[c] # "none"
    BY <2>1, <2>2 DEF Served, AudienceListens, TypeOK, Event
  <2>4. link[c] = "open" /\ c \in table
    BY <2>3 DEF Quiet
  <2> QED
    BY <2>1, <2>4 DEF Served, PassedServed
<1> QED
  BY <1>1, <1>2, <1>3 DEF Served

LEMMA UnsubscribeServed ==
    ASSUME TypeOK, Served, NEW c \in Conn, NEW p \in Pattern, UnsubscribeFrame(c, p) PROVE Served'
<1> USE DEF UnsubscribeFrame
<1>1. Reaches(c, "send") /\ \A x \in Task : x # c => task'[x] = task[x]
  <2>1. Goto(c, "send") /\ c \in Task
    BY DEF Task
  <2> QED
    BY <2>1, GotoReaches DEF Goto, TypeOK
<1>2. Event' = Event /\ \A e \in Event : audience'[e] \subseteq audience[e]
  BY DEF Event
<1>3. Walking'
  BY <1>1, <1>2 DEF Served, Walking, At, Reaches
<1>4. AudienceListens'
  <2> SUFFICES ASSUME NEW e \in Event, NEW d \in audience'[e], d \in table
               PROVE  Subscribed(wanted'[d], events[e])
    BY <1>2 DEF Served, AudienceListens
  <2>1. CASE d = c
    <3>1. Subscribed(wanted[c] \ {p}, events[e])
      BY <2>1
    <3> QED
      BY <2>1, <3>1 DEF TypeOK
  <2>2. CASE d # c
    BY <1>2, <2>2 DEF Served, AudienceListens, TypeOK
  <2> QED
    BY <2>1, <2>2
<1>5. PassedServed'
  <2> SUFFICES ASSUME NEW x \in Task, At(x, "walk")'
               PROVE  \A d \in task'[x].passed \cap audience'[task'[x].event] :
                          link[d] = "open" /\ d \in table => task'[x].event \in got[d]
    BY DEF PassedServed
  <2>1. At(x, "walk") /\ task'[x] = task[x]
    BY <1>1 DEF At, Reaches
  <2>2. task[x].event \in Event
    BY <2>1 DEF Served, Walking
  <2> QED
    BY <1>2, <2>1, <2>2 DEF Served, PassedServed
<1> QED
  BY <1>3, <1>4, <1>5 DEF Served

LEMMA PublishServed ==
    ASSUME TypeOK, Served, Joined, NEW x \in Task, NEW t \in Topic, Publish(x, t) PROVE Served'
<1> USE DEF Publish, transport
<1> DEFINE n == Len(events) + 1
<1>1. Len(events) \in Nat /\ Len(audience) = Len(events) /\ Event' = Event \cup {n}
        /\ \A e \in Event : e # n /\ events'[e] = events[e] /\ audience'[e] = audience[e]
  BY DEF Event, TypeOK
<1>2. events'[n] = t /\ audience'[n] = {c \in table : Subscribed(wanted[c], t)}
  BY DEF TypeOK
<1>3. /\ task'[x].event = n /\ task'[x].passed = {}
      /\ \A y \in Task : y # x => task'[y] = task[y]
  BY DEF TypeOK, Idle
<1> HIDE DEF n
<1>4. Walking'
  BY <1>1, <1>3 DEF Served, Walking, At
<1>5. AudienceListens'
  <2> SUFFICES ASSUME NEW e \in Event', NEW c \in audience'[e]
               PROVE  link'[c] # "none" /\ (c \in table' => Subscribed(wanted'[c], events'[e]))
    BY DEF AudienceListens, Subscribed
  <2>1. link' = link /\ table' = table /\ wanted' = wanted
    OBVIOUS
  <2>2. CASE e = n
    BY <1>2, <2>1, <2>2 DEF Joined
  <2>3. CASE e \in Event
    BY <1>1, <2>1, <2>3 DEF Served, AudienceListens
  <2> QED
    BY <1>1, <2>2, <2>3
<1>6. PassedServed'
  <2> SUFFICES ASSUME NEW y \in Task, At(y, "walk")', y # x
               PROVE  \A d \in task'[y].passed \cap audience'[task'[y].event] :
                          link[d] = "open" /\ d \in table => task'[y].event \in got[d]
    BY <1>3 DEF PassedServed
  <2>1. At(y, "walk") /\ task'[y] = task[y]
    BY <1>3 DEF At
  <2>2. task[y].event \in Event
    BY <2>1 DEF Served, Walking
  <2> QED
    BY <1>1, <2>1, <2>2 DEF Served, PassedServed
<1> QED
  BY <1>4, <1>5, <1>6 DEF Served

\* Who is in the audience, is listed and was not passed is still to be sent the event.
LEMMA AudienceRemains ==
    ASSUME Served, NEW x \in Task, At(x, "walk"),
           NEW c \in audience[task[x].event], c \in table, c \notin task[x].passed
    PROVE  c \in Remaining(x)
  BY DEF Served, Walking, AudienceListens, Remaining

LEMMA DeliverServed ==
    ASSUME TypeOK, Served, NEW x \in Task, Deliver(x) PROVE Served'
<1> USE DEF transport
<1>1. PICK c \in First(Remaining(x)) :
        /\ got' = IF link[c] = "open" THEN [got EXCEPT ![c] = @ \cup {task[x].event}] ELSE got
        /\ task' = [task EXCEPT ![x].passed = @ \cup {d \in table : d <= c},
                                ![x].failed = IF link[c] = "open" THEN @ ELSE @ \cup {c}]
  BY DEF Deliver
<1>2. /\ At(x, "walk") /\ UNCHANGED <<link, table, wanted, events, audience>> /\ Event' = Event
      /\ c \in Conn
  BY <1>1 DEF Deliver, First, Remaining, TypeOK, Event
<1>3. \A d \in Conn : got[d] \subseteq got'[d]
  BY <1>1, <1>2 DEF TypeOK
<1>4. ASSUME NEW y \in Task
      PROVE  /\ task'[y].pc = task[y].pc /\ task'[y].event = task[y].event
             /\ y # x => task'[y].passed = task[y].passed
  BY <1>1 DEF TypeOK
<1>5. task'[x].passed = task[x].passed \cup {d \in table : d <= c}
  BY <1>1 DEF TypeOK
<1>6. Walking'
  BY <1>2, <1>4 DEF Served, Walking, At
<1>7. AudienceListens'
  BY <1>2 DEF Served, AudienceListens
<1>8. PassedServed'
  <2> SUFFICES ASSUME NEW y \in Task, At(y, "walk"),
                      NEW d \in task'[y].passed \cap audience[task[y].event],
                      link[d] = "open", d \in table
               PROVE  task[y].event \in got'[d]
    BY <1>2, <1>4 DEF PassedServed, At
  <2>1. CASE d \in task[y].passed
    <3>1. task[y].event \in got[d]
      BY <2>1 DEF Served, PassedServed
    <3> QED
      BY <1>3, <3>1 DEF TypeOK
  <2>2. CASE d \notin task[y].passed
    <3>1. y = x /\ d <= c
      BY <1>4, <1>5, <2>2
    <3>2. d \in Remaining(x)
      BY <2>2, <3>1, AudienceRemains
    <3>3. c <= d /\ d \in Conn
      BY <3>2 DEF First, Remaining, TypeOK
    <3>4. d = c
      BY <1>2, <3>1, <3>3, GatewayAssumption DEF GatewayAssumption, Conn
    <3> QED
      BY <1>1, <1>2, <3>1, <3>4 DEF TypeOK
  <2> QED
    BY <2>1, <2>2
<1> QED
  BY <1>6, <1>7, <1>8 DEF Served

LEMMA StepServed == TypeOK /\ Joined /\ Served /\ [Next]_vars => Served'
<1> SUFFICES ASSUME TypeOK, Joined, Served, [Next]_vars PROVE Served'
  OBVIOUS
<1> USE DEF Task
<1>0. ASSUME NEW c \in Conn, Leave(c), UNCHANGED history PROVE Quiet
  BY <1>0 DEF Leave, Removed, Goto, Idle, Quiet, At, TypeOK
<1>1. ASSUME NEW c \in Conn, Accept(c) \/ ClientGoes(c) \/ HeartbeatFails(c) \/ Hello(c)
      PROVE  Quiet
  <2>1. CASE Accept(c)
    BY <2>1 DEF Accept, Goto, Idle, Quiet, At, TypeOK
  <2>2. CASE ClientGoes(c)
    BY <2>2 DEF ClientGoes, Quiet, At, TypeOK
  <2>3. CASE HeartbeatFails(c)
    BY <2>3 DEF HeartbeatFails, Removed, Quiet, At, TypeOK
  <2>4. CASE Hello(c)
    BY <2>4 DEF Hello, Goto, Idle, Quiet, At, transport, TypeOK
  <2> QED
    BY <1>1, <2>1, <2>2, <2>3, <2>4
<1>2. ASSUME NEW c \in Conn, Disconnect(c) \/ Send(c) PROVE Quiet
  <2>1. CASE Leave(c)
    BY <1>0, <1>2, <2>1 DEF Disconnect, Send
  <2>2. CASE Goto(c, "receive") /\ UNCHANGED <<transport, history>>
    BY <2>2 DEF Goto, Idle, Quiet, At, transport, TypeOK
  <2> QED
    BY <1>2, <2>1, <2>2 DEF Disconnect, Send
<1>3. ASSUME NEW x \in Task, EndWalk(x) \/ BreakWalk(x) PROVE Quiet
  <2>1. CASE EndWalk(x)
    BY <2>1 DEF EndWalk, Removed, Goto, Idle, Quiet, At, TypeOK
  <2>2. CASE x \in Conn /\ Leave(x)
    BY <1>0, <1>3, <2>2 DEF EndWalk, BreakWalk
  <2>3. CASE Goto(x, "error") /\ UNCHANGED <<transport, history>>
    BY <2>3 DEF Goto, Idle, Quiet, At, transport, TypeOK
  <2> QED
    BY <1>3, <2>1, <2>2, <2>3 DEF BreakWalk
<1>4. ASSUME NEW c \in Conn, NEW p \in Pattern, SubscribeFrame(c, p) PROVE Quiet
  BY <1>4 DEF SubscribeFrame, Goto, Idle, Quiet, At, TypeOK
<1>5. ASSUME NEW c \in Conn, NEW d \in Conn, NEW p \in Pattern,
             SubscribeMethod(c, d, p) \/ UnsubscribeMethod(c, d, p)
      PROVE  Quiet
  BY <1>5 DEF SubscribeMethod, UnsubscribeMethod, Goto, Idle, Quiet, At, transport, TypeOK
<1>6. ASSUME NEW c \in Conn,
             \/ \E call \in Call, i \in 0 .. Len(approvals) : Invoke(c, call, i)
             \/ \E i \in 1 .. Len(approvals), d \in {"approved", "rejected"} : Decide(c, i, d)
      PROVE  Quiet
  BY <1>6 DEF Invoke, Decide, Goto, Idle, Quiet, At, transport, TypeOK
<1>7. ASSUME NEW h \in Caller, NEW call \in Call, CaseInvokes(h, call) PROVE Quiet
  BY <1>7 DEF CaseInvokes, Quiet, At, transport
<1>8. ASSUME NEW x \in Task, NEW t \in Topic, Publish(x, t) PROVE Served'
  BY <1>8, PublishServed
<1>9. ASSUME UNCHANGED vars PROVE Quiet
  BY <1>9 DEF vars, Quiet, At, transport, server, policy, history
<1> QED
  BY <1>1, <1>2, <1>3, <1>4, <1>5, <1>6, <1>7, <1>8, <1>9, QuietServed, UnsubscribeServed,
     DeliverServed
  DEF Next, Endpoint, Frame, Walk, PublishMethod, CaseCompleted

-----------------------------------------------------------------------------
(* The theorems.                                                           *)

IInv == TypeOK /\ Settled /\ ExecutionBacked /\ ApprovedWas /\ Served

LEMMA InitInv == Init => IInv
<1> SUFFICES ASSUME Init PROVE IInv
  OBVIOUS
<1>1. TypeOK
  BY InitTyped
<1>2. Settled
  BY DEF Init, Settled, Joined, TablesAgree, NoGhostClient, EndedForgotten, At, Idle, Task
<1>3. ExecutionBacked /\ ApprovedWas
  BY DEF Init, ExecutionBacked, ApprovedWas
<1>4. Served
  BY DEF Init, Served, Walking, AudienceListens, PassedServed, At, Idle, Event
<1> QED
  BY <1>1, <1>2, <1>3, <1>4 DEF IInv

LEMMA StepInv == IInv /\ [Next]_vars => IInv'
  BY StepTyped, StepSettled, StepBacked, StepServed DEF IInv, Settled, Served

THEOREM Invariance == Spec => []IInv
  BY InitInv, StepInv, PTL DEF Spec

\* The control plane keeps its types for any number of connections, cases and calls.
THEOREM TypeCorrect == Spec => []TypeOK
<1>1. IInv => TypeOK
  BY DEF IInv
<1> QED
  BY <1>1, Invariance, PTL

\* Transport and server agree on who is connected and forget who is gone.
THEOREM TablesStayInStep == Spec => []TablesAgree
<1>1. IInv => TablesAgree
  BY DEF IInv, Settled
<1> QED
  BY <1>1, Invariance, PTL

\* Every execution of a write tool rests on an approval of that call.
THEOREM ExecutionsBacked == Spec => []ExecutionBacked
<1>1. IInv => ExecutionBacked
  BY DEF IInv
<1> QED
  BY <1>1, Invariance, PTL

\* A broadcast that comes to its end has reached everyone it was meant for.
THEOREM BroadcastsComplete == Spec => BroadcastComplete
<1>1. ASSUME IInv, NEW x \in Task, EndWalk(x), NEW c \in audience[task[x].event],
             link[c] = "open", c \in table
      PROVE  task[x].event \in got[c]
  <2>1. At(x, "walk") /\ Remaining(x) = {} /\ Served
    BY <1>1 DEF EndWalk, IInv
  <2>2. c \in task[x].passed
    BY <1>1, <2>1, AudienceRemains
  <2> QED
    BY <1>1, <2>1, <2>2 DEF Served, PassedServed
<1>2. IInv => [\A x \in Task : EndWalk(x) =>
                  \A c \in audience[task[x].event] :
                      link[c] = "open" /\ c \in table => task[x].event \in got[c]]_vars
  BY <1>1
<1> QED
  BY <1>2, Invariance, PTL DEF BroadcastComplete
=============================================================================
