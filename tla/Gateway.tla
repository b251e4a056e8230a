------------------------------ MODULE Gateway ------------------------------
(***************************************************************************)
(* The WebSocket control plane: rootseeker/gateway, its endpoint and its   *)
(* publishers in apps/api/main.py, and the approvals of write tools that   *)
(* its methods decide (rootseeker/policies, rootseeker/mcp_plane).         *)
(*                                                                         *)
(* Everything runs in one event loop.  A step is what a coroutine does     *)
(* between two awaits that may suspend it; the sends to clients are such   *)
(* awaits, so the table of connections changes while a broadcast walks it. *)
(***************************************************************************)
EXTENDS Integers, Sequences, FiniteSets

CONSTANTS
    MaxConn,     \* connections: each gets an id of its own, in the order of arrival
    Caller,      \* HTTP requests that run a case and publish its completion
    Topic, Wild, \* topics, and a pattern that ends in .* and matches them all
    Pattern,     \* what clients subscribe to
    Call,        \* calls of a write tool: case, step, tool and permission level
    MaxInbox,    \* GatewayBroadcaster.max_inbox_size
    MaxEvents, MaxRequests, MaxApprovals

Conn == 1 .. MaxConn
Task == Conn \cup Caller

GatewayAssumption ==
    /\ Conn \cap Caller = {} /\ Wild \notin Topic
    /\ Pattern \subseteq Topic \cup {Wild}
    /\ {MaxInbox, MaxEvents, MaxRequests, MaxApprovals} \subseteq Nat
    /\ MaxConn \in Nat

ASSUME GatewayAssumption

VARIABLES
    link,       \* state of the client's end: none, open, gone
    table,      \* WebSocketTransport._connections: ids are in the order of insertion
    wanted,     \* subscriptions of a connection in the transport
    clients,    \* GatewayServer.connections
    registry,   \* SubscriptionRegistry: patterns of a client
    inbox,      \* number of events in a client's inbox
    events,     \* topic of each event published
    audience,   \* connections subscribed when it was published, and ever since
    got,        \* events that reached the client
    task,       \* frame of each coroutine
    approvals,  \* ApprovalStore: what each approval was asked for, and its status
    ran,        \* calls of write tools that were executed, with the approval used
    requests

transport == <<link, table, wanted>>
server == <<clients, registry, inbox>>
history == <<events, audience, got>>
policy == <<approvals, ran>>
vars == <<transport, server, history, task, policy, requests>>

-----------------------------------------------------------------------------
Event == 1 .. Len(events)

TopicMatches(pattern, topic) == pattern = topic \/ pattern = Wild
Subscribed(patterns, topic) == \E p \in patterns : TopicMatches(p, topic)

\* A coroutine: where it is, the event it broadcasts, the size of the table when
\* it began to walk it, the connections it has passed and those it could not reach.
Idle(pc) == [pc |-> pc, event |-> 0, size |-> 0, passed |-> {}, failed |-> {}]
At(x, pc) == task[x].pc = pc
Goto(x, pc) == task' = [task EXCEPT ![x] = Idle(pc)]

\* Faulty: the bridge is not told of a connection that is closed.
Removed_Transport(gone) ==
    /\ table' = table \ gone
    /\ wanted' = [c \in Conn |-> IF c \in gone THEN {} ELSE wanted[c]]
    /\ UNCHANGED <<clients, registry, inbox>>

\* WebSocketTransport.close with GatewayWsBridge.disconnect, in either order.
Removed(gone) ==
    /\ table' = table \ gone
    /\ wanted' = [c \in Conn |-> IF c \in gone THEN {} ELSE wanted[c]]
    /\ clients' = clients \ gone
    /\ registry' = [c \in Conn |-> IF c \in gone THEN {} ELSE registry[c]]
    /\ inbox' = [c \in Conn |-> IF c \in gone THEN 0 ELSE inbox[c]]

\* The endpoint of a connection ends: its finally clause.
Leave(c) ==
    /\ Removed({c})
    /\ link' = [link EXCEPT ![c] = "gone"]
    /\ Goto(c, "done")

-----------------------------------------------------------------------------
(* Connections.                                                            *)

\* accept, then ensure_client: no await in between suspends.
Accept(c) ==
    /\ link[c] = "none" /\ \A d \in 1 .. c - 1 : link[d] # "none"
    /\ link' = [link EXCEPT ![c] = "open"]
    /\ table' = table \cup {c}
    /\ clients' = clients \cup {c}
    /\ Goto(c, "hello")
    /\ UNCHANGED <<wanted, registry, inbox, history, policy, requests>>

ClientGoes(c) ==
    /\ link[c] = "open"
    /\ link' = [link EXCEPT ![c] = "gone"]
    /\ UNCHANGED <<table, wanted, server, history, task, policy, requests>>

\* The greeting is sent outside the try statement: when it fails nothing is removed.
Hello(c) ==
    /\ At(c, "hello")
    /\ Goto(c, IF link[c] = "open" THEN "receive" ELSE "crashed")
    /\ UNCHANGED <<transport, server, history, policy, requests>>

\* The heartbeat of a connection that has gone fails and closes it.
HeartbeatFails(c) ==
    /\ task[c].pc \in {"receive", "send", "walk"}
    /\ link[c] = "gone" /\ c \in table
    /\ Removed({c})
    /\ UNCHANGED <<link, history, task, policy, requests>>

Disconnect(c) ==
    /\ At(c, "receive") /\ link[c] = "gone"
    /\ Leave(c)
    /\ UNCHANGED <<history, policy, requests>>

\* An acknowledgement or a response.
Send(c) ==
    /\ At(c, "send")
    /\ \/ link[c] = "open" /\ Goto(c, "receive") /\ UNCHANGED <<transport, server>>
       \/ link[c] = "gone" /\ Leave(c)
    /\ UNCHANGED <<history, policy, requests>>

\* Frames of one client arrive one by one.
Receive(c) == At(c, "receive") /\ link[c] = "open" /\ requests < MaxRequests
                /\ requests' = requests + 1

\* A subscribe frame: the transport, then the bridge's handler.
SubscribeFrame(c, p) ==
    /\ Receive(c) /\ c \in table
    /\ wanted' = [wanted EXCEPT ![c] = @ \cup {p}]
    /\ clients' = clients \cup {c}
    /\ registry' = [registry EXCEPT ![c] = @ \cup {p}]
    /\ Goto(c, "send")
    /\ UNCHANGED <<link, table, inbox, history, policy>>

UnsubscribeFrame(c, p) ==
    /\ Receive(c) /\ c \in table
    /\ registry' = [registry EXCEPT ![c] = @ \ {p}]
    /\ wanted' = [wanted EXCEPT ![c] = @ \ {p}]
    /\ audience' = [e \in Event |->
           IF Subscribed(wanted[c] \ {p}, events[e]) THEN audience[e] ELSE audience[e] \ {c}]
    /\ Goto(c, "send")
    /\ UNCHANGED <<link, table, clients, inbox, events, got, policy>>

-----------------------------------------------------------------------------
(* Request frames, with authentication and rate limit off, as by default.  *)

Admitted(c) == Receive(c) /\ c \in table

\* gateway.subscribe and gateway.unsubscribe name any client, and reach its registry only.
SubscribeMethod(c, d, p) ==
    /\ Admitted(c)
    /\ registry' = [registry EXCEPT ![d] = IF d \in clients THEN @ \cup {p} ELSE @]
    /\ Goto(c, "send")
    /\ UNCHANGED <<transport, clients, inbox, history, policy>>

UnsubscribeMethod(c, d, p) ==
    /\ Admitted(c)
    /\ registry' = [registry EXCEPT ![d] = @ \ {p}]
    /\ Goto(c, "send")
    /\ UNCHANGED <<transport, clients, inbox, history, policy>>

\* Faulty: the call is not compared with the one that the approval was asked for.
IsApprovedFor_Any(i, call) == i \in 1 .. Len(approvals) /\ approvals[i].status = "approved"

IsApprovedFor(i, call) ==
    /\ i \in 1 .. Len(approvals)
    /\ approvals[i].status = "approved"
    /\ approvals[i].call = call

\* create_for_tool: nothing looks for a pending approval of the same call.
AskApproval(call) ==
    /\ Len(approvals) < MaxApprovals
    /\ approvals' = Append(approvals, [call |-> call, status |-> "pending", was |-> {}])

\* PolicyGuard.enforce for a write tool, with an approval id (0: none): an approved
\* call runs, any other asks for a new approval.
Enforce(call, i) ==
    \/ IsApprovedFor(i, call) /\ ran' = ran \cup {<<call, i>>} /\ UNCHANGED approvals
    \/ ~IsApprovedFor(i, call) /\ AskApproval(call) /\ UNCHANGED ran

\* tool.invoke
Invoke(c, call, i) ==
    /\ Admitted(c)
    /\ Enforce(call, i)
    /\ Goto(c, "send")
    /\ UNCHANGED <<transport, server, history>>

\* The case of an HTTP request calls the tool, without an approval.
CaseInvokes(h, call) ==
    /\ At(h, "new")
    /\ Enforce(call, 0)
    /\ UNCHANGED <<transport, server, history, task, requests>>

\* ApprovalStore.approve and reject do not look at the status they replace.
\* "was" keeps the statuses that the approval has had.
Decided(i, decision) ==
    [approvals EXCEPT ![i] = [call |-> @.call, status |-> decision,
                              was |-> @.was \cup {decision}]]

\* approval.approve and approval.reject
Decide(c, i, decision) ==
    /\ Admitted(c)
    /\ approvals' = Decided(i, decision)
    /\ Goto(c, "send")
    /\ UNCHANGED <<transport, server, history, ran>>

-----------------------------------------------------------------------------
(* Events.                                                                 *)

\* Faulty: the inbox of a client grows without its limit.
Delivered_Unbounded(t) == [c \in Conn |->
    IF c \in clients /\ Subscribed(registry[c], t) THEN inbox[c] + 1 ELSE inbox[c]]

\* GatewayServer.publish: into the inbox of each client that the registry finds.
Delivered(t) == [c \in Conn |->
    IF c \in clients /\ Subscribed(registry[c], t) /\ inbox[c] < MaxInbox
    THEN inbox[c] + 1 ELSE inbox[c]]

\* publish and flush_broadcasts, up to the first send: the walk of the table begins.
Publish(x, t) ==
    /\ Len(events) < MaxEvents
    /\ inbox' = Delivered(t)
    /\ events' = Append(events, t)
    /\ audience' = Append(audience, {c \in table : Subscribed(wanted[c], t)})
    /\ task' = [task EXCEPT ![x] = [Idle("walk") EXCEPT !.event = Len(events) + 1,
                                                        !.size = Cardinality(table)]]
    /\ UNCHANGED <<transport, clients, registry, got, policy>>

PublishMethod(c, t) == Admitted(c) /\ Publish(c, t)

\* A case ran to its end: case.completed goes through the event bus to the bridge.
CaseCompleted(h, t) == At(h, "new") /\ Publish(h, t) /\ UNCHANGED requests

\* Faulty: the walk counts the connections it has passed.
Remaining_Counted(x) ==
    {c \in table : /\ Cardinality({d \in table : d <= c}) > Cardinality(task[x].passed)
                   /\ Subscribed(wanted[c], events[task[x].event])}

\* The connections that the walk of x has still to send the event to.
Remaining(x) ==
    {c \in table : /\ c \notin task[x].passed
                   /\ Subscribed(wanted[c], events[task[x].event])}
First(s) == {c \in s : \A d \in s : c <= d}

\* A dictionary that has changed its size ends the walk with a RuntimeError.
TableChanged(x) == Cardinality(table) # task[x].size

Deliver(x) ==
    /\ At(x, "walk") /\ ~TableChanged(x)
    /\ \E c \in First(Remaining(x)) :
       /\ got' = IF link[c] = "open" THEN [got EXCEPT ![c] = @ \cup {task[x].event}] ELSE got
       /\ task' = [task EXCEPT ![x].passed = @ \cup {d \in table : d <= c},
                               ![x].failed = IF link[c] = "open" THEN @ ELSE @ \cup {c}]
    /\ UNCHANGED <<transport, server, events, audience, policy, requests>>

\* The walk is complete: connections that could not be reached are closed.
EndWalk(x) ==
    /\ At(x, "walk") /\ ~TableChanged(x) /\ Remaining(x) = {}
    /\ Removed(task[x].failed)
    /\ Goto(x, IF x \in Conn THEN "send" ELSE "done")
    /\ UNCHANGED <<link, history, policy, requests>>

\* The error leaves flush_broadcasts: the connection of a publisher ends, a caller
\* gets an error although its case has run.
BreakWalk(x) ==
    /\ At(x, "walk") /\ TableChanged(x)
    /\ \/ x \in Conn /\ Leave(x)
       \/ x \in Caller /\ Goto(x, "error") /\ UNCHANGED <<transport, server>>
    /\ UNCHANGED <<history, policy, requests>>

-----------------------------------------------------------------------------
Init ==
    /\ link = [c \in Conn |-> "none"]
    /\ table = {} /\ wanted = [c \in Conn |-> {}]
    /\ clients = {} /\ registry = [c \in Conn |-> {}] /\ inbox = [c \in Conn |-> 0]
    /\ events = << >> /\ audience = << >> /\ got = [c \in Conn |-> {}]
    /\ task = [x \in Task |-> Idle("new")]
    /\ approvals = << >> /\ ran = {}
    /\ requests = 0

Endpoint(c) == Hello(c) \/ Disconnect(c) \/ Send(c)
Walk(x) == Deliver(x) \/ EndWalk(x) \/ BreakWalk(x)

Frame(c) ==
    \/ \E p \in Pattern : SubscribeFrame(c, p) \/ UnsubscribeFrame(c, p)
    \/ \E d \in Conn, p \in Pattern : SubscribeMethod(c, d, p) \/ UnsubscribeMethod(c, d, p)
    \/ \E t \in Topic : PublishMethod(c, t)
    \/ \E call \in Call, i \in 0 .. Len(approvals) : Invoke(c, call, i)
    \/ \E i \in 1 .. Len(approvals), d \in {"approved", "rejected"} : Decide(c, i, d)

Next ==
    \/ \E c \in Conn : Accept(c) \/ ClientGoes(c) \/ HeartbeatFails(c)
                         \/ Endpoint(c) \/ Frame(c)
    \/ \E h \in Caller, t \in Topic : CaseCompleted(h, t)
    \/ \E h \in Caller, call \in Call : CaseInvokes(h, call)
    \/ \E x \in Task : Walk(x)

Spec == Init /\ [][Next]_vars

-----------------------------------------------------------------------------
(* Properties.                                                             *)

TypeOK ==
    /\ link \in [Conn -> {"none", "open", "gone"}]
    /\ table \subseteq Conn /\ wanted \in [Conn -> SUBSET Pattern]
    /\ clients \subseteq Conn /\ registry \in [Conn -> SUBSET Pattern]
    /\ inbox \in [Conn -> 0 .. MaxInbox]
    /\ events \in Seq(Topic) /\ audience \in Seq(SUBSET Conn) /\ Len(audience) = Len(events)
    /\ got \in [Conn -> SUBSET Event]
    /\ task \in [Task -> [pc : {"new", "hello", "receive", "send", "walk", "done", "crashed",
                                "error"},
                          event : Event \cup {0}, size : Nat,
                          passed : SUBSET Conn, failed : SUBSET Conn]]
    /\ approvals \in Seq([call : Call, status : {"pending", "approved", "rejected"},
                          was : SUBSET {"approved", "rejected"}])
    /\ ran \subseteq Call \X (1 .. Len(approvals))
    /\ requests \in 0 .. MaxRequests

\* The bridge keeps the transport and the server in step although a connection may be
\* closed by its endpoint, its heartbeat or a broadcast of somebody else: the server's
\* clients are the listed connections, and nobody else is subscribed to anything.
NoGhostClient ==
    /\ clients = table
    /\ \A c \in Conn \ clients : registry[c] = {} /\ wanted[c] = {} /\ inbox[c] = 0

\* A write tool ran only with an approval of that very call which somebody approved.
ExecutionBacked ==
    \A x \in ran : approvals[x[2]].call = x[1] /\ "approved" \in approvals[x[2]].was

\* A broadcast that ends without an error has reached every open connection that was
\* subscribed to its topic from the publication on, whatever came and went meanwhile.
BroadcastComplete ==
    [][\A x \in Task : EndWalk(x) =>
           \A c \in audience[task[x].event] :
               link[c] = "open" /\ c \in table => task[x].event \in got[c]]_vars

\* Whoever ends a connection, nothing of it stays: not in the table, which broadcasts
\* walk, not among the server's clients.  Only a failed greeting leaves the connection
\* behind, and every later broadcast that wants it tries to reach it.
EndedForgotten ==
    \A c \in Conn : At(c, "done") => c \notin table \cup clients /\ inbox[c] = 0

\* Both: the two tables are in step and forget who is gone.
TablesAgree == NoGhostClient /\ EndedForgotten

\* What broadcast says it does: "Broadcast an event to all subscribers of a topic."
AllSubscribersReached ==
    \A e \in Event : (\A x \in Task : task[x].event # e) =>
        \A c \in audience[e] : link[c] = "open" => e \in got[c]

=============================================================================
