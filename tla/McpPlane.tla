------------------------------ MODULE McpPlane ------------------------------
(***************************************************************************)
(* External MCP servers of one process: McpServerManager, its stdio        *)
(* sessions, the child processes they talk to, and the agent attempts that *)
(* share the manager.                                                      *)
(*                                                                         *)
(* Every method of the manager holds its lock, a tool call for as long as  *)
(* the call lasts.  An attempt reads extra_env, lays the environment of    *)
(* its playbook over the manager's, makes its calls, and in its finally    *)
(* clause removes the overlay and sets extra_env back to what it read.     *)
(* The handlers that start attempts run in a thread pool, so the brackets  *)
(* of two attempts interleave.                                             *)
(*                                                                         *)
(* A definition named Op_Suffix is a faulty form of Op, kept to see that   *)
(* the properties notice it; the specification does not use it.            *)
(***************************************************************************)
EXTENDS Integers, Sequences, FiniteSets

CONSTANTS
    Servers,   \* ids of the configured MCP servers
    Runs,      \* agent attempts
    Keys,      \* variables that only skills get
    RunKeys,   \* the variables each attempt's playbook declares
    Nobody,    \* the lock is free; also: no server
    Loader,    \* holder of the lock during reload_from_store
    MaxCalls,  \* bound on the tool calls of one attempt
    MaxEdits,  \* bound on the changes an administrator makes
    MaxFaults  \* bound on failures and on messages nobody asked for

ASSUME McpAssumption ==
    /\ RunKeys \in [Runs -> SUBSET Keys]
    /\ Nobody \notin Runs /\ Loader \notin Runs /\ Nobody # Loader
    /\ Nobody \notin Servers
    /\ MaxCalls \in Nat /\ MaxEdits \in Nat /\ MaxFaults \in Nat

VARIABLES
    settings,    \* version of the MCP variables in the admin settings
    rows,        \* servers the store has as ready, with tools
    pushing,     \* a handler saved a variable and has still to set extra_env
    admin,       \* what the handler of the server list does next
    extraEnv,    \* _extra_env
    overlay,     \* _run_env_overlay
    held,        \* domain of _sessions
    session,     \* the session objects
    live,        \* child processes of each server
    loaded,      \* domain of _servers
    registered,  \* servers with tools in the ToolRegistry
    todo,        \* servers reload_from_store has still to register
    loading,     \* the one it registers
    lock,        \* holder of _lock
    call,        \* the tool call in progress
    pc,          \* where each attempt is
    previous,    \* the extra_env it will set back
    calls,       \* its tool calls so far
    result,      \* the request whose answer its last call returned, {} after an error
    fellBack,    \* the settings could not be read once
    edits, faults

store   == <<settings, rows, pushing, admin, edits>>
manager == <<extraEnv, overlay, held, session, live>>
catalog == <<loaded, registered, todo, loading>>
attempt == <<pc, previous, calls, result>>
vars    == <<store, manager, catalog, lock, call, attempt, fellBack, faults>>

\* An environment: version of the settings it has, and skill variables.
Env == [base : 0..MaxEdits, keys : SUBSET Keys]

\* Which request a message belongs to: attempt, number of the call, method.
Request == Runs \X (1..MaxCalls) \X {"initialize", "tools/call"}

\* A line of the child's stdout; notifications and garbage carry no id.
Message ==
    [kind : {"answer"}, id : Nat, of : Request, ok : BOOLEAN]
    \cup [kind : {"notice", "garbage"}, id : {0}, of : {Nobody}, ok : {FALSE}]

Session == [env : Env, proc : {"none", "up", "down"}, initialized : BOOLEAN,
            nextId : Nat, asked : SUBSET (Nat \X Request), pipe : Seq(Message)]

NoCall == [server |-> Nobody, phase |-> "none", id |-> 0]

-----------------------------------------------------------------------------
\* A session object before connect().
NewSession(env) ==
    [env |-> env, proc |-> "none", initialized |-> FALSE, nextId |-> 1,
     asked |-> {}, pipe |-> <<>>]

Discarded == NewSession([base |-> 0, keys |-> {}])

\* connect(): a process is started, nothing is in its pipes.
Connected(ses) == [ses EXCEPT !.proc = "up", !.initialized = FALSE]

\* close() leaves the object without process and pipes.
Closed(ses) ==
    [ses EXCEPT !.proc = "none", !.initialized = FALSE, !.asked = {}, !.pipe = <<>>]

\* 1 when the process of the session is alive.
Running_Any(s) == 1

Running(s) == IF session[s].proc = "up" THEN 1 ELSE 0

\* _close_all_sessions.
CloseAll ==
    /\ held' = {}
    /\ session' = [s \in Servers |-> Discarded]
    /\ live' = [s \in Servers |-> IF s \in held THEN live[s] - Running(s) ELSE live[s]]

KeepSessions == UNCHANGED <<held, session, live>>

Overlaid(env) == [env EXCEPT !.keys = @ \cup overlay]

Provided == [base |-> settings, keys |-> {}]

\* _refresh_extra_env_locked: take the environment of the settings, and end
\* the sessions when it is another one; keep what is there if that fails.
Refresh_SameVersion ==
    /\ IF settings # extraEnv.base THEN extraEnv' = Provided /\ CloseAll
       ELSE UNCHANGED extraEnv /\ KeepSessions
    /\ UNCHANGED <<fellBack, faults>>

Refresh ==
    \/ /\ extraEnv' = Provided
       /\ IF Provided # extraEnv THEN CloseAll ELSE KeepSessions
       /\ UNCHANGED <<fellBack, faults>>
    \/ /\ faults < MaxFaults
       /\ faults' = faults + 1 /\ fellBack' = TRUE
       /\ KeepSessions /\ UNCHANGED extraEnv

Goto(r, label) == pc' = [pc EXCEPT ![r] = label]

-----------------------------------------------------------------------------
\* AttemptRunner.run_once: previous_extra = dict(manager.extra_env).
ReadExtra(r) ==
    /\ pc[r] = "idle" /\ lock = Nobody
    /\ Refresh
    /\ previous' = [previous EXCEPT ![r] = Overlaid(extraEnv')]
    /\ Goto(r, "read")
    /\ UNCHANGED <<store, overlay, catalog, lock, call, calls, result>>

\* set_run_env_overlay(resolution.mcp_extra).
SetOverlay_KeepSessions(r) ==
    /\ pc[r] = "read" /\ lock = Nobody
    /\ overlay' = RunKeys[r]
    /\ Goto(r, "running")
    /\ UNCHANGED <<store, extraEnv, held, session, live, catalog, lock, call, previous,
                   calls, result, fellBack, faults>>

SetOverlay(r) ==
    /\ pc[r] = "read" /\ lock = Nobody
    /\ overlay' = RunKeys[r]
    /\ CloseAll
    /\ Goto(r, "running")
    /\ UNCHANGED <<store, extraEnv, catalog, lock, call, previous, calls, result,
                   fellBack, faults>>

\* The finally clause: set_run_env_overlay(None).  An attempt whose variables
\* have no value gets here without having set an overlay.
ClearOverlay(r) ==
    /\ pc[r] \in {"read", "running"} /\ lock = Nobody
    /\ overlay' = {}
    /\ CloseAll
    /\ Goto(r, "restore")
    /\ UNCHANGED <<store, extraEnv, catalog, lock, call, previous, calls, result,
                   fellBack, faults>>

\* set_extra_env(previous_extra).
Restore(r) ==
    /\ pc[r] = "restore" /\ lock = Nobody
    /\ extraEnv' = previous[r]
    /\ CloseAll
    /\ Goto(r, "done")
    /\ UNCHANGED <<store, overlay, catalog, lock, call, previous, calls, result,
                   fellBack, faults>>

-----------------------------------------------------------------------------
\* McpServerManager.invoke takes the lock and refreshes the environment.
Invoke(r, s) ==
    /\ pc[r] = "running" /\ lock = Nobody
    /\ calls[r] < MaxCalls /\ s \in registered
    /\ Refresh
    /\ lock' = r
    /\ call' = [server |-> s, phase |-> "route", id |-> 0]
    /\ calls' = [calls EXCEPT ![r] = @ + 1]
    /\ result' = [result EXCEPT ![r] = {}]
    /\ UNCHANGED <<store, overlay, catalog, pc, previous>>

Calling(r, phase) == lock = r /\ r \in Runs /\ call.phase = phase

Return(r, value) ==
    /\ lock' = Nobody /\ call' = NoCall
    /\ result' = [result EXCEPT ![r] = value]

Proceed(phase) == call' = [call EXCEPT !.phase = phase] /\ UNCHANGED <<lock, result>>

\* What a step of a call leaves alone.
Elsewhere == UNCHANGED <<store, extraEnv, overlay, catalog, pc, previous, calls, fellBack>>

NoServer(r) ==
    /\ Calling(r, "route") /\ call.server \notin loaded
    /\ Return(r, {})
    /\ KeepSessions /\ Elsewhere /\ UNCHANGED faults

UseSession(r) ==
    /\ Calling(r, "route") /\ call.server \in loaded \cap held
    /\ Proceed("open")
    /\ KeepSessions /\ Elsewhere /\ UNCHANGED faults

Spawn(s, ses) ==
    /\ session' = [session EXCEPT ![s] = Connected(ses)]
    /\ live' = [live EXCEPT ![s] = @ + 1]

\* No session yet: one is kept only when its process could be started.
OpenSession(r) ==
    /\ Calling(r, "route") /\ call.server \in loaded \ held
    /\ \/ /\ Spawn(call.server, NewSession(Overlaid(extraEnv)))
          /\ held' = held \cup {call.server}
          /\ Proceed("open")
          /\ UNCHANGED faults
       \/ /\ faults < MaxFaults /\ faults' = faults + 1
          /\ Return(r, {}) /\ KeepSessions
    /\ Elsewhere

\* _request: connect() again after a timeout closed the session.
Reconnect(r) ==
    /\ Calling(r, "open") /\ session[call.server].proc = "none"
    /\ \/ /\ Spawn(call.server, session[call.server])
          /\ Proceed("open")
          /\ UNCHANGED <<held, faults>>
       \/ /\ faults < MaxFaults /\ faults' = faults + 1
          /\ Return(r, {}) /\ KeepSessions
    /\ Elsewhere

Method == IF session[call.server].initialized THEN "tools/call" ELSE "initialize"

\* _request_unlocked writes a request with the next id.
Send(r) ==
    LET s == call.server  ses == session[s] IN
    /\ Calling(r, "open") /\ ses.proc = "up"
    /\ session' = [session EXCEPT ![s].nextId = @ + 1,
                     ![s].asked = @ \cup {<<ses.nextId, <<r, calls[r], Method>>>>}]
    /\ call' = [call EXCEPT !.phase = "wait", !.id = ses.nextId]
    /\ Elsewhere /\ UNCHANGED <<held, live, lock, result, faults>>

\* The pipe to a dead process is broken; the session keeps that process.
SendFails(r) ==
    /\ Calling(r, "open") /\ session[call.server].proc = "down"
    /\ Return(r, {})
    /\ KeepSessions /\ Elsewhere /\ UNCHANGED faults

Waiting(r) == Calling(r, "wait")

Pipe == session[call.server].pipe

Take == session' = [session EXCEPT ![call.server].pipe = Tail(@)]

IsAnswer_AnyId(m) == m.kind = "answer"

IsAnswer(m) == m.kind = "answer" /\ m.id = call.id

\* A message with another id, or without one, is dropped.
SkipMessage(r) ==
    /\ Waiting(r) /\ Pipe # <<>>
    /\ Head(Pipe).kind # "garbage" /\ ~IsAnswer(Head(Pipe))
    /\ Take
    /\ Elsewhere /\ UNCHANGED <<held, live, lock, call, result, faults>>

\* The answer to initialize: the session is initialized when the notification
\* that follows can still be written.
Initialized(r) ==
    LET s == call.server IN
    /\ Waiting(r) /\ Pipe # <<>> /\ IsAnswer(Head(Pipe))
    /\ ~session[s].initialized
    /\ IF Head(Pipe).ok /\ session[s].proc = "up"
         THEN /\ session' = [session EXCEPT ![s].pipe = Tail(@), ![s].initialized = TRUE]
              /\ Proceed("open")
         ELSE Take /\ Return(r, {})
    /\ Elsewhere /\ UNCHANGED <<held, live, faults>>

\* The answer to the tool call, a result or an error.
Answered(r) ==
    /\ Waiting(r) /\ Pipe # <<>> /\ IsAnswer(Head(Pipe))
    /\ session[call.server].initialized
    /\ Return(r, IF Head(Pipe).ok THEN {Head(Pipe).of} ELSE {})
    /\ Take
    /\ Elsewhere /\ UNCHANGED <<held, live, faults>>

\* A line that is no message, or the end of stdout, ends the call.
ReadFails(r) ==
    /\ Waiting(r)
    /\ \/ Pipe # <<>> /\ Head(Pipe).kind = "garbage" /\ Take
       \/ Pipe = <<>> /\ session[call.server].proc = "down" /\ UNCHANGED session
    /\ Return(r, {})
    /\ Elsewhere /\ UNCHANGED <<held, live, faults>>

\* _read_message_with_timeout: the wait for one message was too long; the
\* process is ended, the session stays in _sessions.
Timeout_WaitForEver(r) == Waiting(r) /\ UNCHANGED vars

Timeout(r) ==
    LET s == call.server IN
    /\ Waiting(r)
    /\ session' = [session EXCEPT ![s] = Closed(@)]
    /\ live' = [live EXCEPT ![s] = @ - Running(s)]
    /\ Return(r, {})
    /\ Elsewhere /\ UNCHANGED <<held, faults>>

-----------------------------------------------------------------------------
\* The child process of server s.
ServerStep(s, ses) ==
    /\ session[s].proc = "up"
    /\ session' = [session EXCEPT ![s] = ses]
    /\ UNCHANGED <<store, extraEnv, overlay, held, catalog, lock, call, attempt, fellBack>>

Answer(s) ==
    \E q \in session[s].asked, ok \in BOOLEAN :
        /\ ServerStep(s, [session[s] EXCEPT
               !.asked = @ \ {q},
               !.pipe = Append(@, [kind |-> "answer", id |-> q[1], of |-> q[2], ok |-> ok])])
        /\ UNCHANGED <<live, faults>>

Babble(s) ==
    \E k \in {"notice", "garbage"} :
        /\ faults < MaxFaults /\ faults' = faults + 1
        /\ ServerStep(s, [session[s] EXCEPT
               !.pipe = Append(@, [kind |-> k, id |-> 0, of |-> Nobody, ok |-> FALSE])])
        /\ UNCHANGED live

Die(s) ==
    /\ faults < MaxFaults /\ faults' = faults + 1
    /\ ServerStep(s, [session[s] EXCEPT !.proc = "down", !.asked = {}])
    /\ live' = [live EXCEPT ![s] = @ - 1]

-----------------------------------------------------------------------------
\* POST /api/env-vars saves a variable, then sets the manager's extra_env.
EditEnv ==
    /\ ~pushing /\ edits < MaxEdits
    /\ settings' = settings + 1 /\ edits' = edits + 1 /\ pushing' = TRUE
    /\ UNCHANGED <<rows, admin, manager, catalog, lock, call, attempt, fellBack, faults>>

PushEnv ==
    /\ pushing /\ lock = Nobody
    /\ extraEnv' = Provided
    /\ CloseAll
    /\ pushing' = FALSE
    /\ UNCHANGED <<settings, rows, admin, edits, overlay, catalog, lock, call, attempt,
                   fellBack, faults>>

\* A server is added, changed, discovered or removed, then all are reloaded.
EditRows(R) ==
    /\ admin = "idle" /\ edits < MaxEdits
    /\ rows' = R /\ edits' = edits + 1 /\ admin' = "reload"
    /\ UNCHANGED <<settings, pushing, manager, catalog, lock, call, attempt, fellBack, faults>>

\* reload_from_store up to its loop.
BeginReload ==
    /\ admin = "reload" /\ lock = Nobody
    /\ CloseAll
    /\ loaded' = {} /\ todo' = rows
    /\ lock' = Loader /\ admin' = "loading"
    /\ UNCHANGED <<settings, rows, pushing, edits, extraEnv, overlay, registered, loading, call,
                   attempt, fellBack, faults>>

\* _register_server: drop the old tools, refresh the environment ...
Register(s) ==
    /\ admin = "loading" /\ loading = Nobody /\ s \in todo
    /\ todo' = todo \ {s} /\ loading' = s
    /\ registered' = registered \ {s}
    /\ Refresh
    /\ UNCHANGED <<store, overlay, loaded, lock, call, attempt>>

\* ... then start the process; without one the server is not loaded.
ConnectServer(s) ==
    /\ loading = s /\ s # Nobody
    /\ loading' = Nobody
    /\ \/ /\ Spawn(s, NewSession(Overlaid(extraEnv)))
          /\ held' = held \cup {s} /\ loaded' = loaded \cup {s}
          /\ registered' = registered \cup {s}
          /\ UNCHANGED faults
       \/ /\ faults < MaxFaults /\ faults' = faults + 1
          /\ KeepSessions /\ UNCHANGED <<loaded, registered>>
    /\ UNCHANGED <<store, extraEnv, overlay, todo, lock, call, attempt, fellBack>>

EndReload ==
    /\ admin = "loading" /\ todo = {} /\ loading = Nobody
    /\ lock' = Nobody /\ admin' = "idle"
    /\ UNCHANGED <<settings, rows, pushing, edits, manager, catalog, call, attempt,
                   fellBack, faults>>

-----------------------------------------------------------------------------
\* create_dev_runtime reloads the servers before anything else runs.
Init ==
    /\ settings = 0 /\ rows = Servers /\ pushing = FALSE /\ admin = "loading"
    /\ extraEnv = [base |-> 0, keys |-> {}] /\ overlay = {}
    /\ held = {} /\ session = [s \in Servers |-> Discarded]
    /\ live = [s \in Servers |-> 0]
    /\ loaded = {} /\ registered = {} /\ todo = rows /\ loading = Nobody
    /\ lock = Loader /\ call = NoCall
    /\ pc = [r \in Runs |-> "idle"]
    /\ previous = [r \in Runs |-> extraEnv]
    /\ calls = [r \in Runs |-> 0] /\ result = [r \in Runs |-> {}]
    /\ fellBack = FALSE /\ edits = 0 /\ faults = 0

CallStep(r) ==
    \/ NoServer(r) \/ UseSession(r) \/ OpenSession(r) \/ Reconnect(r)
    \/ Send(r) \/ SendFails(r)
    \/ SkipMessage(r) \/ Initialized(r) \/ Answered(r) \/ ReadFails(r) \/ Timeout(r)

RunStep(r) ==
    \/ ReadExtra(r) \/ SetOverlay(r) \/ ClearOverlay(r) \/ Restore(r)
    \/ \E s \in Servers : Invoke(r, s)
    \/ CallStep(r)

ReloadStep ==
    \/ BeginReload \/ EndReload
    \/ \E s \in Servers : Register(s) \/ ConnectServer(s)

ServerActs(s) == Answer(s) \/ Babble(s) \/ Die(s)

Next ==
    \/ \E r \in Runs : RunStep(r)
    \/ \E s \in Servers : ServerActs(s)
    \/ EditEnv \/ PushEnv \/ \E R \in SUBSET Servers : EditRows(R)
    \/ ReloadStep

Spec == Init /\ [][Next]_vars

\* The threads of the process run; nothing is asked of the child processes.
Fairness ==
    /\ \A r \in Runs : WF_vars(RunStep(r))
    /\ WF_vars(PushEnv) /\ WF_vars(ReloadStep)

FairSpec == Spec /\ Fairness

-----------------------------------------------------------------------------
TypeOK ==
    /\ settings \in 0..MaxEdits /\ edits \in settings..MaxEdits
    /\ rows \subseteq Servers
    /\ pushing \in BOOLEAN /\ admin \in {"idle", "reload", "loading"}
    /\ extraEnv \in Env /\ overlay \subseteq Keys
    /\ held \subseteq Servers /\ session \in [Servers -> Session]
    /\ live \in [Servers -> Nat]
    /\ loaded \subseteq Servers /\ registered \subseteq Servers
    /\ todo \subseteq Servers /\ loading \in Servers \cup {Nobody}
    /\ lock \in Runs \cup {Nobody, Loader}
    /\ call \in [server : Servers \cup {Nobody},
                 phase : {"none", "route", "open", "wait"}, id : Nat]
    /\ pc \in [Runs -> {"idle", "read", "running", "restore", "done"}]
    /\ previous \in [Runs -> Env]
    /\ calls \in [Runs -> 0..MaxCalls]
    /\ result \in [Runs -> SUBSET Request]
    /\ fellBack \in BOOLEAN /\ faults \in 0..MaxFaults

\* Every session that a call may use talks to a process that was started with
\* the manager's present environment and the present overlay: whatever changes
\* either ends the sessions (server_manager.py, _close_all_sessions).
SessionEnvCurrent ==
    \A s \in held : session[s].env = Overlaid(extraEnv)

\* Every child process belongs to a session that the manager still has and can
\* close: one per server with a running session, none besides.
NoStrayProcess ==
    \A s \in Servers : live[s] = IF s \in held THEN Running(s) ELSE 0

\* Both: processes are those the manager would start now, and no others.
ProcessesCurrent == SessionEnvCurrent /\ NoStrayProcess

\* A call returns the answer to its own request, never one that an earlier,
\* failed call left in the pipe.
ResultIsOwn ==
    \A r \in Runs : result[r] \subseteq {<<r, calls[r], "tools/call">>}

\* The overlay belongs to an attempt that has not reached its finally clause.
OverlayOwned ==
    overlay # {} => \E r \in Runs : pc[r] = "running" /\ RunKeys[r] = overlay

\* As long as the settings could always be read, no child process has a skill's
\* variable when no attempt that declares it is running, although attempts set
\* extra_env back to a value that may hold the overlay of another one.
KeysEndWithRun ==
    ~fellBack =>
        \A s \in held : session[s].env.keys \subseteq
            UNION {RunKeys[r] : r \in {x \in Runs : pc[x] = "running"}}

\* Both: what an attempt adds to the environment ends with it.
OverlayContained == OverlayOwned /\ KeysEndWithRun

\* An attempt that is running ends, and with it its calls, even when a server
\* is silent, dies or cannot be started.
RunsEnd == \A r \in Runs : pc[r] = "running" ~> pc[r] = "done"
=============================================================================
