-------------------------- MODULE McpPlaneProofs --------------------------
(***************************************************************************)
(* What the lock of McpServerManager buys for every set of servers and     *)
(* attempts: a session that is kept was started with the present           *)
(* environment, no child process escapes the manager, and the variables of *)
(* a skill go with the attempts that declare them; and that a call returns *)
(* the answer to its own request.                                          *)
(*                                                                         *)
(* The properties are not inductive alone.  What they need besides: a      *)
(* session that was dropped has no process (DroppedEnded), the session of  *)
(* a call in progress stays in _sessions (CallKept), a reload only         *)
(* connects servers that have no session (ReloadFresh), and extra_env has  *)
(* no skill variables from a refresh until the lock is released            *)
(* (BaseClean).                                                            *)
(***************************************************************************)
EXTENDS McpPlane, TLAPS

DroppedEnded ==
    \A s \in Servers \ held : session[s].proc = "none"

CallKept ==
    /\ lock \in Runs <=> call.phase # "none"
    /\ lock \in Runs => call.server \in Servers /\ calls[lock] \in 1..MaxCalls
    /\ call.phase \in {"open", "wait"} => call.server \in held

ReloadFresh ==
    /\ admin = "loading" <=> lock = Loader
    /\ lock # Loader => todo = {} /\ loading = Nobody
    /\ loading \notin todo \cup held
    /\ todo \cap held = {}

BaseClean ==
    /\ ~fellBack
    /\ held # {} \/ call.phase = "route" \/ loading # Nobody
    => extraEnv.keys = {}

Sessions == SessionEnvCurrent /\ NoStrayProcess /\ DroppedEnded

IInv ==
    TypeOK /\ Sessions /\ OverlayOwned /\ CallKept /\ ReloadFresh /\ BaseClean

-----------------------------------------------------------------------------
LEMMA EnvTyped ==
    ASSUME NEW e \in Env, NEW o \in SUBSET Keys
    PROVE  /\ [e EXCEPT !.keys = @ \cup o] \in Env
           /\ [e EXCEPT !.keys = @ \cup o].keys = e.keys \cup o
BY DEF Env

LEMMA NewSessionTyped ==
    ASSUME NEW e \in Env
    PROVE  /\ NewSession(e) \in Session
           /\ NewSession(e).env = e /\ NewSession(e).proc = "none"
           /\ Connected(NewSession(e)) \in Session
           /\ Connected(NewSession(e)).env = e
           /\ Connected(NewSession(e)).proc = "up"
<1>1. <<>> \in Seq(Message) /\ {} \in SUBSET (Nat \X Request)
  OBVIOUS
<1> QED
  BY <1>1 DEF NewSession, Connected, Session

LEMMA DiscardedTyped ==
    ASSUME McpAssumption
    PROVE  Discarded \in Session /\ Discarded.proc = "none"
<1>1. [base |-> 0, keys |-> {}] \in Env
  BY DEF Env, McpAssumption
<1> QED
  BY <1>1, NewSessionTyped DEF Discarded

\* close() and connect() keep the environment of the session object.
LEMMA SessionTyped ==
    ASSUME NEW ses \in Session
    PROVE  /\ Closed(ses) \in Session /\ Closed(ses).env = ses.env
           /\ Closed(ses).proc = "none"
           /\ Connected(ses) \in Session /\ Connected(ses).env = ses.env
           /\ Connected(ses).proc = "up"
<1>1. <<>> \in Seq(Message) /\ {} \in SUBSET (Nat \X Request)
  OBVIOUS
<1> QED
  BY <1>1 DEF Closed, Connected, Session

\* Ending all sessions leaves no child process, whatever else the step does.
LEMMA CloseAllOK ==
    ASSUME IInv, CloseAll
    PROVE  /\ held' = {} /\ session' \in [Servers -> Session]
           /\ live' \in [Servers -> Nat]
           /\ Sessions'
<1>1. \A s \in Servers : live'[s] = 0
  BY DEF IInv, TypeOK, CloseAll, Sessions, NoStrayProcess, Running
<1>2. live' \in [Servers -> Nat]
  <2>1. live' = [s \in Servers |-> IF s \in held THEN live[s] - Running(s) ELSE live[s]]
    BY DEF CloseAll
  <2> QED
    BY <1>1, <2>1
<1>3. session' \in [Servers -> Session] /\ \A s \in Servers : session'[s] = Discarded
  BY DiscardedTyped, McpAssumption DEF CloseAll
<1> QED
  BY <1>1, <1>2, <1>3, DiscardedTyped, McpAssumption
  DEF CloseAll, Sessions, SessionEnvCurrent, NoStrayProcess, DroppedEnded

\* A step on one session that keeps its process accounted for.
LEMMA SessionStep ==
    ASSUME IInv, NEW s \in Servers, NEW ses \in Session,
           ses.env = Overlaid(extraEnv),
           held' = held \cup {s},
           session' = [session EXCEPT ![s] = ses],
           live' = [live EXCEPT ![s] = IF ses.proc = "up" THEN 1 ELSE 0],
           UNCHANGED <<extraEnv, overlay>>
    PROVE  /\ held' \subseteq Servers
           /\ session' \in [Servers -> Session] /\ live' \in [Servers -> Nat]
           /\ Sessions'
<1>1. /\ session' \in [Servers -> Session] /\ live' \in [Servers -> Nat]
      /\ held' \subseteq Servers
      /\ session'[s] = ses /\ live'[s] = IF ses.proc = "up" THEN 1 ELSE 0
      /\ \A t \in Servers \ {s} : session'[t] = session[t] /\ live'[t] = live[t]
  BY DEF IInv, TypeOK
<1>2. SessionEnvCurrent'
  BY <1>1 DEF IInv, TypeOK, Sessions, SessionEnvCurrent, Overlaid
<1>3. NoStrayProcess'
  BY <1>1 DEF IInv, Sessions, NoStrayProcess, Running
<1>4. DroppedEnded'
  BY <1>1 DEF IInv, Sessions, DroppedEnded
<1> QED
  BY <1>1, <1>2, <1>3, <1>4 DEF Sessions

\* A kept session is in the present environment; an unkept one has no process.
LEMMA KeptSession ==
    ASSUME IInv, NEW s \in Servers
    PROVE  /\ s \in held => /\ session[s].env = Overlaid(extraEnv)
                            /\ live[s] = IF session[s].proc = "up" THEN 1 ELSE 0
           /\ s \notin held => live[s] = 0 /\ session[s].proc = "none"
           /\ session[s] \in Session
BY DEF IInv, TypeOK, Sessions, SessionEnvCurrent, NoStrayProcess, DroppedEnded, Running

LEMMA SessionsKept ==
    ASSUME Sessions, UNCHANGED <<held, session, live, extraEnv, overlay>>
    PROVE  Sessions'
<1>1. SessionEnvCurrent'
  BY DEF Sessions, SessionEnvCurrent, Overlaid
<1>2. NoStrayProcess' /\ DroppedEnded'
  BY DEF Sessions, NoStrayProcess, DroppedEnded, Running
<1> QED
  BY <1>1, <1>2 DEF Sessions

\* A refresh ends the sessions of another environment, and takes one without
\* skill variables unless the settings cannot be read.
LEMMA RefreshOK ==
    ASSUME IInv, Refresh, UNCHANGED overlay
    PROVE  /\ extraEnv' \in Env
           /\ held' \subseteq held /\ session' \in [Servers -> Session]
           /\ live' \in [Servers -> Nat]
           /\ fellBack' \in BOOLEAN /\ faults' \in 0..MaxFaults
           /\ Sessions'
           /\ ~fellBack' => extraEnv'.keys = {}
<1>1. CASE /\ extraEnv' = Provided
           /\ IF Provided # extraEnv THEN CloseAll ELSE KeepSessions
           /\ UNCHANGED <<fellBack, faults>>
  <2>1. Provided \in Env /\ Provided.keys = {}
    BY McpAssumption DEF Provided, Env, IInv, TypeOK
  <2>2. CASE Provided # extraEnv
    BY <1>1, <2>1, <2>2, CloseAllOK DEF IInv, TypeOK
  <2>3. CASE Provided = extraEnv
    <3>1. UNCHANGED <<held, session, live, extraEnv>>
      BY <1>1, <2>3 DEF KeepSessions
    <3> QED
      BY <1>1, <2>1, <3>1, SessionsKept DEF IInv, TypeOK
  <2> QED
    BY <2>2, <2>3
<1>2. CASE /\ faults < MaxFaults
           /\ faults' = faults + 1 /\ fellBack' = TRUE
           /\ KeepSessions /\ UNCHANGED extraEnv
  BY <1>2, McpAssumption, SessionsKept DEF KeepSessions, IInv, TypeOK
<1> QED
  BY <1>1, <1>2 DEF Refresh

-----------------------------------------------------------------------------
LEMMA InitOK == Init => IInv
<1> SUFFICES ASSUME Init
             PROVE  IInv
  OBVIOUS
<1>1. extraEnv \in Env /\ Discarded \in Session /\ Discarded.proc = "none"
  BY DiscardedTyped, McpAssumption DEF Init, Env
<1>2. TypeOK
  <2>1. /\ session \in [Servers -> Session] /\ previous \in [Runs -> Env]
        /\ result \in [Runs -> SUBSET Request]
    BY <1>1 DEF Init
  <2>2. calls \in [Runs -> 0..MaxCalls] /\ live \in [Servers -> Nat]
        /\ pc \in [Runs -> {"idle", "read", "running", "restore", "done"}]
    BY McpAssumption DEF Init
  <2>3. call \in [server : Servers \cup {Nobody},
                 phase : {"none", "route", "open", "wait"}, id : Nat]
    BY DEF Init, NoCall
  <2> QED
    <3>1. settings \in 0..MaxEdits /\ edits \in settings..MaxEdits /\ faults \in 0..MaxFaults
      BY McpAssumption DEF Init
    <3> QED
      BY <1>1, <2>1, <2>2, <2>3, <3>1 DEF Init, TypeOK
<1>3. Sessions
  BY <1>1 DEF Init, Sessions, SessionEnvCurrent, NoStrayProcess, DroppedEnded
<1>4. OverlayOwned /\ CallKept /\ ReloadFresh /\ BaseClean
  BY McpAssumption DEF Init, OverlayOwned, CallKept, ReloadFresh, BaseClean, NoCall
<1> QED
  BY <1>2, <1>3, <1>4 DEF IInv

-----------------------------------------------------------------------------
(* The bracket of an attempt. *)

LEMMA ReadExtraOK ==
    ASSUME IInv, NEW r \in Runs, ReadExtra(r)
    PROVE  IInv'
<1> USE DEF IInv
<1>0. UNCHANGED <<store, overlay, catalog, lock, call, calls, result>> /\ Refresh
  BY DEF ReadExtra
<1>1. /\ extraEnv' \in Env /\ held' \subseteq held /\ session' \in [Servers -> Session]
      /\ live' \in [Servers -> Nat] /\ fellBack' \in BOOLEAN /\ faults' \in 0..MaxFaults
      /\ Sessions' /\ (~fellBack' => extraEnv'.keys = {})
  BY <1>0, RefreshOK
<1>2. previous' \in [Runs -> Env]
  BY <1>1, EnvTyped DEF ReadExtra, Overlaid, TypeOK
<1>3. TypeOK'
  BY <1>0, <1>1, <1>2 DEF ReadExtra, TypeOK, Goto, store, catalog
<1>4. OverlayOwned' /\ CallKept' /\ ReloadFresh'
  BY <1>0, <1>1, McpAssumption
  DEF ReadExtra, OverlayOwned, CallKept, ReloadFresh, Goto, store, catalog, TypeOK
<1>5. BaseClean'
  BY <1>1 DEF BaseClean
<1> QED
  BY <1>1, <1>3, <1>4, <1>5

\* A step that ends all sessions while nobody holds the lock.
LEMMA ClosingStepOK ==
    ASSUME IInv, CloseAll, lock = Nobody,
           extraEnv' \in Env, overlay' \in SUBSET Keys,
           pc' \in [Runs -> {"idle", "read", "running", "restore", "done"}],
           UNCHANGED <<settings, rows, admin, edits, catalog, lock, call, previous, calls,
                       result, fellBack, faults>>,
           pushing' \in BOOLEAN,
           OverlayOwned'
    PROVE  IInv'
<1> USE DEF IInv
<1>1. /\ held' = {} /\ session' \in [Servers -> Session]
      /\ live' \in [Servers -> Nat] /\ Sessions'
  BY CloseAllOK
<1>2. TypeOK'
  BY <1>1 DEF TypeOK, catalog
<1>3. CallKept' /\ ReloadFresh'
  BY <1>1, McpAssumption DEF CallKept, ReloadFresh, catalog
<1>4. BaseClean'
  BY <1>1, McpAssumption DEF BaseClean, CallKept, ReloadFresh, catalog
<1> QED
  BY <1>1, <1>2, <1>3, <1>4

LEMMA SetOverlayOK ==
    ASSUME IInv, NEW r \in Runs, SetOverlay(r)
    PROVE  IInv'
<1>1. OverlayOwned'
  BY DEF SetOverlay, OverlayOwned, Goto, IInv, TypeOK
<1>2. /\ extraEnv' \in Env /\ overlay' \in SUBSET Keys
      /\ pc' \in [Runs -> {"idle", "read", "running", "restore", "done"}]
  BY McpAssumption DEF SetOverlay, Goto, IInv, TypeOK
<1> QED
  BY <1>1, <1>2, ClosingStepOK DEF SetOverlay, store, IInv, TypeOK

LEMMA ClearOverlayOK ==
    ASSUME IInv, NEW r \in Runs, ClearOverlay(r)
    PROVE  IInv'
<1>1. OverlayOwned'
  BY DEF ClearOverlay, OverlayOwned
<1>2. /\ extraEnv' \in Env /\ overlay' \in SUBSET Keys
      /\ pc' \in [Runs -> {"idle", "read", "running", "restore", "done"}]
  BY DEF ClearOverlay, Goto, IInv, TypeOK
<1> QED
  BY <1>1, <1>2, ClosingStepOK DEF ClearOverlay, store, IInv, TypeOK

LEMMA RestoreOK ==
    ASSUME IInv, NEW r \in Runs, Restore(r)
    PROVE  IInv'
<1>1. OverlayOwned'
  BY DEF Restore, OverlayOwned, Goto, IInv, TypeOK
<1>2. /\ extraEnv' \in Env /\ overlay' \in SUBSET Keys
      /\ pc' \in [Runs -> {"idle", "read", "running", "restore", "done"}]
  BY DEF Restore, Goto, IInv, TypeOK
<1> QED
  BY <1>1, <1>2, ClosingStepOK DEF Restore, store, IInv, TypeOK

-----------------------------------------------------------------------------
(* The steps of a tool call. *)

\* What the steps of a call have in common: the caller holds the lock, and
\* either goes on with a kept session or returns.
LEMMA CallStepOK ==
    ASSUME IInv, NEW r \in Runs, lock = r, Elsewhere,
           held \subseteq held', held' \subseteq Servers,
           held' # {} => held # {} \/ call.phase = "route",
           session' \in [Servers -> Session], live' \in [Servers -> Nat],
           Sessions', faults' \in 0..MaxFaults,
           \/ lock' = Nobody /\ call' = NoCall /\ result' \in [Runs -> SUBSET Request]
           \/ /\ UNCHANGED <<lock, result>>
              /\ call' \in [server : {call.server}, phase : {"open", "wait"}, id : Nat]
              /\ call.server \in held'
    PROVE  IInv'
<1> USE DEF IInv
<1>1. UNCHANGED <<store, extraEnv, overlay, catalog, pc, previous, calls, fellBack>>
  BY DEF Elsewhere
<1>2. todo = {} /\ loading = Nobody /\ call.server \in Servers /\ calls[r] \in 1..MaxCalls
  BY McpAssumption DEF ReloadFresh, CallKept
<1>3. call' \in [server : Servers \cup {Nobody},
                 phase : {"none", "route", "open", "wait"}, id : Nat]
  BY <1>2 DEF NoCall
<1>4. lock' \in Runs \cup {Nobody, Loader} /\ result' \in [Runs -> SUBSET Request]
  BY DEF TypeOK
<1>5. TypeOK'
  BY <1>1, <1>3, <1>4 DEF TypeOK, store, catalog
<1>6. OverlayOwned'
  BY <1>1 DEF OverlayOwned
<1>7. CallKept'
  BY <1>1, <1>2, McpAssumption DEF CallKept, NoCall, TypeOK
<1>8. ReloadFresh'
  BY <1>1, <1>2, McpAssumption DEF ReloadFresh, store, catalog
<1>9. BaseClean'
  <2>1. call'.phase # "route"
    BY DEF NoCall
  <2> QED
    BY <1>1, <1>2, <2>1 DEF BaseClean, catalog
<1> QED
  BY <1>5, <1>6, <1>7, <1>8, <1>9

\* A call that returns and leaves the sessions as they are.
LEMMA ReturnOK ==
    ASSUME IInv, NEW r \in Runs, lock = r, Elsewhere, Return(r, {}),
           KeepSessions, faults' \in 0..MaxFaults
    PROVE  IInv'
<1>1. UNCHANGED <<held, session, live, extraEnv, overlay>>
  BY DEF KeepSessions, Elsewhere
<1>2. Sessions'
  BY <1>1, SessionsKept DEF IInv
<1>3. result' \in [Runs -> SUBSET Request]
  BY DEF Return, IInv, TypeOK
<1> QED
  BY <1>1, <1>2, <1>3, CallStepOK DEF Return, IInv, TypeOK

\* A step of a call that gives its kept session another state.
LEMMA SessionCallOK ==
    ASSUME IInv, NEW r \in Runs, lock = r, Elsewhere,
           call.server \in held \/ call.phase = "route",
           NEW ses \in Session, ses.env = Overlaid(extraEnv),
           held' = held \cup {call.server},
           session' = [session EXCEPT ![call.server] = ses],
           live' = [live EXCEPT ![call.server] = IF ses.proc = "up" THEN 1 ELSE 0],
           faults' \in 0..MaxFaults,
           \/ lock' = Nobody /\ call' = NoCall /\ result' \in [Runs -> SUBSET Request]
           \/ /\ UNCHANGED <<lock, result>>
              /\ call' \in [server : {call.server}, phase : {"open", "wait"}, id : Nat]
    PROVE  IInv'
<1>1. call.server \in Servers
  BY DEF IInv, CallKept
<1>2. /\ held' \subseteq Servers /\ session' \in [Servers -> Session]
      /\ live' \in [Servers -> Nat] /\ Sessions'
  BY <1>1, SessionStep DEF Elsewhere
<1> QED
  BY <1>1, <1>2, CallStepOK

LEMMA RouteOK ==
    ASSUME IInv, NEW r \in Runs,
           NoServer(r) \/ UseSession(r) \/ OpenSession(r) \/ Reconnect(r) \/ SendFails(r)
    PROVE  IInv'
<1> DEFINE s == call.server
<1>0. /\ lock = r /\ s \in Servers /\ Elsewhere
      /\ call.phase \in {"open", "wait"} => s \in held
  BY DEF NoServer, UseSession, OpenSession, Reconnect, SendFails, Calling, IInv, CallKept
<1>t. call \in [server : Servers \cup {Nobody},
                phase : {"none", "route", "open", "wait"}, id : Nat]
  BY DEF IInv, TypeOK
<1>p. ASSUME Proceed("open")
      PROVE  /\ UNCHANGED <<lock, result>>
             /\ call' \in [server : {s}, phase : {"open", "wait"}, id : Nat]
  BY <1>t, <1>p DEF Proceed
<1>f. ASSUME faults < MaxFaults, faults' = faults + 1
      PROVE  faults' \in 0..MaxFaults
  BY <1>f, McpAssumption DEF IInv, TypeOK
<1>1. CASE NoServer(r) \/ SendFails(r)
  BY <1>0, <1>1, ReturnOK DEF NoServer, SendFails, IInv, TypeOK
<1>2. CASE UseSession(r)
  <2>1. UNCHANGED <<held, session, live, extraEnv, overlay, faults>> /\ s \in held
    BY <1>2 DEF UseSession, KeepSessions, Elsewhere
  <2>2. Sessions'
    BY <2>1, SessionsKept DEF IInv
  <2> QED
    BY <1>0, <1>p, <1>2, <2>1, <2>2, CallStepOK DEF UseSession, IInv, TypeOK
<1>3. CASE OpenSession(r)
  <2> DEFINE ses == Connected(NewSession(Overlaid(extraEnv)))
  <2>1. ses \in Session /\ ses.env = Overlaid(extraEnv) /\ ses.proc = "up"
    BY EnvTyped, NewSessionTyped DEF Overlaid, IInv, TypeOK
  <2>2. CASE /\ Spawn(s, NewSession(Overlaid(extraEnv)))
             /\ held' = held \cup {s}
             /\ Proceed("open")
             /\ UNCHANGED faults
    <3>1. live[s] = 0
      BY <1>3, <1>0, KeptSession DEF OpenSession
    <3>2. session' = [session EXCEPT ![s] = ses]
      BY <2>2 DEF Spawn
    <3>3. live' = [live EXCEPT ![s] = IF ses.proc = "up" THEN 1 ELSE 0]
      BY <2>1, <2>2, <3>1 DEF Spawn
    <3>4. call.phase = "route"
      BY <1>3 DEF OpenSession, Calling
    <3> HIDE DEF ses
    <3> QED
      BY <1>0, <1>p, <2>1, <2>2, <3>2, <3>3, <3>4, SessionCallOK DEF IInv, TypeOK
  <2>3. CASE faults < MaxFaults /\ faults' = faults + 1 /\ Return(r, {}) /\ KeepSessions
    BY <1>0, <1>f, <2>3, ReturnOK
  <2> QED
    BY <1>3, <2>2, <2>3 DEF OpenSession
<1>4. CASE Reconnect(r)
  <2> DEFINE ses == Connected(session[s])
  <2>0. s \in held /\ session[s].proc = "none"
    BY <1>0, <1>4 DEF Reconnect, Calling
  <2>1. /\ ses \in Session /\ ses.env = Overlaid(extraEnv) /\ ses.proc = "up"
        /\ live[s] = 0
    BY <1>0, <2>0, KeptSession, SessionTyped
  <2>2. CASE Spawn(s, session[s]) /\ Proceed("open") /\ UNCHANGED <<held, faults>>
    <3>1. session' = [session EXCEPT ![s] = ses]
      BY <2>2 DEF Spawn
    <3>2. live' = [live EXCEPT ![s] = IF ses.proc = "up" THEN 1 ELSE 0]
      BY <2>1, <2>2 DEF Spawn
    <3>3. held' = held \cup {s}
      BY <2>0, <2>2
    <3> HIDE DEF ses
    <3> QED
      BY <1>0, <1>p, <2>0, <2>1, <2>2, <3>1, <3>2, <3>3, SessionCallOK DEF IInv, TypeOK
  <2>3. CASE faults < MaxFaults /\ faults' = faults + 1 /\ Return(r, {}) /\ KeepSessions
    BY <1>0, <1>f, <2>3, ReturnOK
  <2> QED
    BY <1>4, <2>2, <2>3 DEF Reconnect
<1> QED
  BY <1>1, <1>2, <1>3, <1>4

\* A request that was written is one more the process has to answer.
LEMMA AskedTyped ==
    ASSUME NEW ses \in Session, NEW q \in Nat \X Request
    PROVE  LET new == [ses EXCEPT !.nextId = @ + 1, !.asked = @ \cup {q}]
           IN  new \in Session /\ new.env = ses.env /\ new.proc = ses.proc
<1> DEFINE Pairs == Nat \X Request
<1>1. ses \in [env : Env, proc : {"none", "up", "down"}, initialized : BOOLEAN,
               nextId : Nat, asked : SUBSET Pairs, pipe : Seq(Message)]
  BY DEF Session
<1>2. q \in Pairs
  OBVIOUS
<1> HIDE DEF Pairs
<1>3. /\ ses.nextId + 1 \in Nat /\ ses.asked \cup {q} \in SUBSET Pairs
  BY <1>1, <1>2
<1>4. [ses EXCEPT !.nextId = @ + 1, !.asked = @ \cup {q}]
        \in [env : Env, proc : {"none", "up", "down"}, initialized : BOOLEAN,
            nextId : Nat, asked : SUBSET Pairs, pipe : Seq(Message)]
  BY <1>1, <1>3
<1> QED
  BY <1>1, <1>4 DEF Session, Pairs

LEMMA SendOK ==
    ASSUME IInv, NEW r \in Runs, Send(r)
    PROVE  IInv'
<1> DEFINE s == call.server
           q == <<session[s].nextId, <<r, calls[r], Method>>>>
           ses == [session[s] EXCEPT !.nextId = @ + 1, !.asked = @ \cup {q}]
<1>0. /\ lock = r /\ s \in Servers /\ s \in held /\ Elsewhere
      /\ calls[r] \in 1..MaxCalls /\ session[s].proc = "up"
  BY DEF Send, Calling, IInv, CallKept
<1>1. /\ session[s] \in Session /\ session[s].env = Overlaid(extraEnv)
      /\ live[s] = 1
  BY <1>0, KeptSession
<1>2. q \in Nat \X Request
  BY <1>0, <1>1 DEF Session, Request, Method
<1>3. ses \in Session /\ ses.env = session[s].env /\ ses.proc = "up"
  BY <1>0, <1>1, <1>2, AskedTyped
<1>4. session' = [session EXCEPT ![s] = ses]
  BY <1>0 DEF Send, IInv, TypeOK
<1>5. live' = [live EXCEPT ![s] = IF ses.proc = "up" THEN 1 ELSE 0] /\ held' = held \cup {s}
  BY <1>0, <1>1, <1>3 DEF Send, IInv, TypeOK
<1>6. /\ UNCHANGED <<lock, result, faults>>
      /\ call' \in [server : {s}, phase : {"open", "wait"}, id : Nat]
  BY <1>1 DEF Send, IInv, TypeOK, Session
<1> HIDE DEF ses, q
<1> QED
  BY <1>0, <1>1, <1>3, <1>4, <1>5, <1>6, SessionCallOK DEF IInv, TypeOK

\* The session of a call that reads, after its first message was taken and
\* possibly initialized.
LEMMA ReadOK ==
    ASSUME IInv, NEW r \in Runs, Waiting(r), Elsewhere,
           NEW ses \in Session, ses.env = session[call.server].env,
           ses.proc = session[call.server].proc,
           session' = [session EXCEPT ![call.server] = ses],
           UNCHANGED <<held, live, faults>>,
           \/ lock' = Nobody /\ call' = NoCall /\ result' \in [Runs -> SUBSET Request]
           \/ /\ UNCHANGED <<lock, result>>
              /\ call' \in [server : {call.server}, phase : {"open", "wait"}, id : Nat]
    PROVE  IInv'
<1> DEFINE s == call.server
<1>0. lock = r /\ s \in Servers /\ s \in held
  BY DEF Waiting, Calling, IInv, CallKept
<1>1. /\ session[s].env = Overlaid(extraEnv)
      /\ live[s] = IF ses.proc = "up" THEN 1 ELSE 0
  BY <1>0, KeptSession
<1>2. /\ live' = [live EXCEPT ![s] = IF ses.proc = "up" THEN 1 ELSE 0]
      /\ held' = held \cup {s}
  BY <1>0, <1>1 DEF IInv, TypeOK
<1> QED
  BY <1>0, <1>1, <1>2, SessionCallOK DEF IInv, TypeOK

LEMMA Taken ==
    ASSUME IInv, NEW r \in Runs, Waiting(r), Pipe # <<>>
    PROVE  LET ses == [session[call.server] EXCEPT !.pipe = Tail(@)]
           IN  /\ ses \in Session /\ ses.env = session[call.server].env
               /\ ses.proc = session[call.server].proc
               /\ Take => session' = [session EXCEPT ![call.server] = ses]
               /\ Head(Pipe) \in Message
<1>1. call.server \in Servers /\ session[call.server] \in Session
  BY KeptSession DEF Waiting, Calling, IInv, CallKept
<1>2. Pipe \in Seq(Message)
  BY <1>1 DEF Pipe, Session
<1>3. Head(Pipe) \in Message /\ Tail(Pipe) \in Seq(Message)
  BY <1>2
<1> QED
  BY <1>1, <1>3 DEF Take, Pipe, Session, IInv, TypeOK

LEMMA ReceiveOK ==
    ASSUME IInv, NEW r \in Runs,
           SkipMessage(r) \/ Initialized(r) \/ Answered(r) \/ ReadFails(r)
    PROVE  IInv'
<1> DEFINE s == call.server
           taken == [session[s] EXCEPT !.pipe = Tail(@)]
<1>0. Waiting(r) /\ Elsewhere /\ UNCHANGED <<held, live, faults>> /\ s \in Servers
  BY DEF SkipMessage, Initialized, Answered, ReadFails, Waiting, Calling, IInv, CallKept
<1>1. session[s] \in Session
  BY <1>0, KeptSession
<1>t. call \in [server : Servers \cup {Nobody},
                phase : {"none", "route", "open", "wait"}, id : Nat]
  BY DEF IInv, TypeOK
<1>e. ASSUME Return(r, {})
      PROVE  lock' = Nobody /\ call' = NoCall /\ result' \in [Runs -> SUBSET Request]
  BY <1>e DEF Return, IInv, TypeOK
<1>2. CASE SkipMessage(r)
  <2>1. call' \in [server : {s}, phase : {"open", "wait"}, id : Nat]
    BY <1>2, <1>0, <1>t DEF SkipMessage, Waiting, Calling
  <2> QED
    BY <1>0, <1>2, <2>1, Taken, ReadOK DEF SkipMessage
<1>3. CASE Initialized(r)
  <2>1. CASE Head(Pipe).ok /\ session[s].proc = "up"
    <3> DEFINE ses == [session[s] EXCEPT !.pipe = Tail(@), !.initialized = TRUE]
    <3>1. taken \in Session /\ Pipe # <<>>
      BY <1>0, <1>3, Taken DEF Initialized
    <3>2. ses \in Session /\ ses.env = session[s].env /\ ses.proc = session[s].proc
      BY <1>1, <3>1 DEF Session
    <3>3. session' = [session EXCEPT ![s] = ses] /\ Proceed("open")
      BY <1>3, <1>0, <2>1 DEF Initialized, IInv, TypeOK
    <3>4. /\ UNCHANGED <<lock, result>>
          /\ call' \in [server : {s}, phase : {"open", "wait"}, id : Nat]
      BY <3>3, <1>t DEF Proceed
    <3> HIDE DEF ses
    <3> QED
      BY <1>0, <3>2, <3>3, <3>4, ReadOK
  <2>2. CASE ~(Head(Pipe).ok /\ session[s].proc = "up")
    BY <1>0, <1>3, <1>e, <2>2, Taken, ReadOK DEF Initialized
  <2> QED
    BY <2>1, <2>2
<1>4. CASE Answered(r)
  <2>1. Head(Pipe) \in Message /\ Head(Pipe).kind = "answer" /\ Pipe # <<>>
    BY <1>0, <1>4, Taken DEF Answered, IsAnswer
  <2>2. Head(Pipe).of \in Request
    BY <2>1 DEF Message
  <2>3. lock' = Nobody /\ call' = NoCall /\ result' \in [Runs -> SUBSET Request]
    BY <1>4, <2>2 DEF Answered, Return, IInv, TypeOK
  <2> QED
    BY <1>0, <1>4, <2>1, <2>3, Taken, ReadOK DEF Answered
<1>5. CASE ReadFails(r)
  <2>1. CASE Pipe # <<>> /\ Take
    BY <1>0, <1>5, <1>e, <2>1, Taken, ReadOK DEF ReadFails
  <2>2. CASE UNCHANGED session
    <3>1. session' = [session EXCEPT ![s] = session[s]]
      BY <2>2, <1>0 DEF IInv, TypeOK
    <3> QED
      BY <1>0, <1>1, <1>5, <1>e, <3>1, ReadOK DEF ReadFails
  <2> QED
    BY <1>5, <2>1, <2>2 DEF ReadFails
<1> QED
  BY <1>2, <1>3, <1>4, <1>5

LEMMA TimeoutOK ==
    ASSUME IInv, NEW r \in Runs, Timeout(r)
    PROVE  IInv'
<1> DEFINE s == call.server
           ses == Closed(session[s])
<1>0. lock = r /\ s \in Servers /\ s \in held /\ Elsewhere
  BY DEF Timeout, Waiting, Calling, IInv, CallKept
<1>1. /\ ses \in Session /\ ses.env = Overlaid(extraEnv) /\ ses.proc = "none"
      /\ live[s] = Running(s)
  BY <1>0, KeptSession, SessionTyped DEF Running
<1>2. session' = [session EXCEPT ![s] = ses]
  BY DEF Timeout
<1>3. live' = [live EXCEPT ![s] = IF ses.proc = "up" THEN 1 ELSE 0] /\ held' = held \cup {s}
  <2>1. Running(s) - Running(s) = 0
    BY DEF Running
  <2> QED
    BY <1>0, <1>1, <2>1 DEF Timeout, IInv, TypeOK
<1>4. lock' = Nobody /\ call' = NoCall /\ result' \in [Runs -> SUBSET Request]
  BY DEF Timeout, Return, IInv, TypeOK
<1>5. faults' \in 0..MaxFaults
  BY DEF Timeout, IInv, TypeOK
<1> HIDE DEF ses
<1> QED
  BY <1>0, <1>1, <1>2, <1>3, <1>4, <1>5, SessionCallOK

LEMMA CallOK ==
    ASSUME IInv, NEW r \in Runs, CallStep(r)
    PROVE  IInv'
BY RouteOK, SendOK, ReceiveOK, TimeoutOK DEF CallStep

\* A call begins with a refresh, so it routes with an environment that has no
\* skill variables of its own.
LEMMA InvokeOK ==
    ASSUME IInv, NEW r \in Runs, NEW s \in Servers, Invoke(r, s)
    PROVE  IInv'
<1> USE DEF IInv
<1>0. /\ UNCHANGED <<store, overlay, catalog, pc, previous>> /\ Refresh
      /\ lock = Nobody /\ lock' = r
      /\ call' = [server |-> s, phase |-> "route", id |-> 0]
  BY DEF Invoke
<1>1. /\ extraEnv' \in Env /\ held' \subseteq held /\ session' \in [Servers -> Session]
      /\ live' \in [Servers -> Nat] /\ fellBack' \in BOOLEAN /\ faults' \in 0..MaxFaults
      /\ Sessions' /\ (~fellBack' => extraEnv'.keys = {})
  BY <1>0, RefreshOK
<1>2. /\ calls' \in [Runs -> 0..MaxCalls] /\ calls'[r] \in 1..MaxCalls
      /\ result' \in [Runs -> SUBSET Request]
  BY McpAssumption DEF Invoke, TypeOK
<1>3. TypeOK'
  BY <1>0, <1>1, <1>2 DEF TypeOK, store, catalog
<1>4. OverlayOwned'
  BY <1>0 DEF OverlayOwned
<1>5. CallKept'
  BY <1>0, <1>2 DEF CallKept
<1>6. ReloadFresh'
  BY <1>0, <1>1, McpAssumption DEF ReloadFresh, store, catalog, TypeOK
<1>7. BaseClean'
  BY <1>1 DEF BaseClean
<1> QED
  BY <1>1, <1>3, <1>4, <1>5, <1>6, <1>7

LEMMA RunOK ==
    ASSUME IInv, NEW r \in Runs, RunStep(r)
    PROVE  IInv'
BY ReadExtraOK, SetOverlayOK, ClearOverlayOK, RestoreOK, InvokeOK, CallOK DEF RunStep

-----------------------------------------------------------------------------
(* The steps of the child processes. *)

\* A child process only changes what it was asked and its pipe, or dies.
LEMMA ServerStepOK ==
    ASSUME IInv, NEW s \in Servers, NEW ses \in Session,
           ServerStep(s, ses), ses.env = session[s].env,
           live' = [live EXCEPT ![s] = IF ses.proc = "up" THEN 1 ELSE 0],
           faults' \in 0..MaxFaults
    PROVE  IInv'
<1> USE DEF IInv
<1>0. UNCHANGED <<store, extraEnv, overlay, held, catalog, lock, call, attempt, fellBack>>
  BY DEF ServerStep
<1>1. s \in held /\ ses.env = Overlaid(extraEnv)
  BY KeptSession DEF ServerStep
<1>2. /\ session' \in [Servers -> Session] /\ live' \in [Servers -> Nat]
      /\ Sessions'
  BY <1>0, <1>1, SessionStep DEF ServerStep
<1>3. TypeOK'
  BY <1>0, <1>2 DEF TypeOK, store, catalog, attempt
<1>4. OverlayOwned' /\ CallKept' /\ ReloadFresh' /\ BaseClean'
  BY <1>0
  DEF OverlayOwned, CallKept, ReloadFresh, BaseClean, store, catalog, attempt
<1> QED
  BY <1>2, <1>3, <1>4

\* A message more in the pipe, and one request less to answer.
LEMMA WrittenTyped ==
    ASSUME NEW ses \in Session, NEW m \in Message, NEW Q
    PROVE  LET new == [ses EXCEPT !.asked = @ \ Q, !.pipe = Append(@, m)]
           IN  new \in Session /\ new.env = ses.env /\ new.proc = ses.proc
<1> DEFINE Pairs == Nat \X Request
           Lines == Seq(Message)
           S == [env : Env, proc : {"none", "up", "down"}, initialized : BOOLEAN,
                 nextId : Nat, asked : SUBSET Pairs, pipe : Lines]
<1>1. ses \in S
  BY DEF Session
<1>2. Append(ses.pipe, m) \in Lines
  BY <1>1
<1> HIDE DEF Pairs, Lines
<1>3. ses.asked \ Q \in SUBSET Pairs
  BY <1>1
<1>4. [ses EXCEPT !.asked = @ \ Q, !.pipe = Append(@, m)] \in S
  BY <1>1, <1>2, <1>3
<1> QED
  BY <1>1, <1>4 DEF Session, Pairs, Lines

LEMMA ServerActsOK ==
    ASSUME IInv, NEW s \in Servers, ServerActs(s)
    PROVE  IInv'
<1>1. CASE Answer(s)
  <2>1. PICK q \in session[s].asked, ok \in BOOLEAN :
          /\ ServerStep(s, [session[s] EXCEPT
               !.asked = @ \ {q},
               !.pipe = Append(@, [kind |-> "answer", id |-> q[1], of |-> q[2], ok |-> ok])])
          /\ UNCHANGED <<live, faults>>
    BY <1>1 DEF Answer
  <2> DEFINE m == [kind |-> "answer", id |-> q[1], of |-> q[2], ok |-> ok]
             ses == [session[s] EXCEPT !.asked = @ \ {q}, !.pipe = Append(@, m)]
  <2>2. session[s] \in Session /\ session[s].proc = "up"
    BY <2>1, KeptSession DEF ServerStep
  <2>3. q \in Nat \X Request
    BY <2>2 DEF Session
  <2>4. m \in Message
    BY <2>3 DEF Message
  <2>5. ses \in Session /\ ses.env = session[s].env /\ ses.proc = "up"
    <3> HIDE DEF m
    <3> QED
      BY <2>2, <2>4, WrittenTyped
  <2>6. live[s] = 1
    BY <2>2, KeptSession
  <2>7. live' = [live EXCEPT ![s] = IF ses.proc = "up" THEN 1 ELSE 0]
    BY <2>1, <2>5, <2>6 DEF IInv, TypeOK
  <2>8. ServerStep(s, ses)
    BY <2>1
  <2> HIDE DEF ses
  <2> QED
    BY <2>1, <2>5, <2>7, <2>8, ServerStepOK DEF IInv, TypeOK
<1>2. CASE Babble(s)
  <2>1. PICK k \in {"notice", "garbage"} :
          /\ faults < MaxFaults /\ faults' = faults + 1
          /\ ServerStep(s, [session[s] EXCEPT
               !.pipe = Append(@, [kind |-> k, id |-> 0, of |-> Nobody, ok |-> FALSE])])
          /\ UNCHANGED live
    BY <1>2 DEF Babble
  <2> DEFINE m == [kind |-> k, id |-> 0, of |-> Nobody, ok |-> FALSE]
             ses == [session[s] EXCEPT !.pipe = Append(@, m)]
             new == [session[s] EXCEPT !.asked = @ \ {}, !.pipe = Append(@, m)]
  <2>2. session[s] \in Session /\ session[s].proc = "up" /\ live[s] = 1
    BY <2>1, KeptSession DEF ServerStep
  <2>3. m \in Message
    BY DEF Message
  <2>4. ses \in Session /\ ses.env = session[s].env /\ ses.proc = "up"
    <3> HIDE DEF m
    <3>1. new \in Session /\ new.env = session[s].env /\ new.proc = "up"
      BY <2>2, <2>3, WrittenTyped
    <3>2. ses = new
      BY <2>2 DEF Session
    <3> QED
      BY <3>1, <3>2
  <2>5. live' = [live EXCEPT ![s] = IF ses.proc = "up" THEN 1 ELSE 0]
    BY <2>1, <2>2, <2>4 DEF IInv, TypeOK
  <2>6. ServerStep(s, ses) /\ faults' \in 0..MaxFaults
    BY <2>1, McpAssumption DEF IInv, TypeOK
  <2> HIDE DEF ses
  <2> QED
    BY <2>4, <2>5, <2>6, ServerStepOK
<1>3. CASE Die(s)
  <2> DEFINE ses == [session[s] EXCEPT !.proc = "down", !.asked = {}]
  <2>1. session[s] \in Session /\ session[s].proc = "up" /\ live[s] = 1
    BY <1>3, KeptSession DEF Die, ServerStep
  <2>2. ses \in Session /\ ses.env = session[s].env /\ ses.proc = "down"
    <3>1. {} \in SUBSET (Nat \X Request)
      OBVIOUS
    <3> QED
      BY <2>1, <3>1 DEF Session
  <2>3. live' = [live EXCEPT ![s] = IF ses.proc = "up" THEN 1 ELSE 0]
    BY <1>3, <2>1, <2>2 DEF Die, IInv, TypeOK
  <2>4. ServerStep(s, ses) /\ faults' \in 0..MaxFaults
    BY <1>3, McpAssumption DEF Die, IInv, TypeOK
  <2> HIDE DEF ses
  <2> QED
    BY <2>2, <2>3, <2>4, ServerStepOK
<1> QED
  BY <1>1, <1>2, <1>3 DEF ServerActs
-----------------------------------------------------------------------------
(* The steps of the administrator. *)

LEMMA EditOK ==
    ASSUME IInv, EditEnv \/ \E R \in SUBSET Servers : EditRows(R)
    PROVE  IInv'
<1> USE DEF IInv
<1>1. /\ UNCHANGED <<manager, catalog, lock, call, attempt, fellBack, faults>>
      /\ UNCHANGED admin \/ (admin = "idle" /\ admin' = "reload")
  BY DEF EditEnv, EditRows
<1>2. TypeOK'
  <2>1. CASE EditEnv
    <3>1. settings' \in 0..MaxEdits /\ edits' \in settings'..MaxEdits
      BY <2>1, McpAssumption DEF EditEnv, TypeOK
    <3> QED
      BY <1>1, <2>1, <3>1 DEF EditEnv, TypeOK, manager, catalog, attempt
  <2>2. CASE \E R \in SUBSET Servers : EditRows(R)
    <3>1. edits' \in settings'..MaxEdits
      BY <2>2, McpAssumption DEF EditRows, TypeOK
    <3> QED
      BY <1>1, <2>2, <3>1 DEF EditRows, TypeOK, manager, catalog, attempt
  <2> QED
    BY <2>1, <2>2
<1>3. Sessions'
  BY <1>1, SessionsKept DEF manager
<1>4. OverlayOwned' /\ CallKept' /\ ReloadFresh' /\ BaseClean'
  BY <1>1
  DEF OverlayOwned, CallKept, ReloadFresh, BaseClean, manager, catalog, attempt
<1> QED
  BY <1>2, <1>3, <1>4

LEMMA PushEnvOK ==
    ASSUME IInv, PushEnv
    PROVE  IInv'
<1>1. extraEnv' \in Env
  BY McpAssumption DEF PushEnv, Provided, Env, IInv, TypeOK
<1>2. OverlayOwned'
  BY DEF PushEnv, OverlayOwned, attempt, IInv
<1> QED
  BY <1>1, <1>2, ClosingStepOK DEF PushEnv, attempt, IInv, TypeOK

LEMMA BeginReloadOK ==
    ASSUME IInv, BeginReload
    PROVE  IInv'
<1> USE DEF IInv
<1>1. /\ held' = {} /\ session' \in [Servers -> Session]
      /\ live' \in [Servers -> Nat] /\ Sessions'
  BY CloseAllOK DEF BeginReload
<1>2. TypeOK'
  BY <1>1 DEF BeginReload, TypeOK, attempt
<1>3. OverlayOwned'
  BY DEF BeginReload, OverlayOwned, attempt
<1>4. CallKept'
  BY McpAssumption DEF BeginReload, CallKept
<1>5. ReloadFresh'
  BY <1>1, McpAssumption DEF BeginReload, ReloadFresh, TypeOK
<1>6. BaseClean'
  BY <1>1, McpAssumption DEF BeginReload, BaseClean, CallKept, ReloadFresh
<1> QED
  BY <1>1, <1>2, <1>3, <1>4, <1>5, <1>6

LEMMA RegisterOK ==
    ASSUME IInv, NEW s \in Servers, Register(s)
    PROVE  IInv'
<1> USE DEF IInv
<1>0. UNCHANGED <<store, overlay, loaded, lock, call, attempt>> /\ Refresh
  BY DEF Register
<1>1. /\ extraEnv' \in Env /\ held' \subseteq held /\ session' \in [Servers -> Session]
      /\ live' \in [Servers -> Nat] /\ fellBack' \in BOOLEAN /\ faults' \in 0..MaxFaults
      /\ Sessions' /\ (~fellBack' => extraEnv'.keys = {})
  BY <1>0, RefreshOK
<1>2. TypeOK'
  BY <1>0, <1>1 DEF Register, TypeOK, store, attempt
<1>3. OverlayOwned'
  BY <1>0 DEF OverlayOwned, attempt
<1>4. CallKept' /\ ReloadFresh'
  BY <1>0, <1>1, McpAssumption
  DEF Register, CallKept, ReloadFresh, store, attempt
<1>5. BaseClean'
  BY <1>1 DEF BaseClean
<1> QED
  BY <1>1, <1>2, <1>3, <1>4, <1>5

LEMMA ConnectServerOK ==
    ASSUME IInv, NEW s \in Servers, ConnectServer(s)
    PROVE  IInv'
<1> USE DEF IInv
<1> DEFINE ses == Connected(NewSession(Overlaid(extraEnv)))
<1>0. /\ UNCHANGED <<store, extraEnv, overlay, todo, lock, call, attempt, fellBack>>
      /\ loading = s /\ loading' = Nobody /\ s \notin held /\ s \notin todo
      /\ lock = Loader
  BY McpAssumption DEF ConnectServer, ReloadFresh
<1>1. ses \in Session /\ ses.env = Overlaid(extraEnv) /\ ses.proc = "up"
  BY EnvTyped, NewSessionTyped DEF Overlaid, TypeOK
<1>2. /\ held' \in {held, held \cup {s}} /\ held' \subseteq Servers
      /\ session' \in [Servers -> Session] /\ live' \in [Servers -> Nat]
      /\ loaded' \subseteq Servers /\ registered' \subseteq Servers
      /\ faults' \in 0..MaxFaults /\ Sessions'
  <2>1. CASE /\ Spawn(s, NewSession(Overlaid(extraEnv)))
             /\ held' = held \cup {s} /\ loaded' = loaded \cup {s}
             /\ registered' = registered \cup {s}
             /\ UNCHANGED faults
    <3>1. live[s] = 0
      BY <1>0, KeptSession
    <3>2. session' = [session EXCEPT ![s] = ses]
      BY <2>1 DEF Spawn
    <3>3. live' = [live EXCEPT ![s] = IF ses.proc = "up" THEN 1 ELSE 0]
      BY <1>1, <2>1, <3>1 DEF Spawn
    <3> HIDE DEF ses
    <3> QED
      BY <1>0, <1>1, <2>1, <3>2, <3>3, SessionStep DEF TypeOK
  <2>2. CASE /\ faults < MaxFaults /\ faults' = faults + 1
             /\ KeepSessions /\ UNCHANGED <<loaded, registered>>
    <3>1. UNCHANGED <<held, session, live, extraEnv, overlay>>
      BY <1>0, <2>2 DEF KeepSessions
    <3>2. Sessions'
      BY <3>1, SessionsKept
    <3> QED
      BY <2>2, <3>1, <3>2, McpAssumption DEF TypeOK
  <2> QED
    BY <2>1, <2>2 DEF ConnectServer
<1>3. TypeOK'
  BY <1>0, <1>2 DEF TypeOK, store, attempt
<1>4. OverlayOwned'
  BY <1>0 DEF OverlayOwned, attempt
<1>5. CallKept'
  BY <1>0, <1>2 DEF CallKept, attempt
<1>6. ReloadFresh'
  BY <1>0, <1>2, McpAssumption DEF ReloadFresh, store, TypeOK
<1>7. BaseClean'
  BY <1>0, McpAssumption DEF BaseClean, TypeOK
<1> QED
  BY <1>2, <1>3, <1>4, <1>5, <1>6, <1>7

LEMMA EndReloadOK ==
    ASSUME IInv, EndReload
    PROVE  IInv'
<1> USE DEF IInv
<1>0. /\ UNCHANGED <<settings, rows, pushing, edits, manager, catalog, call, attempt,
                     fellBack, faults>>
      /\ lock = Loader /\ lock' = Nobody /\ admin' = "idle"
      /\ todo = {} /\ loading = Nobody
  BY DEF EndReload, ReloadFresh
<1>1. Sessions'
  BY <1>0, SessionsKept DEF manager
<1>2. TypeOK'
  BY <1>0 DEF TypeOK, manager, catalog, attempt
<1>3. OverlayOwned' /\ CallKept' /\ ReloadFresh' /\ BaseClean'
  BY <1>0, McpAssumption
  DEF OverlayOwned, CallKept, ReloadFresh, BaseClean, manager, catalog, attempt
<1> QED
  BY <1>1, <1>2, <1>3

LEMMA StutterOK ==
    ASSUME IInv, UNCHANGED vars
    PROVE  IInv'
<1> USE DEF IInv
<1>1. /\ UNCHANGED <<settings, rows, pushing, admin, edits>>
      /\ UNCHANGED <<extraEnv, overlay, held, session, live>>
      /\ UNCHANGED <<loaded, registered, todo, loading>>
      /\ UNCHANGED <<pc, previous, calls, result>>
      /\ UNCHANGED <<lock, call, fellBack, faults>>
  BY DEF vars, store, manager, catalog, attempt
<1>2. Sessions'
  BY <1>1, SessionsKept
<1>3. TypeOK' /\ OverlayOwned'
  BY <1>1 DEF TypeOK, OverlayOwned
<1>4. CallKept' /\ ReloadFresh' /\ BaseClean'
  BY <1>1 DEF CallKept, ReloadFresh, BaseClean
<1> QED
  BY <1>2, <1>3, <1>4

-----------------------------------------------------------------------------
LEMMA NextOK ==
    ASSUME IInv, [Next]_vars
    PROVE  IInv'
<1>1. CASE \E r \in Runs : RunStep(r)
  BY <1>1, RunOK
<1>2. CASE \E s \in Servers : ServerActs(s)
  BY <1>2, ServerActsOK
<1>3. CASE EditEnv \/ PushEnv \/ \E R \in SUBSET Servers : EditRows(R)
  BY <1>3, EditOK, PushEnvOK
<1>4. CASE ReloadStep
  BY <1>4, BeginReloadOK, EndReloadOK, RegisterOK, ConnectServerOK DEF ReloadStep
<1>5. CASE UNCHANGED vars
  BY <1>5, StutterOK
<1> QED
  BY <1>1, <1>2, <1>3, <1>4, <1>5 DEF Next

\* The invariant holds of every behaviour.
THEOREM Invariance == Spec => []IInv
<1>1. IInv /\ [Next]_vars => IInv'
  BY NextOK
<1> QED
  BY InitOK, <1>1, PTL DEF Spec

\* The state of the manager, its sessions and the attempts keeps its shape; a
\* message of a child process is an answer to a request or carries no id.
THEOREM TypeCorrect == Spec => []TypeOK
<1>1. IInv => TypeOK
  BY DEF IInv
<1> QED
  BY <1>1, Invariance, PTL

\* No tool call ever uses a process started with another environment or another
\* overlay than the manager has now (McpServerManager, _close_all_sessions).
THEOREM SessionsAreCurrent == Spec => []SessionEnvCurrent
<1>1. IInv => SessionEnvCurrent
  BY DEF IInv, Sessions
<1> QED
  BY <1>1, Invariance, PTL

\* No child process outlives the session it was started for: the manager can
\* end every one of them.
THEOREM NoProcessEscapes == Spec => []NoStrayProcess
<1>1. IInv => NoStrayProcess
  BY DEF IInv, Sessions
<1> QED
  BY <1>1, Invariance, PTL

\* The overlay is that of an attempt between set_run_env_overlay(extra) and its
\* finally clause, for any number of attempts interleaved.
THEOREM OverlaysAreOwned == Spec => []OverlayOwned
<1>1. IInv => OverlayOwned
  BY DEF IInv
<1> QED
  BY <1>1, Invariance, PTL

\* Unless the settings could not be read once, the variables of a skill are in
\* no child process when no attempt that declares them runs: every call and
\* every registration first replaces the extra_env another attempt set back.
THEOREM KeysEnd == Spec => []KeysEndWithRun
<1>1. IInv => KeysEndWithRun
  <2> SUFFICES ASSUME IInv, ~fellBack, NEW s \in held
               PROVE  session[s].env.keys \subseteq
                        UNION {RunKeys[r] : r \in {x \in Runs : pc[x] = "running"}}
    BY DEF KeysEndWithRun
  <2>1. extraEnv \in Env /\ overlay \in SUBSET Keys /\ s \in Servers
    BY DEF IInv, TypeOK
  <2>2. session[s].env.keys = extraEnv.keys \cup overlay
    BY <2>1, EnvTyped DEF IInv, Sessions, SessionEnvCurrent, Overlaid
  <2>3. extraEnv.keys = {}
    BY DEF IInv, BaseClean
  <2> QED
    BY <2>2, <2>3 DEF IInv, OverlayOwned
<1> QED
  BY <1>1, Invariance, PTL

\* Both: the processes of a manager are those it would start now, and no others.
THEOREM ProcessesAreCurrent == Spec => []ProcessesCurrent
<1>1. SessionEnvCurrent /\ NoStrayProcess => ProcessesCurrent
  BY DEF ProcessesCurrent
<1> QED
  BY <1>1, SessionsAreCurrent, NoProcessEscapes, PTL

\* Both: what an attempt adds to the environment ends with it.
THEOREM OverlaysContained == Spec => []OverlayContained
<1>1. OverlayOwned /\ KeysEndWithRun => OverlayContained
  BY DEF OverlayContained
<1> QED
  BY <1>1, OverlaysAreOwned, KeysEnd, PTL
-----------------------------------------------------------------------------
(* Which request a message answers.                                        *)

Lines(ses) == {ses.pipe[j] : j \in DOMAIN ses.pipe}
AnswersOf(ses) == {m \in Lines(ses) : m.kind = "answer"}

\* An id that is in use has been given out.
Sealed(ses) ==
    /\ \A p \in ses.asked : p[1] < ses.nextId
    /\ \A m \in AnswersOf(ses) : m.id < ses.nextId

\* The id belongs to the request.
Owns(ses, id, request) ==
    /\ id < ses.nextId
    /\ \A p \in ses.asked : p[1] = id => p[2] = request
    /\ \A m \in AnswersOf(ses) : m.id = id => m.of = request

\* The request the call in progress waits for.
Wanted == <<lock, calls[lock], Method>>

AllSealed == \A s \in Servers : Sealed(session[s])
IdIsOwn == call.phase = "wait" => Owns(session[call.server], call.id, Wanted)
OInv == AllSealed /\ IdIsOwn /\ ResultIsOwn

LEMMA LinesTail ==
    ASSUME NEW ses \in Session, ses.pipe # <<>>, NEW new,
           new.pipe = Tail(ses.pipe)
    PROVE  Lines(new) \subseteq Lines(ses) /\ Head(ses.pipe) \in Lines(ses)
<1> DEFINE p == ses.pipe
<1>1. p \in Seq(Message)
  BY DEF Session
<1>2. Len(p) \in Nat \ {0} /\ DOMAIN p = 1 .. Len(p) /\ DOMAIN Tail(p) = 1 .. Len(p) - 1
  BY <1>1
<1>3. \A j \in 1 .. Len(p) - 1 : Tail(p)[j] = p[j + 1]
  BY <1>1
<1>4. Head(p) = p[1]
  BY <1>1
<1> HIDE DEF p
<1>5. Lines(new) = {Tail(p)[j] : j \in DOMAIN Tail(p)} /\ Lines(ses) = {p[j] : j \in DOMAIN p}
  BY DEF Lines, p
<1>6. \A j \in 1 .. Len(p) - 1 : j + 1 \in 1 .. Len(p)
  BY <1>2
<1>7. Head(p) \in Lines(ses)
  BY <1>2, <1>4, <1>5
<1>8. Lines(new) \subseteq Lines(ses)
  BY <1>2, <1>3, <1>5, <1>6
<1> QED
  BY <1>7, <1>8 DEF p

LEMMA LinesAppend ==
    ASSUME NEW ses \in Session, NEW m \in Message, NEW new,
           new.pipe = Append(ses.pipe, m)
    PROVE  Lines(new) \subseteq Lines(ses) \cup {m}
<1> DEFINE p == ses.pipe
<1>1. p \in Seq(Message)
  BY DEF Session
<1>2. Len(p) \in Nat /\ DOMAIN p = 1 .. Len(p) /\ DOMAIN Append(p, m) = 1 .. Len(p) + 1
  BY <1>1
<1>3. \A j \in 1 .. Len(p) + 1 : Append(p, m)[j] = m \/ (j \in 1 .. Len(p) /\ Append(p, m)[j] = p[j])
  BY <1>1
<1> HIDE DEF p
<1> QED
  BY <1>2, <1>3 DEF Lines, p

\* Taking messages away, and answering what was asked, keeps the ids in order.
LEMMA SealedKept ==
    ASSUME NEW ses, NEW new, Sealed(ses), new.nextId = ses.nextId,
           new.asked \subseteq ses.asked,
           \A m \in AnswersOf(new) : m \in AnswersOf(ses) \/ <<m.id, m.of>> \in ses.asked,
           NEW id, NEW request
    PROVE  Sealed(new) /\ (Owns(ses, id, request) => Owns(new, id, request))
<1>1. \A m \in AnswersOf(new) : m.id < new.nextId
  <2> SUFFICES ASSUME NEW m \in AnswersOf(new) PROVE m.id < new.nextId
    OBVIOUS
  <2>1. CASE m \in AnswersOf(ses)
    BY <2>1 DEF Sealed
  <2>2. CASE <<m.id, m.of>> \in ses.asked
    <3>1. <<m.id, m.of>>[1] < ses.nextId
      BY <2>2 DEF Sealed
    <3> QED BY <3>1
  <2> QED BY <2>1, <2>2
<1>2. ASSUME Owns(ses, id, request), NEW m \in AnswersOf(new), m.id = id PROVE m.of = request
  <2>1. CASE m \in AnswersOf(ses)
    BY <1>2, <2>1 DEF Owns
  <2>2. CASE <<m.id, m.of>> \in ses.asked
    <3>1. <<m.id, m.of>>[1] = id => <<m.id, m.of>>[2] = request
      BY <1>2, <2>2 DEF Owns
    <3> QED BY <1>2, <3>1
  <2> QED BY <2>1, <2>2
<1> QED
  BY <1>1, <1>2 DEF Sealed, Owns

LEMMA NewSealed ==
    ASSUME NEW ses, ses.asked = {}, ses.pipe = <<>>
    PROVE  Sealed(ses)
BY DEF Sealed, AnswersOf, Lines

LEMMA DiscardedSealed ==
    /\ Sealed(Discarded) /\ \A e : Sealed(Connected(NewSession(e)))
<1>1. /\ Discarded.asked = {} /\ Discarded.pipe = <<>>
      /\ \A e : Connected(NewSession(e)).asked = {} /\ Connected(NewSession(e)).pipe = <<>>
  BY DEF Discarded, NewSession, Connected
<1> QED
  BY <1>1, NewSealed

LEMMA InitOwn == Init => OInv
<1> SUFFICES ASSUME Init PROVE OInv
  OBVIOUS
<1>1. AllSealed
  BY DiscardedSealed DEF Init, AllSealed
<1> QED
  BY <1>1 DEF Init, OInv, IdIsOwn, ResultIsOwn, NoCall

LEMMA ClosedSealed ==
    ASSUME CloseAll \/ KeepSessions, AllSealed PROVE AllSealed'
BY DiscardedSealed DEF AllSealed, CloseAll, KeepSessions

LEMMA RefreshSealed ==
    ASSUME Refresh, AllSealed PROVE AllSealed'
<1>1. CloseAll \/ KeepSessions
  BY DEF Refresh
<1> QED BY <1>1, ClosedSealed

\* Steps outside a call.
LEMMA OutsideOwn ==
    ASSUME IInv, OInv, lock \notin Runs, AllSealed', call' = call, result' = result, calls' = calls
    PROVE  OInv'
BY DEF IInv, CallKept, OInv, IdIsOwn, ResultIsOwn

LEMMA BracketOwn ==
    ASSUME IInv, OInv,
           \/ \E r \in Runs : ReadExtra(r) \/ SetOverlay(r) \/ ClearOverlay(r) \/ Restore(r)
           \/ PushEnv \/ ReloadStep
    PROVE  OInv'
<1>0. AllSealed
  BY DEF OInv
<1>1. CASE \E r \in Runs : ReadExtra(r) \/ SetOverlay(r) \/ ClearOverlay(r) \/ Restore(r)
  <2>1. AllSealed'
    BY <1>0, <1>1, RefreshSealed, ClosedSealed DEF ReadExtra, SetOverlay, ClearOverlay, Restore
  <2> QED
    BY <1>1, <2>1, OutsideOwn, McpAssumption DEF ReadExtra, SetOverlay, ClearOverlay, Restore
<1>2. CASE PushEnv \/ BeginReload
  <2>1. AllSealed'
    BY <1>0, <1>2, ClosedSealed DEF PushEnv, BeginReload
  <2> QED
    BY <1>2, <2>1, OutsideOwn, McpAssumption DEF PushEnv, BeginReload, attempt
<1>3. CASE EndReload
  <2>1. AllSealed' /\ lock = Loader
    BY <1>0, <1>3 DEF EndReload, manager, AllSealed, IInv, ReloadFresh
  <2> QED
    BY <1>3, <2>1, OutsideOwn, McpAssumption DEF EndReload, attempt
<1>4. ASSUME NEW s \in Servers, Register(s) PROVE OInv'
  <2>1. AllSealed' /\ lock = Loader
    BY <1>0, <1>4, RefreshSealed DEF Register, IInv, ReloadFresh
  <2> QED
    BY <1>4, <2>1, OutsideOwn, McpAssumption DEF Register, attempt
<1>5. ASSUME NEW s \in Servers, ConnectServer(s) PROVE OInv'
  <2>1. lock = Loader
    BY <1>5 DEF ConnectServer, IInv, ReloadFresh
  <2>2. AllSealed'
    BY <1>0, <1>5, DiscardedSealed DEF ConnectServer, Spawn, KeepSessions, AllSealed, IInv, TypeOK
  <2> QED
    BY <1>5, <2>1, <2>2, OutsideOwn, McpAssumption DEF ConnectServer, attempt
<1> QED
  BY <1>1, <1>2, <1>3, <1>4, <1>5 DEF ReloadStep

\* A step of a call that gives the session of the call another state, or none.
LEMMA CallOwn ==
    ASSUME IInv, OInv, NEW r \in Runs, lock = r, calls' = calls,
           NEW ses, Sealed(ses),
           session' \in {session, [session EXCEPT ![call.server] = ses]},
           \/ /\ lock' = Nobody /\ call' = NoCall
              /\ \E value \in SUBSET {<<r, calls[r], "tools/call">>} :
                     result' = [result EXCEPT ![r] = value]
           \/ lock' = lock /\ result' = result /\ call'.phase # "wait"
    PROVE  OInv'
<1>1. AllSealed'
  BY DEF OInv, AllSealed, IInv, TypeOK
<1>2. IdIsOwn'
  BY DEF IdIsOwn, NoCall
<1>3. ResultIsOwn'
  BY DEF OInv, ResultIsOwn, IInv, TypeOK
<1> QED
  BY <1>1, <1>2, <1>3 DEF OInv

LEMMA RouteOwn ==
    ASSUME IInv, OInv, NEW r \in Runs,
           \/ NoServer(r) \/ UseSession(r) \/ OpenSession(r) \/ Reconnect(r) \/ SendFails(r)
           \/ Timeout(r)
    PROVE  OInv'
<1> DEFINE s == call.server
<1>0. lock = r /\ calls' = calls /\ s \in Servers
  BY DEF NoServer, UseSession, OpenSession, Reconnect, SendFails, Timeout, Waiting, Calling,
         Elsewhere, IInv, CallKept
<1>1. Sealed(session[s]) /\ session[s] \in Session
  BY <1>0, KeptSession DEF OInv, AllSealed
<1>t. call \in [server : Servers \cup {Nobody},
                phase : {"none", "route", "open", "wait"}, id : Nat]
  BY DEF IInv, TypeOK
<1>p. ASSUME Proceed("open") PROVE lock' = lock /\ result' = result /\ call'.phase # "wait"
  BY <1>t, <1>p DEF Proceed
<1>e. ASSUME Return(r, {})
      PROVE  /\ lock' = Nobody /\ call' = NoCall
             /\ \E value \in SUBSET {<<r, calls[r], "tools/call">>} :
                    result' = [result EXCEPT ![r] = value]
  BY <1>e DEF Return
<1>2. CASE NoServer(r) \/ UseSession(r) \/ SendFails(r)
  <2>1. session' = session
    BY <1>2 DEF NoServer, UseSession, SendFails, KeepSessions
  <2> QED
    BY <1>0, <1>1, <1>2, <1>p, <1>e, <2>1, CallOwn DEF NoServer, UseSession, SendFails
<1>3. CASE OpenSession(r) \/ Reconnect(r)
  <2>1. CASE Return(r, {}) /\ KeepSessions
    BY <1>0, <1>1, <1>e, <2>1, CallOwn DEF KeepSessions
  <2>2. CASE Spawn(s, NewSession(Overlaid(extraEnv))) /\ Proceed("open")
    <3> DEFINE ses == Connected(NewSession(Overlaid(extraEnv)))
    <3>1. Sealed(ses) /\ session' = [session EXCEPT ![s] = ses]
      BY <2>2, DiscardedSealed DEF Spawn
    <3> HIDE DEF ses
    <3> QED BY <1>0, <1>p, <2>2, <3>1, CallOwn
  <2>3. CASE Spawn(s, session[s]) /\ Proceed("open")
    <3> DEFINE ses == Connected(session[s])
    <3>1. /\ ses.asked = session[s].asked /\ ses.pipe = session[s].pipe
          /\ ses.nextId = session[s].nextId
      BY <1>1 DEF Connected, Session
    <3>2. session' = [session EXCEPT ![s] = ses]
      BY <2>3 DEF Spawn
    <3> HIDE DEF ses
    <3>3. Sealed(ses)
      BY <1>1, <3>1 DEF Sealed, AnswersOf, Lines
    <3> QED BY <1>0, <1>p, <2>3, <3>2, <3>3, CallOwn
  <2> QED
    BY <1>3, <2>1, <2>2, <2>3 DEF OpenSession, Reconnect
<1>4. CASE Timeout(r)
  <2> DEFINE ses == Closed(session[s])
  <2>1. ses.asked = {} /\ ses.pipe = <<>>
    BY <1>1 DEF Closed, Session
  <2>2. session' = [session EXCEPT ![s] = ses] /\ Return(r, {})
    BY <1>4 DEF Timeout
  <2> HIDE DEF ses
  <2>3. Sealed(ses)
    BY <2>1, NewSealed
  <2> QED BY <1>0, <1>e, <2>2, <2>3, CallOwn
<1> QED
  BY <1>2, <1>3, <1>4

\* The id of a new request is in no message yet.
LEMMA SendOwn ==
    ASSUME IInv, OInv, NEW r \in Runs, Send(r)
    PROVE  OInv'
<1> DEFINE s == call.server
           id == session[s].nextId
           q == <<id, <<r, calls[r], Method>>>>
           ses == [session[s] EXCEPT !.nextId = @ + 1, !.asked = @ \cup {q}]
<1>0. /\ lock = r /\ s \in Servers /\ calls' = calls /\ lock' = lock /\ result' = result
      /\ call' = [call EXCEPT !.phase = "wait", !.id = id]
  BY DEF Send, Calling, Elsewhere, IInv, CallKept
<1>1. /\ Sealed(session[s]) /\ session[s] \in Session
      /\ call \in [server : Servers \cup {Nobody},
                   phase : {"none", "route", "open", "wait"}, id : Nat]
  BY <1>0, KeptSession DEF OInv, AllSealed, IInv, TypeOK
<1>2. call'.server = s /\ call'.id = id /\ id \in Nat
  BY <1>0, <1>1 DEF Session
<1>3. session' = [session EXCEPT ![s] = ses]
  BY <1>0 DEF Send, IInv, TypeOK
<1>4. /\ ses.nextId = id + 1 /\ ses.asked = session[s].asked \cup {q}
      /\ ses.pipe = session[s].pipe /\ ses.initialized = session[s].initialized
  BY <1>1 DEF Session
<1>5. q[1] = id /\ q[2] = <<r, calls[r], Method>>
  OBVIOUS
<1>6. /\ \A p \in session[s].asked : p[1] \in Nat
      /\ \A m \in AnswersOf(session[s]) : m.id \in Nat
  <2>1. \A p \in session[s].asked : p[1] \in Nat
    BY <1>1 DEF Session
  <2>2. session[s].pipe \in Seq(Message)
    BY <1>1 DEF Session
  <2>3. ASSUME NEW m \in Message PROVE m.id \in Nat
    <3>1. CASE m \in [kind : {"answer"}, id : Nat, of : Request, ok : BOOLEAN]
      BY <3>1
    <3>2. CASE m \in [kind : {"notice", "garbage"}, id : {0}, of : {Nobody}, ok : {FALSE}]
      BY <3>2
    <3> QED BY <3>1, <3>2 DEF Message
  <2>4. \A m \in Lines(session[s]) : m \in Message
    BY <2>2 DEF Lines
  <2> QED BY <2>1, <2>3, <2>4 DEF AnswersOf
<1> HIDE DEF ses, q, id
<1>7. AnswersOf(ses) = AnswersOf(session[s])
  BY <1>4 DEF AnswersOf, Lines
<1>8. Sealed(ses) /\ Owns(ses, id, <<r, calls[r], Method>>)
  <2>1. /\ \A p \in session[s].asked : p[1] < id
        /\ \A m \in AnswersOf(session[s]) : m.id < id
    BY <1>1 DEF Sealed, id
  <2> QED BY <1>2, <1>4, <1>5, <1>6, <1>7, <2>1 DEF Sealed, Owns
<1>9. session'[s] = ses /\ \A t \in Servers \ {s} : session'[t] = session[t]
  BY <1>0, <1>3 DEF IInv, TypeOK
<1>10. AllSealed'
  BY <1>8, <1>9, <1>0 DEF OInv, AllSealed
<1>11. Wanted' = <<r, calls[r], Method>>
  BY <1>0, <1>2, <1>4, <1>9 DEF Wanted, Method
<1>12. IdIsOwn'
  BY <1>2, <1>8, <1>9, <1>11 DEF IdIsOwn
<1> QED
  BY <1>0, <1>10, <1>12 DEF OInv, ResultIsOwn

LEMMA ReceiveOwn ==
    ASSUME IInv, OInv, NEW r \in Runs,
           SkipMessage(r) \/ Initialized(r) \/ Answered(r) \/ ReadFails(r)
    PROVE  OInv'
<1> DEFINE s == call.server
           taken == [session[s] EXCEPT !.pipe = Tail(@)]
<1>0. Waiting(r) /\ lock = r /\ s \in Servers /\ calls' = calls /\ call.phase = "wait"
  BY DEF SkipMessage, Initialized, Answered, ReadFails, Waiting, Calling, Elsewhere, IInv, CallKept
<1>1. Sealed(session[s]) /\ session[s] \in Session /\ Owns(session[s], call.id, Wanted)
  BY <1>0, KeptSession DEF OInv, AllSealed, IdIsOwn
<1>t. call \in [server : Servers \cup {Nobody},
                phase : {"none", "route", "open", "wait"}, id : Nat]
  BY DEF IInv, TypeOK
<1>e. ASSUME Return(r, {})
      PROVE  /\ lock' = Nobody /\ call' = NoCall
             /\ \E value \in SUBSET {<<r, calls[r], "tools/call">>} :
                    result' = [result EXCEPT ![r] = value]
  BY <1>e DEF Return
<1>2. ASSUME NEW ses, ses.asked = session[s].asked, ses.nextId = session[s].nextId,
             ses.pipe = Tail(session[s].pipe), Pipe # <<>>
      PROVE  Sealed(ses) /\ Owns(ses, call.id, Wanted)
  <2>1. Lines(ses) \subseteq Lines(session[s])
    BY <1>1, <1>2, LinesTail DEF Pipe
  <2>2. \A m \in AnswersOf(ses) : m \in AnswersOf(session[s])
    BY <2>1 DEF AnswersOf
  <2> QED BY <1>1, <1>2, <2>2, SealedKept
<1>3. /\ taken.asked = session[s].asked /\ taken.nextId = session[s].nextId
      /\ taken.pipe = Tail(session[s].pipe) /\ taken.initialized = session[s].initialized
  BY <1>1 DEF Session
<1>4. ASSUME Take PROVE session' = [session EXCEPT ![s] = taken]
  BY <1>4 DEF Take
<1> HIDE DEF taken
<1>5. Pipe # <<>> => Sealed(taken) /\ Owns(taken, call.id, Wanted)
  BY <1>2, <1>3
<1>6. CASE SkipMessage(r)
  <2>1. /\ Pipe # <<>> /\ session' = [session EXCEPT ![s] = taken]
        /\ call' = call /\ lock' = lock /\ result' = result
    BY <1>4, <1>6 DEF SkipMessage
  <2>2. session'[s] = taken /\ \A t \in Servers \ {s} : session'[t] = session[t]
    BY <1>0, <2>1 DEF IInv, TypeOK
  <2>3. AllSealed'
    BY <1>5, <2>1, <2>2 DEF OInv, AllSealed
  <2>4. Wanted' = Wanted
    BY <1>0, <1>3, <2>1, <2>2 DEF Wanted, Method
  <2>5. IdIsOwn'
    BY <1>5, <2>1, <2>2, <2>4 DEF IdIsOwn
  <2> QED
    BY <1>0, <2>1, <2>3, <2>5 DEF OInv, ResultIsOwn
<1>7. CASE Initialized(r)
  <2>1. CASE Head(Pipe).ok /\ session[s].proc = "up"
    <3> DEFINE ses == [session[s] EXCEPT !.pipe = Tail(@), !.initialized = TRUE]
    <3>1. /\ ses.asked = session[s].asked /\ ses.nextId = session[s].nextId
          /\ ses.pipe = Tail(session[s].pipe)
      BY <1>1 DEF Session
    <3>2. session' = [session EXCEPT ![s] = ses] /\ Proceed("open") /\ Pipe # <<>>
      BY <1>7, <1>0, <2>1 DEF Initialized, IInv, TypeOK
    <3>3. lock' = lock /\ result' = result /\ call'.phase # "wait"
      BY <3>2, <1>t DEF Proceed
    <3> HIDE DEF ses
    <3>4. Sealed(ses)
      BY <1>2, <3>1, <3>2
    <3> QED BY <1>0, <3>2, <3>3, <3>4, CallOwn
  <2>2. CASE ~(Head(Pipe).ok /\ session[s].proc = "up")
    <3>1. Take /\ Return(r, {}) /\ Pipe # <<>>
      BY <1>7, <2>2 DEF Initialized
    <3> QED BY <1>0, <1>4, <1>5, <1>e, <3>1, CallOwn
  <2> QED BY <2>1, <2>2
<1>8. CASE Answered(r)
  <2> DEFINE m == Head(Pipe)
  <2>1. /\ Pipe # <<>> /\ m.kind = "answer" /\ m.id = call.id /\ session[s].initialized
        /\ Return(r, IF m.ok THEN {m.of} ELSE {}) /\ Take
    BY <1>8 DEF Answered, IsAnswer
  <2>2. m \in Lines(session[s])
    <3>1. taken.pipe = Tail(session[s].pipe) /\ session[s].pipe # <<>>
      BY <1>3, <2>1 DEF Pipe
    <3> QED BY <1>1, <3>1, LinesTail DEF Pipe
  <2>3. m.of = Wanted
    BY <1>1, <2>1, <2>2 DEF Owns, AnswersOf
  <2>4. Wanted = <<r, calls[r], "tools/call">>
    BY <1>0, <2>1 DEF Wanted, Method
  <2>5. /\ lock' = Nobody /\ call' = NoCall
        /\ \E value \in SUBSET {<<r, calls[r], "tools/call">>} :
               result' = [result EXCEPT ![r] = value]
    BY <2>1, <2>3, <2>4 DEF Return
  <2> QED BY <1>0, <1>4, <1>5, <2>1, <2>5, CallOwn
<1>9. CASE ReadFails(r)
  <2>1. Return(r, {}) /\ (session' = session \/ (Take /\ Pipe # <<>>))
    BY <1>9 DEF ReadFails
  <2> QED BY <1>0, <1>1, <1>4, <1>5, <1>e, <2>1, CallOwn
<1> QED
  BY <1>6, <1>7, <1>8, <1>9

\* A call is counted before it asks.
LEMMA InvokeOwn ==
    ASSUME IInv, OInv, NEW r \in Runs, NEW s \in Servers, Invoke(r, s)
    PROVE  OInv'
<1>1. AllSealed'
  BY RefreshSealed DEF Invoke, OInv
<1>2. IdIsOwn'
  BY DEF Invoke, IdIsOwn
<1>3. ResultIsOwn'
  BY DEF Invoke, OInv, ResultIsOwn, IInv, TypeOK
<1> QED
  BY <1>1, <1>2, <1>3 DEF OInv

\* A child process answers with the id of the request.
LEMMA ServerOwn ==
    ASSUME IInv, OInv, NEW s \in Servers, ServerActs(s)
    PROVE  OInv'
<1>1. session[s] \in Session /\ Sealed(session[s])
  BY KeptSession DEF OInv, AllSealed
<1>2. ASSUME NEW ses, ServerStep(s, ses), ses.nextId = session[s].nextId,
             ses.initialized = session[s].initialized,
             ses.asked \subseteq session[s].asked,
             \A m \in AnswersOf(ses) :
                 m \in AnswersOf(session[s]) \/ <<m.id, m.of>> \in session[s].asked
      PROVE  OInv'
  <2>1. /\ session'[s] = ses /\ \A t \in Servers \ {s} : session'[t] = session[t]
        /\ call' = call /\ lock' = lock /\ calls' = calls /\ result' = result
    BY <1>2 DEF ServerStep, attempt, IInv, TypeOK
  <2>2. Sealed(ses) /\ \A i, q : Owns(session[s], i, q) => Owns(ses, i, q)
    BY <1>1, <1>2, SealedKept
  <2>3. AllSealed'
    BY <2>1, <2>2 DEF OInv, AllSealed
  <2>4. call.phase = "wait" => call.server \in Servers
    BY DEF IInv, TypeOK, CallKept
  <2>5. call.phase = "wait" => Wanted' = Wanted
    BY <1>2, <2>1, <2>4 DEF Wanted, Method
  <2>6. IdIsOwn'
    BY <2>1, <2>2, <2>4, <2>5 DEF OInv, IdIsOwn
  <2> QED
    BY <2>1, <2>3, <2>6 DEF OInv, ResultIsOwn
<1>3. CASE Answer(s)
  <2>1. PICK q \in session[s].asked, ok \in BOOLEAN :
          /\ ServerStep(s, [session[s] EXCEPT
               !.asked = @ \ {q},
               !.pipe = Append(@, [kind |-> "answer", id |-> q[1], of |-> q[2], ok |-> ok])])
          /\ UNCHANGED <<live, faults>>
    BY <1>3 DEF Answer
  <2> DEFINE m == [kind |-> "answer", id |-> q[1], of |-> q[2], ok |-> ok]
             ses == [session[s] EXCEPT !.asked = @ \ {q}, !.pipe = Append(@, m)]
  <2>2. q \in Nat \X Request
    BY <1>1 DEF Session
  <2>3. m \in Message /\ q = <<m.id, m.of>>
    BY <2>2 DEF Message
  <2> HIDE DEF m
  <2>4. /\ ses.nextId = session[s].nextId /\ ses.initialized = session[s].initialized
        /\ ses.asked \subseteq session[s].asked /\ ses.pipe = Append(session[s].pipe, m)
    BY <1>1 DEF Session
  <2>5. ServerStep(s, ses)
    BY <2>1 DEF m
  <2> HIDE DEF ses
  <2>6. Lines(ses) \subseteq Lines(session[s]) \cup {m}
    BY <1>1, <2>3, <2>4, LinesAppend
  <2>7. \A x \in AnswersOf(ses) :
            x \in AnswersOf(session[s]) \/ <<x.id, x.of>> \in session[s].asked
    BY <2>3, <2>6 DEF AnswersOf
  <2> QED BY <1>2, <2>4, <2>5, <2>7
<1>4. CASE Babble(s)
  <2>1. PICK k \in {"notice", "garbage"} :
          ServerStep(s, [session[s] EXCEPT
               !.pipe = Append(@, [kind |-> k, id |-> 0, of |-> Nobody, ok |-> FALSE])])
    BY <1>4 DEF Babble
  <2> DEFINE m == [kind |-> k, id |-> 0, of |-> Nobody, ok |-> FALSE]
             ses == [session[s] EXCEPT !.pipe = Append(@, m)]
  <2>2. m \in Message /\ m.kind # "answer"
    BY DEF Message
  <2> HIDE DEF m
  <2>3. /\ ses.nextId = session[s].nextId /\ ses.initialized = session[s].initialized
        /\ ses.asked = session[s].asked /\ ses.pipe = Append(session[s].pipe, m)
    BY <1>1 DEF Session
  <2>4. ServerStep(s, ses)
    BY <2>1 DEF m
  <2> HIDE DEF ses
  <2>5. Lines(ses) \subseteq Lines(session[s]) \cup {m}
    BY <1>1, <2>2, <2>3, LinesAppend
  <2>6. \A x \in AnswersOf(ses) : x \in AnswersOf(session[s])
    BY <2>2, <2>5 DEF AnswersOf
  <2> QED BY <1>2, <2>3, <2>4, <2>6
<1>5. CASE Die(s)
  <2> DEFINE ses == [session[s] EXCEPT !.proc = "down", !.asked = {}]
  <2>1. /\ ses.nextId = session[s].nextId /\ ses.initialized = session[s].initialized
        /\ ses.asked = {} /\ ses.pipe = session[s].pipe
    BY <1>1 DEF Session
  <2>2. ServerStep(s, ses)
    BY <1>5 DEF Die
  <2> HIDE DEF ses
  <2>3. AnswersOf(ses) = AnswersOf(session[s])
    BY <2>1 DEF AnswersOf, Lines
  <2> QED BY <1>2, <2>1, <2>2, <2>3
<1> QED
  BY <1>3, <1>4, <1>5 DEF ServerActs

LEMMA NextOwn == IInv /\ OInv /\ [Next]_vars => OInv'
<1> SUFFICES ASSUME IInv, OInv, [Next]_vars PROVE OInv'
  OBVIOUS
<1>1. CASE UNCHANGED <<session, lock, call, calls, result>>
  BY <1>1 DEF OInv, AllSealed, IdIsOwn, Wanted, Method, ResultIsOwn
<1>2. EditEnv \/ (\E R \in SUBSET Servers : EditRows(R)) \/ UNCHANGED vars
          => UNCHANGED <<session, lock, call, calls, result>>
  BY DEF EditEnv, EditRows, vars, manager, attempt
<1> QED
  BY <1>1, <1>2, BracketOwn, RouteOwn, SendOwn, ReceiveOwn, InvokeOwn, ServerOwn
  DEF Next, RunStep, CallStep

\* A tool call returns what its server answered to it, and not what an earlier
\* call that timed out or failed left in the pipe, whatever the servers send.
THEOREM ResultsAreOwn == Spec => []ResultIsOwn
<1>1. OInv => ResultIsOwn
  BY DEF OInv
<1> QED
  BY <1>1, InitOwn, NextOwn, Invariance, PTL DEF Spec
=============================================================================
