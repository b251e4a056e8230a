--------------------------- MODULE AdminProofs ---------------------------
(***************************************************************************)
(* Theorems about the parts of the Admin: who is served, what the document *)
(* and the file of servers say, what the error history says, which         *)
(* playbook the cases are run with, and which channels a notification      *)
(* reaches.  Each part has a specification of its own; they share no       *)
(* variable, and the last theorems carry them over to the parts side by    *)
(* side.                                                                   *)
(***************************************************************************)
EXTENDS MCAdmin, FiniteSetTheorems, TLAPS

-----------------------------------------------------------------------------
(* Users and sessions.                                                     *)

AccessPc == {"none", "found", "open", "check", "admitted", "forget", "change"}
Requests == [pc : AccessPc, user : Int, subject : Int, gone : SUBSET Nat]

\* The deleted had ids below those still to be given out, and have no row any more.
IdsApart ==
    /\ userCount \in Nat /\ Known \subseteq 1 .. userCount /\ deleted \subseteq 1 .. userCount
    /\ Known \cap deleted = {}
    /\ \A s \in DOMAIN sessions : sessions[s] \in Int

\* A request remembers users that were deleted when it came in.
Remembered ==
    /\ request \in [Browser -> Requests]
    /\ \A b \in Browser : request[b].gone \subseteq deleted

AccessInv == IdsApart /\ Remembered /\ DeletedUserRefused /\ SoleFounder

LEMMA AccessInitOK == AccessInit => AccessInv
  BY DEF AccessInit, AccessInv, IdsApart, Remembered, DeletedUserRefused, SoleFounder, Known,
         Quiet, Requests, AccessPc, Nobody

\* What an action does to the users, as far as the invariant is concerned.
UsersKept == Known' = Known /\ invited' = invited /\ deleted' = deleted /\ userCount' = userCount

LEMMA UserRowsOK ==
    ASSUME IdsApart, SoleFounder, [AccessNext]_accessVars
    PROVE  /\ userCount' \in Nat
           /\ Known' \subseteq 1 .. userCount' /\ deleted' \subseteq 1 .. userCount'
           /\ Known' \cap deleted' = {} /\ deleted \subseteq deleted'
           /\ SoleFounder'
<1> DEFINE Goal == /\ userCount' \in Nat /\ Known' \subseteq 1 .. userCount'
                   /\ deleted' \subseteq 1 .. userCount'
                   /\ Known' \cap deleted' = {} /\ deleted \subseteq deleted' /\ SoleFounder'
<1>k. UsersKept => Goal
  BY DEF UsersKept, IdsApart, SoleFounder
<1>c. ASSUME NEW n, NEW p, Created(userCount + 1, n, p), deleted' = deleted,
             Known = {} \/ invited' = invited \cup {userCount + 1},
             invited \subseteq invited'
      PROVE  Goal
  <2>1. Known' = Known \cup {userCount + 1} /\ userCount' = userCount + 1
    BY <1>c DEF Created, Known, Extended
  <2> QED
    BY <1>c, <2>1 DEF IdsApart, SoleFounder
<1>1. ASSUME NEW b \in Browser, Bootstrap(b) PROVE Goal
  BY <1>1, <1>c DEF Bootstrap, Founded
<1>2. ASSUME NEW b \in Browser, CreateUser(b) PROVE Goal
  <2>1. CASE UNCHANGED <<users, userCount, invited>>
    BY <1>2, <2>1, <1>k DEF CreateUser, UsersKept, Known
  <2>2. CASE ~UNCHANGED <<users, userCount, invited>>
    BY <1>2, <2>2, <1>c DEF CreateUser
  <2> QED
    BY <2>1, <2>2
<1>3. ASSUME NEW b \in Browser, DeleteUser(b) PROVE Goal
  <2>1. PICK u \in Known : users' = Dropped(users, {u}) /\ deleted' = deleted \cup {u}
    BY <1>3 DEF DeleteUser
  <2>2. Known' = Known \ {u} /\ userCount' = userCount /\ invited' = invited
    BY <1>3, <2>1 DEF DeleteUser, Dropped, Known
  <2> QED
    BY <2>1, <2>2 DEF IdsApart, SoleFounder
<1>4. ASSUME NEW b \in Browser, ChangePassword(b) PROVE Goal
  <2>1. UsersKept
    BY <1>4 DEF ChangePassword, UsersKept, Known
  <2> QED
    BY <2>1, <1>k
<1>5. ASSUME NEW b \in Browser,
             \/ BeginBootstrap(b) \/ BootstrapRefused(b) \/ Login(b) \/ LoggedIn(b) \/ Logout(b)
             \/ Arrive(b) \/ Admit(b) \/ ForgetSessions(b) \/ ReadPassword(b)
      PROVE  Goal
  <2>1. UsersKept
    BY <1>5 DEF BeginBootstrap, BootstrapRefused, Login, LoggedIn, Logout, Arrive, Admit,
                ForgetSessions, ReadPassword, UsersKept, Known
  <2> QED
    BY <2>1, <1>k
<1>6. CASE Expire \/ AdminStops \/ UNCHANGED accessVars
  <2>1. UsersKept
    BY <1>6 DEF Expire, AdminStops, accessVars, UsersKept, Known
  <2> QED
    BY <2>1, <1>k
<1> QED
  BY <1>1, <1>2, <1>3, <1>4, <1>5, <1>6 DEF AccessNext

\* A request that is served had its user looked up after it came in.
LEMMA RequestsOK ==
    ASSUME IdsApart, Remembered, DeletedUserRefused, [AccessNext]_accessVars,
           deleted \subseteq deleted'
    PROVE  Remembered' /\ DeletedUserRefused' /\ \A s \in DOMAIN sessions' : sessions'[s] \in Int
<1> USE DEF IdsApart, Remembered, DeletedUserRefused
<1> DEFINE Goal == Remembered' /\ DeletedUserRefused'
           Fine(f) == /\ f \in Requests /\ f.gone \subseteq deleted
                      /\ f.pc \in {"admitted", "forget", "change"} => f.user \notin f.gone
           SessionsInt == \A s \in DOMAIN sessions' : sessions'[s] \in Int
<1>u. request' = request => Goal
  OBVIOUS
<1>f. ASSUME NEW b \in Browser, NEW f, Fine(f), request' = [request EXCEPT ![b] = f]
      PROVE  Goal
  <2>1. f \in Requests /\ f.gone \subseteq deleted'
    BY <1>f
  <2>2. request' \in [Browser -> Requests] /\ request'[b] = f
    BY <1>f, <2>1
  <2>3. \A c \in Browser : c # b => request'[c] = request[c]
    BY <1>f
  <2>4. ASSUME NEW c \in Browser
        PROVE  /\ request'[c].gone \subseteq deleted'
               /\ request'[c].pc \in {"admitted", "forget", "change"}
                     => request'[c].user \notin request'[c].gone
    BY <1>f, <2>1, <2>2, <2>3
  <2> QED
    BY <2>2, <2>4
<1>0. /\ deleted \subseteq Nat
      /\ \A b \in Browser : Fine(request[b])
  OBVIOUS
<1>q. Fine(Quiet) /\ Quiet \in Requests
  BY DEF Quiet, Requests, AccessPc, Nobody
<1>1. ASSUME NEW b \in Browser, Reply(b) PROVE Goal
  BY <1>1, <1>q, <1>f DEF Reply
<1>p. ASSUME NEW b \in Browser, NEW pc \in AccessPc, NEW subject \in Int, Proceed(b, pc, subject),
             pc \in {"admitted", "forget", "change"} => request[b].user \notin request[b].gone
      PROVE  Goal
  <2>1. Fine([request[b] EXCEPT !.pc = pc, !.subject = subject])
    BY <1>0, <1>p DEF Requests
  <2> QED
    BY <1>p, <2>1, <1>f DEF Proceed
<1>2. ASSUME NEW b \in Browser, BeginBootstrap(b) \/ Login(b) \/ Arrive(b) PROVE Goal /\ SessionsInt
  <2> DEFINE Founding == [Quiet EXCEPT !.pc = "found", !.gone = deleted]
             Opening(u) == [Quiet EXCEPT !.pc = "open", !.subject = u, !.gone = deleted]
             Checking(u) == [Quiet EXCEPT !.pc = "check", !.user = u, !.gone = deleted]
  <2>1. Fine(Founding) /\ \A u \in Int : Fine(Opening(u)) /\ Fine(Checking(u))
    BY <1>0, <1>q DEF Requests, AccessPc
  <2>2. \E f : Fine(f) /\ request' = [request EXCEPT ![b] = f]
    <3> HIDE DEF Fine
    <3>1. CASE BeginBootstrap(b)
      BY <3>1, <2>1 DEF BeginBootstrap
    <3>2. CASE Login(b)
      <4>1. PICK u \in Known : request' = [request EXCEPT ![b] = Opening(u)]
        BY <3>2 DEF Login, Named
      <4>2. u \in Int
        OBVIOUS
      <4> HIDE DEF Opening
      <4> QED
        BY <4>1, <4>2, <2>1
    <3>3. CASE Arrive(b)
      <4> DEFINE u == sessions[cookie[b]]
      <4>1. request' = [request EXCEPT ![b] = Checking(u)] /\ u \in Int
        BY <3>3 DEF Arrive
      <4> HIDE DEF Checking, u
      <4> QED
        BY <4>1, <2>1
    <3> QED
      BY <1>2, <3>1, <3>2, <3>3
  <2>3. Goal
    <3> HIDE DEF Fine, Goal
    <3> QED
      BY <2>2, <1>f
  <2> QED
    BY <1>2, <2>3 DEF BeginBootstrap, Login, Arrive
<1>3. ASSUME NEW b \in Browser, Bootstrap(b) PROVE Goal /\ SessionsInt
  BY <1>3, <1>p DEF Bootstrap, AccessPc
<1>4. ASSUME NEW b \in Browser, Admit(b) PROVE Goal /\ SessionsInt
  <2>1. CASE request[b].user \in Known
    <3>1. request[b].user \notin request[b].gone
      BY <2>1
    <3> QED
      BY <1>4, <2>1, <3>1, <1>p DEF Admit, AccessPc, Nobody
  <2>2. CASE request[b].user \notin Known
    BY <1>4, <2>2, <1>1 DEF Admit, CloseSessions, Dropped
  <2> QED
    BY <2>1, <2>2
<1>5. ASSUME NEW b \in Browser, DeleteUser(b) PROVE Goal /\ SessionsInt
  <2>1. PICK u \in Known : Proceed(b, "forget", u)
    BY <1>5 DEF DeleteUser
  <2>2. u \in Int /\ request[b].user \notin request[b].gone /\ "forget" \in AccessPc
    BY <1>5 DEF DeleteUser, Admitted, AccessPc
  <2>3. Goal
    BY <2>1, <2>2, <1>p
  <2> QED
    BY <2>3, <1>5 DEF DeleteUser
<1>6. ASSUME NEW b \in Browser, ReadPassword(b) PROVE Goal /\ SessionsInt
  <2>1. /\ Proceed(b, "change", request[b].user) /\ request[b].user \in Int
        /\ request[b].user \notin request[b].gone /\ "change" \in AccessPc
    BY <1>6, <1>0 DEF ReadPassword, Admitted, AccessPc, Requests
  <2>2. Goal
    BY <2>1, <1>p
  <2> QED
    BY <2>2, <1>6 DEF ReadPassword
<1>7. ASSUME NEW b \in Browser,
             BootstrapRefused(b) \/ CreateUser(b) \/ ForgetSessions(b) \/ ChangePassword(b)
      PROVE  Goal /\ SessionsInt
  BY <1>7, <1>1 DEF BootstrapRefused, CreateUser, ForgetSessions, ChangePassword,
                    CloseSessions, Dropped
<1>8. ASSUME NEW b \in Browser, LoggedIn(b) PROVE Goal /\ SessionsInt
  <2>1. Goal
    BY <1>8, <1>1 DEF LoggedIn
  <2>2. request[b].subject \in Int
    BY DEF Requests
  <2> QED
    BY <1>8, <2>1, <2>2 DEF LoggedIn, OpenSession, Extended
<1>9. ASSUME NEW b \in Browser, Logout(b) PROVE Goal /\ SessionsInt
  BY <1>9, <1>u DEF Logout, CloseSessions, Dropped
<1>10. CASE Expire
  BY <1>10, <1>u DEF Expire, CloseSessions, Dropped
<1>11. CASE AdminStops
  <2>1. /\ request' = [b \in Browser |-> Quiet] /\ DOMAIN sessions' = {}
        /\ Quiet.pc = "none" /\ Quiet.gone \subseteq deleted'
    BY <1>11, <1>q DEF AdminStops, Quiet
  <2> QED
    BY <2>1, <1>q
<1>12. CASE UNCHANGED accessVars
  BY <1>12, <1>u DEF accessVars
<1> QED
  BY <1>2, <1>3, <1>4, <1>5, <1>6, <1>7, <1>8, <1>9, <1>10, <1>11, <1>12 DEF AccessNext

\* For any number of browsers and users: whoever was deleted before a request came in does
\* not get it served, and at most one user was made by nobody.
THEOREM AccessIsGuarded == AccessSpec => []AccessGuarded
<1>1. AccessInv /\ [AccessNext]_accessVars => AccessInv'
  BY UserRowsOK, RequestsOK DEF AccessInv, IdsApart
<1>2. AccessInv => AccessGuarded
  BY DEF AccessInv, AccessGuarded
<1> QED
  BY <1>1, <1>2, AccessInitOK, PTL DEF AccessSpec

-----------------------------------------------------------------------------
(* The types of users, sessions and requests.                              *)

AccessFrame == [pc : AccessPc, user : {Nobody} \cup UserId, subject : {Nobody} \cup UserId,
                gone : SUBSET UserId]

UsersTyped ==
    /\ Known \subseteq 1 .. userCount /\ userCount \in 0 .. MaxUsers
    /\ \A u \in Known : users[u] \in [name : UserName, password : Password]
    /\ invited \subseteq UserId /\ deleted \subseteq UserId

SessionsTyped ==
    /\ DOMAIN sessions \subseteq 1 .. opened /\ opened \in 0 .. MaxSessions
    /\ \A s \in DOMAIN sessions : sessions[s] \in UserId
    /\ cookie \in [Browser -> {NoSession} \cup SessionId]

\* A session is opened for somebody.
RequestsTyped ==
    /\ request \in [Browser -> AccessFrame]
    /\ \A b \in Browser : request[b].pc = "open" => request[b].subject \in UserId

AccessTypes == UsersTyped /\ SessionsTyped /\ RequestsTyped

LEMMA AccessTypesSuffice == AccessTypes => AccessTypeOK
  BY DEF AccessTypes, AccessTypeOK, UsersTyped, SessionsTyped, RequestsTyped, AccessFrame, AccessPc

LEMMA AccessTypesInit == AccessInit => AccessTypes
<1> SUFFICES ASSUME AccessInit PROVE AccessTypes
  OBVIOUS
<1>1. MaxUsers \in Nat /\ MaxSessions \in Nat
  BY AdminAccessAssumption DEF AdminAccessAssumption
<1>2. Known = {} /\ DOMAIN sessions = {} /\ userCount = 0 /\ opened = 0
  BY DEF AccessInit, Known
<1>3. UsersTyped
  BY <1>1, <1>2 DEF AccessInit, UsersTyped
<1>4. SessionsTyped
  BY <1>1, <1>2 DEF AccessInit, SessionsTyped
<1>5. RequestsTyped
  BY DEF AccessInit, RequestsTyped, AccessFrame, AccessPc, Quiet
<1> QED
  BY <1>3, <1>4, <1>5 DEF AccessTypes

LEMMA UsersTypedOK == ASSUME AccessTypes, [AccessNext]_accessVars PROVE UsersTyped'
<1> USE DEF AccessTypes
<1>0. MaxUsers \in Nat /\ userCount \in Nat
  BY AdminAccessAssumption DEF AdminAccessAssumption, UsersTyped
<1>1. ASSUME NEW n \in UserName, NEW p \in Password, userCount < MaxUsers,
             Created(userCount + 1, n, p), deleted' = deleted,
             invited' \subseteq invited \cup {userCount + 1}
      PROVE  UsersTyped'
  <2> DEFINE u == userCount + 1
             row == [name |-> n, password |-> p]
  <2>1. row \in [name : UserName, password : Password]
    OBVIOUS
  <2>2. users' = Extended(users, u, row) /\ userCount' = u
    BY <1>1 DEF Created
  <2>3. u \in 1 .. MaxUsers /\ u \in 0 .. MaxUsers /\ 1 .. userCount \subseteq 1 .. u /\ u \in 1 .. u
    BY <1>0, <1>1
  <2> HIDE DEF u, row
  <2>4. Known' = Known \cup {u} /\ users'[u] = row /\ \A v \in Known \ {u} : users'[v] = users[v]
    BY <2>2 DEF Extended, Known
  <2>5. invited' \subseteq UserId /\ deleted' \subseteq UserId
    BY <1>1, <2>3 DEF UsersTyped, UserId, u
  <2> QED
    BY <2>1, <2>2, <2>3, <2>4, <2>5 DEF UsersTyped
<1>2. ASSUME NEW b \in Browser, Bootstrap(b) PROVE UsersTyped'
  BY <1>2, <1>1 DEF Bootstrap
<1>3. ASSUME NEW b \in Browser, CreateUser(b) PROVE UsersTyped'
  <2>1. CASE UNCHANGED <<users, userCount, invited>>
    BY <1>3, <2>1 DEF CreateUser, UsersTyped, Known
  <2>2. CASE ~UNCHANGED <<users, userCount, invited>>
    BY <1>3, <2>2, <1>1 DEF CreateUser
  <2> QED
    BY <2>1, <2>2
<1>4. ASSUME NEW b \in Browser, DeleteUser(b) PROVE UsersTyped'
  <2>1. PICK u \in Known : users' = Dropped(users, {u}) /\ deleted' = deleted \cup {u}
    BY <1>4 DEF DeleteUser
  <2>2. Known' = Known \ {u} /\ (\A v \in Known' : users'[v] = users[v])
        /\ userCount' = userCount /\ invited' = invited
    BY <1>4, <2>1 DEF DeleteUser, Dropped, Known
  <2>3. u \in UserId
    BY <1>0 DEF UsersTyped, UserId
  <2> QED
    BY <2>1, <2>2, <2>3 DEF UsersTyped
<1>5. ASSUME NEW b \in Browser, ChangePassword(b) PROVE UsersTyped'
  <2>1. PICK p \in Password :
          users' = [u \in Known |-> IF u = request[b].subject
                                    THEN [users[u] EXCEPT !.password = p] ELSE users[u]]
    BY <1>5 DEF ChangePassword
  <2>2. Known' = Known /\ UNCHANGED <<userCount, invited, deleted>>
    BY <1>5, <2>1 DEF ChangePassword, Known
  <2>3. ASSUME NEW u \in Known PROVE users'[u] \in [name : UserName, password : Password]
    BY <2>1 DEF UsersTyped
  <2> QED
    BY <2>2, <2>3 DEF UsersTyped
<1>6. ASSUME UNCHANGED <<users, userCount, invited, deleted>> PROVE UsersTyped'
  BY <1>6 DEF UsersTyped, Known
<1>7. ASSUME NEW b \in Browser,
             \/ BeginBootstrap(b) \/ BootstrapRefused(b) \/ Login(b) \/ LoggedIn(b) \/ Logout(b)
             \/ Arrive(b) \/ Admit(b) \/ ForgetSessions(b) \/ ReadPassword(b)
      PROVE  UsersTyped'
  BY <1>7, <1>6 DEF BeginBootstrap, BootstrapRefused, Login, LoggedIn, Logout, Arrive, Admit,
                    ForgetSessions, ReadPassword
<1>8. CASE Expire \/ AdminStops \/ UNCHANGED accessVars
  BY <1>8, <1>6 DEF Expire, AdminStops, accessVars
<1> QED
  BY <1>2, <1>3, <1>4, <1>5, <1>7, <1>8 DEF AccessNext

LEMMA SessionsTypedOK == ASSUME AccessTypes, [AccessNext]_accessVars PROVE SessionsTyped'
<1> USE DEF AccessTypes
<1>0. MaxSessions \in Nat /\ opened \in Nat
  BY AdminAccessAssumption DEF AdminAccessAssumption, SessionsTyped
<1>1. ASSUME NEW b \in Browser, LoggedIn(b) PROVE SessionsTyped'
  <2> DEFINE s == opened + 1
             u == request[b].subject
  <2>1. /\ sessions' = Extended(sessions, s, u) /\ opened' = s /\ cookie' = [cookie EXCEPT ![b] = s]
        /\ opened < MaxSessions /\ u \in UserId
    BY <1>1 DEF LoggedIn, OpenSession, RequestsTyped
  <2>2. s \in SessionId /\ s \in 0 .. MaxSessions /\ 1 .. opened \subseteq 1 .. s /\ s \in 1 .. s
    BY <1>0, <2>1 DEF SessionId
  <2> HIDE DEF s, u
  <2>3. /\ DOMAIN sessions' = DOMAIN sessions \cup {s} /\ sessions'[s] = u
        /\ \A r \in DOMAIN sessions \ {s} : sessions'[r] = sessions[r]
    BY <2>1 DEF Extended
  <2> QED
    BY <2>1, <2>2, <2>3 DEF SessionsTyped
<1>2. ASSUME NEW gone, CloseSessions(gone), opened' = opened,
             cookie' \in [Browser -> {NoSession} \cup SessionId]
      PROVE  SessionsTyped'
  <2>1. DOMAIN sessions' = DOMAIN sessions \ gone /\ \A s \in DOMAIN sessions' : sessions'[s] = sessions[s]
    BY <1>2 DEF CloseSessions, Dropped
  <2> QED
    BY <1>2, <2>1 DEF SessionsTyped
<1>3. ASSUME NEW b \in Browser, Logout(b) PROVE SessionsTyped'
  <2>1. cookie' \in [Browser -> {NoSession} \cup SessionId]
    BY <1>3 DEF Logout, SessionsTyped
  <2> QED
    BY <1>3, <2>1, <1>2 DEF Logout
<1>4. ASSUME NEW b \in Browser, ForgetSessions(b) PROVE SessionsTyped'
  BY <1>4, <1>2 DEF ForgetSessions, SessionsTyped
<1>5. ASSUME NEW b \in Browser, Admit(b) PROVE SessionsTyped'
  <2>1. CASE UNCHANGED sessions
    BY <1>5, <2>1 DEF Admit, SessionsTyped
  <2>2. CASE ~UNCHANGED sessions
    BY <1>5, <2>2, <1>2 DEF Admit, SessionsTyped
  <2> QED
    BY <2>1, <2>2
<1>6. CASE Expire
  BY <1>6, <1>2 DEF Expire, SessionsTyped
<1>7. CASE AdminStops
  <2>1. DOMAIN sessions' = {} /\ opened' = opened /\ cookie' = cookie
    BY <1>7 DEF AdminStops
  <2> QED
    BY <2>1 DEF SessionsTyped
<1>8. ASSUME UNCHANGED <<sessions, opened, cookie>> PROVE SessionsTyped'
  BY <1>8 DEF SessionsTyped
<1>9. ASSUME NEW b \in Browser,
             \/ BeginBootstrap(b) \/ Bootstrap(b) \/ BootstrapRefused(b) \/ Login(b) \/ Arrive(b)
             \/ CreateUser(b) \/ DeleteUser(b) \/ ReadPassword(b) \/ ChangePassword(b)
      PROVE  SessionsTyped'
  BY <1>9, <1>8 DEF BeginBootstrap, Bootstrap, BootstrapRefused, Login, Arrive, CreateUser,
                    DeleteUser, ReadPassword, ChangePassword
<1>10. CASE UNCHANGED accessVars
  BY <1>10, <1>8 DEF accessVars
<1> QED
  BY <1>1, <1>3, <1>4, <1>5, <1>6, <1>7, <1>9, <1>10 DEF AccessNext

LEMMA RequestsTypedOK == ASSUME AccessTypes, [AccessNext]_accessVars PROVE RequestsTyped'
<1> USE DEF AccessTypes
<1> DEFINE Fine(f) == f \in AccessFrame /\ (f.pc = "open" => f.subject \in UserId)
<1>0. /\ Known \subseteq UserId /\ deleted \subseteq UserId
      /\ \A s \in DOMAIN sessions : sessions[s] \in UserId
      /\ \A b \in Browser : Fine(request[b])
  <2>1. 1 .. userCount \subseteq UserId
    BY AdminAccessAssumption DEF AdminAccessAssumption, UsersTyped, UserId
  <2> QED
    BY <2>1 DEF UsersTyped, SessionsTyped, RequestsTyped
<1>f. ASSUME NEW b \in Browser, NEW f, Fine(f), request' = [request EXCEPT ![b] = f]
      PROVE  RequestsTyped'
  BY <1>f DEF RequestsTyped
<1>q. Fine(Quiet)
  BY DEF Quiet, AccessFrame, AccessPc
<1>n. \A gone \in SUBSET UserId, pc \in AccessPc \ {"open"} : Fine([Quiet EXCEPT !.pc = pc, !.gone = gone])
  BY DEF Quiet, AccessFrame, AccessPc
<1>p. ASSUME NEW b \in Browser, NEW pc \in AccessPc, NEW subject \in {Nobody} \cup UserId,
             Proceed(b, pc, subject), pc = "open" => subject \in UserId
      PROVE  RequestsTyped'
  <2>1. Fine([request[b] EXCEPT !.pc = pc, !.subject = subject])
    BY <1>0, <1>p DEF AccessFrame
  <2> HIDE DEF Fine
  <2> QED
    BY <1>p, <2>1, <1>f DEF Proceed
<1>r. ASSUME NEW b \in Browser, Reply(b) PROVE RequestsTyped'
  BY <1>r, <1>q, <1>f DEF Reply
<1>1. ASSUME NEW b \in Browser, BeginBootstrap(b) PROVE RequestsTyped'
  <2>1. "found" \in AccessPc \ {"open"}
    BY DEF AccessPc
  <2> HIDE DEF Fine
  <2> QED
    BY <1>1, <1>0, <1>n, <1>f, <2>1 DEF BeginBootstrap
<1>2. ASSUME NEW b \in Browser, Login(b) PROVE RequestsTyped'
  <2>1. PICK u \in Known :
          request' = [request EXCEPT ![b] = [Quiet EXCEPT !.pc = "open", !.subject = u, !.gone = deleted]]
    BY <1>2 DEF Login, Named
  <2>2. Fine([Quiet EXCEPT !.pc = "open", !.subject = u, !.gone = deleted])
    BY <1>0 DEF Quiet, AccessFrame, AccessPc
  <2> HIDE DEF Fine
  <2> QED
    BY <2>1, <2>2, <1>f
<1>3. ASSUME NEW b \in Browser, Arrive(b) PROVE RequestsTyped'
  <2> DEFINE u == sessions[cookie[b]]
  <2>1. request' = [request EXCEPT ![b] = [Quiet EXCEPT !.pc = "check", !.user = u, !.gone = deleted]]
        /\ u \in UserId
    BY <1>3, <1>0 DEF Arrive
  <2> HIDE DEF u
  <2>2. Fine([Quiet EXCEPT !.pc = "check", !.user = u, !.gone = deleted])
    BY <1>0, <2>1 DEF Quiet, AccessFrame, AccessPc
  <2> HIDE DEF Fine
  <2> QED
    BY <2>1, <2>2, <1>f
<1>4. ASSUME NEW b \in Browser, Bootstrap(b) PROVE RequestsTyped'
  <2>1. userCount + 1 \in UserId
    BY <1>4, AdminAccessAssumption DEF Bootstrap, AdminAccessAssumption, UsersTyped, UserId
  <2>2. Proceed(b, "open", userCount + 1) /\ "open" \in AccessPc
    BY <1>4 DEF Bootstrap, AccessPc
  <2> QED
    BY <2>1, <2>2, <1>p
<1>5. ASSUME NEW b \in Browser, Admit(b) PROVE RequestsTyped'
  <2>1. "admitted" \in AccessPc
    BY DEF AccessPc
  <2> HIDE DEF Fine
  <2> QED
    BY <1>5, <2>1, <1>p, <1>r DEF Admit
<1>6. ASSUME NEW b \in Browser, DeleteUser(b) PROVE RequestsTyped'
  <2>1. PICK u \in Known : Proceed(b, "forget", u)
    BY <1>6 DEF DeleteUser
  <2>2. u \in UserId /\ "forget" \in AccessPc
    BY <1>0 DEF AccessPc
  <2> QED
    BY <2>1, <2>2, <1>p
<1>7. ASSUME NEW b \in Browser, ReadPassword(b) PROVE RequestsTyped'
  <2>1. request[b].user \in UserId /\ "change" \in AccessPc /\ Proceed(b, "change", request[b].user)
    BY <1>7, <1>0 DEF ReadPassword, AccessPc
  <2> QED
    BY <2>1, <1>p
<1>8. ASSUME NEW b \in Browser,
             BootstrapRefused(b) \/ LoggedIn(b) \/ CreateUser(b) \/ ForgetSessions(b) \/ ChangePassword(b)
      PROVE  RequestsTyped'
  BY <1>8, <1>r DEF BootstrapRefused, LoggedIn, CreateUser, ForgetSessions, ChangePassword
<1>9. ASSUME UNCHANGED request PROVE RequestsTyped'
  BY <1>9 DEF RequestsTyped
<1>10. CASE AdminStops
  BY <1>10, <1>q DEF AdminStops, RequestsTyped, Quiet
<1>11. CASE Expire \/ UNCHANGED accessVars
  BY <1>11, <1>9 DEF Expire, accessVars
<1>12. ASSUME NEW b \in Browser, Logout(b) PROVE RequestsTyped'
  BY <1>12, <1>9 DEF Logout
<1> QED
  BY <1>1, <1>2, <1>3, <1>4, <1>5, <1>6, <1>7, <1>8, <1>10, <1>11, <1>12 DEF AccessNext

LEMMA AccessTyping == AccessSpec => []AccessTypeOK
<1>1. AccessTypes /\ [AccessNext]_accessVars => AccessTypes'
  BY UsersTypedOK, SessionsTypedOK, RequestsTypedOK DEF AccessTypes
<1> QED
  BY <1>1, AccessTypesInit, AccessTypesSuffice, PTL DEF AccessSpec

-----------------------------------------------------------------------------
(* The configuration document.                                             *)

\* What a handler may ask of the store: no request deletes the anchor.
Asked(op) ==
    \/ op.kind \in {"save repo", "delete repo"} /\ op.row \in Repo
    \/ op.kind \in {"save remote", "delete remote"} /\ op.row \in Remote
    \/ op.kind \in {"save service", "delete service"} /\ op.row \in Service \ {Anchor}
    \/ op.kind = "save settings" /\ op.row \subseteq SettingKey
    \/ op.kind \in {"save variable", "delete variable"} /\ op.row \in Key
    \/ op.kind \in {"save provider", "delete provider"} /\ op.row \in Provider
    \/ op.kind = "set default" /\ op.row \in Provider \cup BuiltinProvider
    \/ op.kind \in {"save job", "delete job"} /\ op.row \in Job

\* What a document has whether or not its builtin jobs have been seeded.
Kept(d) == d \in Document /\ d.env \subseteq d.settings /\ Anchor \in d.catalog

OpRow == Repo \cup Remote \cup Service \cup (SUBSET SettingKey) \cup Key \cup Provider
           \cup BuiltinProvider \cup Job
OpKind == {"save repo", "delete repo", "save remote", "delete remote", "save service",
           "delete service", "save settings", "save variable", "delete variable",
           "save provider", "delete provider", "set default", "save job", "delete job"}
AskedOp == {op \in [kind : OpKind, row : OpRow] : Asked(op)}

WorkerFrame == [pc : {"idle", "load", "seed", "seeding", "loaded", "writing"},
                todo : Seq(AskedOp), held : Document]

\* A worker that has loaded holds a coherent document.
FrameOK(f) ==
    /\ f \in WorkerFrame
    /\ f.pc # "idle" => f.todo # <<>>
    /\ f.pc \in {"seed", "seeding", "loaded", "writing"} => Coherent(f.held)

DocumentInv ==
    /\ Kept(doc)
    /\ DOMAIN serving = Worker /\ serving = [w \in Worker |-> serving[w]]
    /\ \A w \in Worker : FrameOK(serving[w])

LEMMA SeededOK == ASSUME NEW d, Kept(d) PROVE Seeded(d) \in Document /\ Coherent(Seeded(d))
<1>1. Seeded(d) \in Document
  BY DEF Kept, Seeded, Document, Handlers, BuiltinHandler
<1>2. Coherent(Seeded(d))
  BY AdminDocumentAssumption DEF Kept, Seeded, Coherent, Document, AdminDocumentAssumption
<1> QED
  BY <1>1, <1>2

\* Every operation of the store keeps what it was given coherent.
LEMMA ChangedOK ==
    ASSUME NEW d, d \in Document, Coherent(d), NEW op, Asked(op)
    PROVE  Changed(d, op) \in Document /\ Coherent(Changed(d, op))
<1> USE DEF Changed
<1> DEFINE Good(e) == e \in Document /\ Coherent(e)
<1>0. Kept(d) /\ BuiltinJob \subseteq Job /\ Anchor \in Service
  BY AdminDocumentAssumption DEF Kept, Coherent, AdminDocumentAssumption
<1>1. CASE op.kind = "save repo" /\ op.row \in Repo
  BY <1>1 DEF SavedRepo, Document, Coherent
<1>2. CASE op.kind = "delete repo" /\ op.row \in Repo
  BY <1>2 DEF DeletedRepo, Document, Coherent
<1>3. CASE op.kind = "save remote" /\ op.row \in Remote
  BY <1>3 DEF SavedRemote, Document, Coherent
<1>4. CASE op.kind = "delete remote" /\ op.row \in Remote
  BY <1>4 DEF DeletedRemote, Document, Coherent
<1>5. CASE op.kind = "save service" /\ op.row \in Service
  BY <1>5 DEF SavedService, Document, Coherent
<1>6. CASE op.kind = "delete service" /\ op.row \in Service \ {Anchor}
  BY <1>6 DEF DeletedService, Document, Coherent
<1>7. CASE op.kind = "save settings" /\ op.row \subseteq SettingKey
  BY <1>7 DEF SavedSettings, Document, Coherent
<1>8. CASE op.kind = "save variable" /\ op.row \in Key
  BY <1>8 DEF SavedVariable, Document, Coherent, SettingKey
<1>9. CASE op.kind = "delete variable" /\ op.row \in Key
  BY <1>9 DEF DeletedVariable, Document, Coherent
<1>10. CASE op.kind = "save provider" /\ op.row \in Provider
  BY <1>10 DEF SavedProvider, Document, Coherent
<1>11. CASE op.kind = "delete provider" /\ op.row \in Provider
  BY <1>11 DEF DeletedProvider, Document, Coherent
<1>12. CASE op.kind = "set default" /\ op.row \in Provider \cup BuiltinProvider
  BY <1>12 DEF SavedDefault, Document, Coherent
<1>13. CASE op.kind = "save job" /\ op.row \in Job
  <2> DEFINE h == IF op.row \in BuiltinJob /\ d.jobs[op.row] # NoRow
                  THEN d.jobs[op.row] ELSE "custom"
             e == [d EXCEPT !.jobs[op.row] = h]
  <2>1. h \in Handlers \cup {NoRow}
    BY <1>13 DEF Document, Handlers
  <2>2. Kept(e)
    BY <1>0, <1>13, <2>1 DEF Kept, Document
  <2>3. Changed(d, op) = Seeded(e)
    BY <1>13 DEF SavedJob
  <2> HIDE DEF Changed, e
  <2> QED
    BY <2>2, <2>3, SeededOK
<1>14. CASE op.kind = "delete job" /\ op.row \in Job
  <2> DEFINE e == [d EXCEPT !.jobs[op.row] = NoRow]
  <2>1. Kept(e)
    BY <1>0, <1>14 DEF Kept, Document
  <2>2. Changed(d, op) = Seeded(e)
    BY <1>14 DEF DeletedJob
  <2> HIDE DEF Changed, e
  <2> QED
    BY <2>1, <2>2, SeededOK
<1> HIDE DEF Changed
<1> QED
  BY <1>1, <1>2, <1>3, <1>4, <1>5, <1>6, <1>7, <1>8, <1>9, <1>10, <1>11, <1>12, <1>13, <1>14
     DEF Asked

LEMMA DocumentInitOK == DocumentInit => DocumentInv
<1> SUFFICES ASSUME DocumentInit PROVE DocumentInv
  OBVIOUS
<1>0. Anchor \in Service
  BY AdminDocumentAssumption DEF AdminDocumentAssumption
<1>1. EmptyDocument \in Document
  BY DEF EmptyDocument, Document
<1>2. Kept(doc)
  <2>1. PICK h \in Handlers \cup {NoRow} :
          doc = [EmptyDocument EXCEPT !.catalog = {Anchor},
                     !.jobs = [j \in Job |-> IF j \in BuiltinJob THEN h ELSE NoRow]]
    BY DEF DocumentInit
  <2>2. [j \in Job |-> IF j \in BuiltinJob THEN h ELSE NoRow] \in [Job -> Handlers \cup {NoRow}]
    OBVIOUS
  <2>3. doc \in Document
    BY <1>0, <1>1, <2>1, <2>2 DEF Document
  <2> QED
    BY <2>1, <2>3 DEF Kept, EmptyDocument
<1>3. FrameOK(Idle)
  BY <1>1 DEF FrameOK, WorkerFrame, Idle
<1> QED
  BY <1>2, <1>3 DEF DocumentInit, DocumentInv

\* A worker's new frame, over the old ones.
LEMMA BecomeOK ==
    ASSUME DocumentInv, NEW w \in Worker, NEW f, FrameOK(f), Become(w, f), Kept(doc')
    PROVE  DocumentInv'
  BY DEF DocumentInv, Become, FrameOK

LEMMA ServeOK ==
    ASSUME DocumentInv, NEW w \in Worker, NEW ops \in Seq(AskedOp), ops # <<>>, Serve(w, ops)
    PROVE  DocumentInv' /\ doc' = doc
<1>1. EmptyDocument \in Document
  BY DEF EmptyDocument, Document
<1> DEFINE f == [Idle EXCEPT !.pc = "load", !.todo = ops]
<1>2. FrameOK(f)
  BY <1>1 DEF FrameOK, WorkerFrame, Idle
<1>3. Become(w, f) /\ doc' = doc /\ Kept(doc')
  BY DEF Serve, Become, DocumentInv
<1> HIDE DEF f
<1> QED
  BY <1>2, <1>3, BecomeOK

\* A handler asks for one operation or two.
LEMMA AskingOK ==
    ASSUME DocumentInv, NEW w \in Worker, NEW what \in OpKind, NEW row \in OpRow,
           Asked(Op(what, row)), Serve(w, <<Op(what, row)>>)
    PROVE  DocumentInv' /\ doc' = doc
<1>1. Op(what, row) \in AskedOp
  BY DEF AskedOp, Op
<1>2. <<Op(what, row)>> \in Seq(AskedOp) /\ <<Op(what, row)>> # <<>>
  BY <1>1
<1> QED
  BY <1>2, ServeOK

LEMMA AskingTwiceOK ==
    ASSUME DocumentInv, NEW w \in Worker, NEW what \in OpKind, NEW row \in OpRow,
           NEW what2 \in OpKind, NEW row2 \in OpRow, Asked(Op(what, row)), Asked(Op(what2, row2)),
           Serve(w, <<Op(what, row), Op(what2, row2)>>)
    PROVE  DocumentInv' /\ doc' = doc
<1>1. Op(what, row) \in AskedOp /\ Op(what2, row2) \in AskedOp
  BY DEF AskedOp, Op
<1> DEFINE ops == <<Op(what, row), Op(what2, row2)>>
<1>2. ops \in Seq(AskedOp) /\ ops # <<>>
  BY <1>1
<1> QED
  BY <1>2, ServeOK

LEMMA RequestOK ==
    ASSUME DocumentInv, NEW w \in Worker, Request(w) PROVE DocumentInv' /\ doc' = doc
<1> USE DEF Asked, Op, OpKind, OpRow
<1>1. CASE RegisterRepo(w) \/ SyncRepo(w) \/ UnregisterRepo(w)
  BY <1>1, AskingOK DEF RegisterRepo, SyncRepo, UnregisterRepo
<1>2. CASE ImportLocalRepo(w)
  BY <1>2, AskingTwiceOK DEF ImportLocalRepo
<1>3. CASE UpsertRemote(w) \/ DeleteRemote(w)
  BY <1>3, AskingOK DEF UpsertRemote, DeleteRemote
<1>4. CASE UpsertCatalog(w) \/ DeleteCatalog(w)
  BY <1>4, AskingOK DEF UpsertCatalog, DeleteCatalog
<1>5. CASE UpdateSettings(w)
  BY <1>5, AskingOK DEF UpdateSettings
<1>6. CASE UpsertVariable(w) \/ DeleteVariable(w)
  BY <1>6, AskingOK DEF UpsertVariable, DeleteVariable
<1>7. CASE UpsertProvider(w)
  <2>1. \A ks \in {{}, {"llm"}} : ks \subseteq SettingKey
    BY DEF SettingKey
  <2>2. PICK p \in Provider, ks \in SUBSET SettingKey :
          Serve(w, <<Op("save provider", p), Op("save settings", ks)>>)
    BY <1>7, <2>1 DEF UpsertProvider
  <2> QED
    <3>1. Asked(Op("save provider", p)) /\ Asked(Op("save settings", ks))
      OBVIOUS
    <3>2. p \in OpRow /\ ks \in OpRow
      OBVIOUS
    <3>3. "save provider" \in OpKind /\ "save settings" \in OpKind
      OBVIOUS
    <3> HIDE DEF Asked, Op, OpKind, OpRow
    <3> QED
      BY <2>2, <3>1, <3>2, <3>3, AskingTwiceOK
<1>8. CASE SetDefaultProvider(w)
  <2>1. doc.providers \subseteq Provider
    BY DEF DocumentInv, Kept, Document
  <2> QED
    BY <1>8, <2>1, AskingOK DEF SetDefaultProvider
<1>9. CASE DeleteProvider(w)
  BY <1>9, AskingOK DEF DeleteProvider
<1>10. CASE TestProvider(w)
  <2>1. doc.providers \subseteq Provider /\ doc.settings \subseteq SettingKey
    BY DEF DocumentInv, Kept, Document
  <2>2. PICK p \in Provider, ks \in SUBSET SettingKey :
          Serve(w, <<Op("save provider", p), Op("save settings", ks)>>)
    BY <1>10, <2>1 DEF TestProvider
  <2> QED
    <3>1. Asked(Op("save provider", p)) /\ Asked(Op("save settings", ks))
      OBVIOUS
    <3>2. p \in OpRow /\ ks \in OpRow
      OBVIOUS
    <3>3. "save provider" \in OpKind /\ "save settings" \in OpKind
      OBVIOUS
    <3> HIDE DEF Asked, Op, OpKind, OpRow
    <3> QED
      BY <2>2, <3>1, <3>2, <3>3, AskingTwiceOK
<1>11. CASE CreateJob(w) \/ UpdateJob(w) \/ DeleteJob(w)
  BY <1>11, AskingOK DEF CreateJob, UpdateJob, DeleteJob
<1> QED
  BY <1>1, <1>2, <1>3, <1>4, <1>5, <1>6, <1>7, <1>8, <1>9, <1>10, <1>11 DEF Request

LEMMA DocumentStep ==
    ASSUME DocumentInv, [DocumentNext]_documentVars
    PROVE  DocumentInv' /\ (doc' # doc => Coherent(doc'))
<1> DEFINE Goal == DocumentInv' /\ (doc' # doc => Coherent(doc'))
<1>0. Kept(doc) /\ \A w \in Worker : FrameOK(serving[w])
  BY DEF DocumentInv
<1>i. FrameOK(Idle)
  BY DEF FrameOK, WorkerFrame, Idle, EmptyDocument, Document
<1>1. ASSUME NEW w \in Worker, Request(w) PROVE Goal
  BY <1>1, RequestOK
<1>2. ASSUME NEW w \in Worker, Load(w) PROVE Goal
  <2>1. CASE file = "whole"
    <3> DEFINE f == [serving[w] EXCEPT !.pc = IF Seeded(doc) = doc THEN "loaded" ELSE "seed",
                                       !.held = Seeded(doc)]
    <3>1. Seeded(doc) \in Document /\ Coherent(Seeded(doc))
      BY <1>0, SeededOK
    <3>2. FrameOK(f)
      BY <1>0, <1>2, <3>1 DEF FrameOK, WorkerFrame, Load
    <3>3. Become(w, f) /\ doc' = doc
      BY <1>2, <2>1 DEF Load
    <3> HIDE DEF f
    <3> QED
      BY <3>2, <3>3, <1>0, BecomeOK
  <2>2. CASE file # "whole"
    BY <1>2, <2>2, <1>0, <1>i, BecomeOK DEF Load
  <2> QED
    BY <2>1, <2>2
<1>3. ASSUME NEW w \in Worker, OpenSeed(w) PROVE Goal
  <2> DEFINE f == [serving[w] EXCEPT !.pc = "seeding"]
  <2>1. FrameOK(f)
    BY <1>0, <1>3 DEF FrameOK, WorkerFrame, OpenSeed
  <2>2. Become(w, f) /\ doc' = doc
    BY <1>3 DEF OpenSeed
  <2> HIDE DEF f
  <2> QED
    BY <2>1, <2>2, <1>0, BecomeOK
<1>4. ASSUME NEW w \in Worker, Open(w) PROVE Goal
  <2> DEFINE held == serving[w].held
             op == Head(serving[w].todo)
             f == [serving[w] EXCEPT !.pc = "writing", !.held = Changed(held, op)]
  <2>1. op \in AskedOp /\ held \in Document /\ Coherent(held)
    BY <1>0, <1>4 DEF FrameOK, WorkerFrame, Open
  <2>2. Changed(held, op) \in Document /\ Coherent(Changed(held, op))
    BY <2>1, ChangedOK DEF AskedOp
  <2>3. FrameOK(f)
    BY <1>0, <1>4, <2>2 DEF FrameOK, WorkerFrame, Open
  <2>4. (Become(w, f) \/ Become(w, Idle)) /\ doc' = doc
    BY <1>4 DEF Open
  <2> HIDE DEF f
  <2> QED
    BY <2>3, <2>4, <1>0, <1>i, BecomeOK
<1>5. ASSUME NEW w \in Worker, Write(w) PROVE Goal
  <2> DEFINE rest == Tail(serving[w].todo)
             loaded == [serving[w] EXCEPT !.pc = "loaded"]
             next == [Idle EXCEPT !.pc = "load", !.todo = rest]
  <2>1. /\ serving[w] \in WorkerFrame /\ Coherent(serving[w].held) /\ serving[w].todo # <<>>
        /\ serving[w].pc \in {"seeding", "writing"}
    BY <1>0, <1>5 DEF FrameOK, Write, Writing
  <2>2. FrameOK(loaded)
    BY <2>1 DEF FrameOK, WorkerFrame
  <2>3. rest # <<>> => FrameOK(next)
    <3>1. rest \in Seq(AskedOp) /\ EmptyDocument \in Document
      BY <2>1 DEF WorkerFrame, EmptyDocument, Document
    <3> HIDE DEF rest
    <3> QED
      BY <3>1 DEF FrameOK, WorkerFrame, Idle
  <2>4. \/ Become(w, loaded) \/ Become(w, Idle)
        \/ rest # <<>> /\ Become(w, next)
    BY <1>5 DEF Write
  <2>5. doc' = serving[w].held \/ doc' = doc
    BY <1>5 DEF Write
  <2>6. Kept(doc') /\ (doc' # doc => Coherent(doc'))
    BY <1>0, <2>1, <2>5 DEF Kept, Coherent, WorkerFrame
  <2> HIDE DEF loaded, next, rest
  <2> QED
    BY <2>2, <2>3, <2>4, <2>6, <1>i, BecomeOK
<1>6. CASE Stop
  BY <1>6, <1>0, <1>i DEF Stop, DocumentInv
<1>7. CASE UNCHANGED documentVars
  BY <1>7, <1>0 DEF documentVars, DocumentInv, FrameOK
<1> QED
  BY <1>1, <1>2, <1>3, <1>4, <1>5, <1>6, <1>7 DEF DocumentNext

\* For any number of threads and requests, whichever saves overlap or are lost: every document
\* that is written is coherent.
THEOREM DocumentStaysCoherent == DocumentSpec => DocumentCoherent
<1>1. DocumentInv /\ [DocumentNext]_documentVars => DocumentInv'
  BY DocumentStep
<1>2. DocumentInv /\ [DocumentNext]_documentVars
        => [doc' # doc => Coherent(doc')]_documentVars
  BY DocumentStep
<1> QED
  BY <1>1, <1>2, DocumentInitOK, PTL DEF DocumentSpec, DocumentCoherent

-----------------------------------------------------------------------------
(* MCP servers and their discovery.                                        *)

\* The row a job marks its server with, but for the error it leaves.
Unerred(row) == [row EXCEPT !.error = FALSE]
Marked(row) == [row EXCEPT !.status = "discovering", !.error = FALSE]

\* Ready rows have the tools of their command.
Fits(row) == row.status = "ready" => row.tools = row.command

EditorFrame == [pc : {"idle", "read"}, server : Server \cup {Blank}, row : Row \cup {Missing}]
PoolFrame == [pc : {"idle", "mark", "discover"}, server : Server \cup {Blank},
              row : Row \cup {Missing}]

DiscoveryRows ==
    /\ rows \in [Server -> Row \cup {Missing}]
    /\ pool \in [PoolThread -> PoolFrame]
    /\ editing \in [Editor -> EditorFrame]
    /\ overlapped \subseteq Server
    /\ \A i \in 1 .. Len(jobQueue) : jobQueue[i] \in Server
    /\ jobQueue \in Seq(Server)
    /\ \A t \in PoolThread : pool[t].pc # "idle" => pool[t].server \in Server /\ pool[t].row \in Row
    /\ \A t \in PoolThread : pool[t].pc = "idle" => pool[t] = Rest
    /\ \A e \in Editor : editing[e].pc = "idle" => editing[e] = Rest
    /\ \A e \in Editor :
           editing[e].pc # "idle" => editing[e].server \in Server /\ editing[e].row \in Row

NamesApart ==
    \A s, t \in Server : Present(s) /\ Present(t) /\ rows[s].title = rows[t].title => s = t

\* A server nobody overlapped is honest, so is every row of it an editor holds, and a job
\* that discovers it finds the row it marked.
Overlaps ==
    \A s \in Server \ overlapped :
        /\ Present(s) => Fits(rows[s])
        /\ \A e \in Editor : editing[e].pc = "read" /\ editing[e].server = s => Fits(editing[e].row)
        /\ \A t \in PoolThread : pool[t].pc = "discover" /\ pool[t].server = s =>
               rows[s] \in Row /\ Unerred(rows[s]) = Marked(pool[t].row)

DiscoveryInv == DiscoveryRows /\ NamesApart /\ Overlaps

LEMMA MissingApart == Missing \notin Row
  BY DEF Missing, Row, Status

LEMMA DiscoveryInitOK == DiscoveryInit => DiscoveryInv
  BY DEF DiscoveryInit, DiscoveryInv, DiscoveryRows, EditorFrame, PoolFrame, NamesApart,
         Overlaps, Present, Rest

\* Saving a row of s by one of those who hold a row, or by nobody's leave: what has to be true
\* of the row saved, and of what the actor holds after it.
LEMMA SavingOK ==
    ASSUME DiscoveryInv, NEW s \in Server, NEW row \in Row, ~Clash(s, row), Upsert(s, row)
    PROVE  /\ rows' \in [Server -> Row \cup {Missing}] /\ NamesApart'
           /\ rows'[s] \in Row /\ Unerred(rows'[s]) = Unerred(row)
           /\ \A t \in Server : t # s => rows'[t] = rows[t]
<1>1. \E e \in BOOLEAN : Normalized(s, row) = [row EXCEPT !.error = e]
  BY DEF Normalized
<1>2. /\ Normalized(s, row) \in Row /\ Normalized(s, row).title = row.title
      /\ Unerred(Normalized(s, row)) = Unerred(row)
  BY <1>1 DEF Row, Unerred
<1>3. /\ rows' = [rows EXCEPT ![s] = Normalized(s, row)]
      /\ rows \in [Server -> Row \cup {Missing}]
  BY DEF Upsert, DiscoveryInv, DiscoveryRows
<1>4. NamesApart'
  <2> SUFFICES ASSUME NEW t \in Server, NEW u \in Server, t # u, Present(t)', Present(u)',
                      rows'[t].title = rows'[u].title
               PROVE  FALSE
    BY DEF NamesApart
  <2> HIDE DEF Row
  <2>1. CASE t # s /\ u # s
    BY <2>1, <1>3 DEF DiscoveryInv, NamesApart, Present
  <2>2. CASE t = s
    BY <2>2, <1>2, <1>3 DEF Clash, Present
  <2>3. CASE u = s
    BY <2>3, <1>2, <1>3 DEF Clash, Present
  <2> QED
    BY <2>1, <2>2, <2>3
<1> QED
  BY <1>2, <1>3, <1>4

\* What a save has to do for the rows to stay honest: other actors that hold a row of s
\* make it overlapped, and if nobody does, the row is honest.
LEMMA SavedHonestly ==
    ASSUME DiscoveryInv, NEW s \in Server, NEW actor, rows' \in [Server -> Row \cup {Missing}],
           \A t \in Server : t # s => rows'[t] = rows[t],
           overlapped' \subseteq Server, overlapped \ {s} \subseteq overlapped',
           s \notin overlapped' => Holders(s) \ {actor} = {},
           s \notin overlapped' => (Present(s)' => Fits(rows'[s])),
           \A t \in PoolThread :
               \/ pool'[t] = pool[t] /\ (pool[t].server = s => t # actor)
               \/ pool'[t] = Rest
               \/ /\ pool'[t].server = s /\ s \notin overlapped'
                     => rows'[s] \in Row /\ Unerred(rows'[s]) = Marked(pool'[t].row)
                  /\ pool'[t].server = s,
           \A e \in Editor :
               \/ editing'[e] = editing[e] /\ (editing[e].server = s => e # actor)
               \/ editing'[e] = Rest
    PROVE  Overlaps'
<1> SUFFICES ASSUME NEW u \in Server, u \notin overlapped'
             PROVE  /\ Present(u)' => Fits(rows'[u])
                    /\ \A e \in Editor : editing'[e].pc = "read" /\ editing'[e].server = u
                          => Fits(editing'[e].row)
                    /\ \A t \in PoolThread : pool'[t].pc = "discover" /\ pool'[t].server = u
                          => rows'[u] \in Row /\ Unerred(rows'[u]) = Marked(pool'[t].row)
  BY DEF Overlaps
<1> USE DEF Rest
<1> HIDE DEF Row, Missing
<1>0. u # s => u \notin overlapped /\ rows'[u] = rows[u]
  OBVIOUS
<1>1. Present(u)' => Fits(rows'[u])
  BY <1>0 DEF DiscoveryInv, Overlaps, Present
<1>2. ASSUME NEW e \in Editor, editing'[e].pc = "read", editing'[e].server = u
      PROVE  Fits(editing'[e].row)
  <2>1. editing'[e] = editing[e] /\ (editing[e].server = s => e # actor)
    BY <1>2
  <2>2. u # s
    BY <2>1, <1>2 DEF Holders
  <2> QED
    BY <2>1, <2>2, <1>0, <1>2 DEF DiscoveryInv, Overlaps
<1>3. ASSUME NEW t \in PoolThread, pool'[t].pc = "discover", pool'[t].server = u
      PROVE  rows'[u] \in Row /\ Unerred(rows'[u]) = Marked(pool'[t].row)
  <2>1. CASE pool'[t] = pool[t] /\ (pool[t].server = s => t # actor)
    <3>1. u # s
      BY <2>1, <1>3 DEF Holders
    <3> QED
      BY <2>1, <3>1, <1>0, <1>3 DEF DiscoveryInv, Overlaps
  <2> QED
    BY <2>1, <1>3
<1> QED
  BY <1>1, <1>2, <1>3

\* What Noted gives of the premises above.
LEMMA NotedOK ==
    ASSUME NEW s \in Server, NEW actor, Noted(s, actor), overlapped \subseteq Server
    PROVE  /\ overlapped' \subseteq Server /\ overlapped \ {s} \subseteq overlapped'
           /\ s \notin overlapped' => s \notin overlapped /\ Holders(s) \ {actor} = {}
  BY DEF Noted

\* A handler that saves a row of s.
LEMMA EditorSaves ==
    ASSUME DiscoveryInv, NEW e \in Editor, NEW s \in Server, NEW row \in Row,
           ~Clash(s, row), Upsert(s, row), Noted(s, e),
           s \notin overlapped => Fits(row),
           editing[e] = Rest \/ editing[e].server = s,
           editing' = [editing EXCEPT ![e] = Rest], pool' = pool
    PROVE  rows' \in [Server -> Row \cup {Missing}] /\ NamesApart' /\ Overlaps'
<1>1. /\ rows' \in [Server -> Row \cup {Missing}] /\ NamesApart'
      /\ rows'[s] \in Row /\ Unerred(rows'[s]) = Unerred(row)
      /\ \A t \in Server : t # s => rows'[t] = rows[t]
  BY SavingOK
<1>2. s \notin overlapped => Fits(rows'[s])
  BY <1>1 DEF Unerred, Fits, Row
<1>3. overlapped \subseteq Server /\ Editor \cap PoolThread = {}
  BY McpDiscoveryAssumption DEF DiscoveryInv, DiscoveryRows, McpDiscoveryAssumption
<1>4. /\ \A t \in PoolThread : pool'[t] = pool[t] /\ t # e
      /\ \A f \in Editor : editing'[f] = Rest \/ (editing'[f] = editing[f] /\ f # e)
  BY <1>3 DEF DiscoveryInv, DiscoveryRows
<1> HIDE DEF Row
<1>5. Overlaps'
  BY <1>1, <1>2, <1>3, <1>4, NotedOK, SavedHonestly
<1> QED
  BY <1>1, <1>5

DiscoveryGoal == rows' \in [Server -> Row \cup {Missing}] /\ NamesApart' /\ Overlaps'

LEMMA EditorsOK ==
    ASSUME DiscoveryInv, NEW e \in Editor,
           \/ CreateServer(e) \/ ReadServer(e) \/ EditCommand(e) \/ Rename(e)
           \/ SyncTools(e) \/ DeleteServer(e)
    PROVE  DiscoveryGoal
<1> DEFINE s == editing[e].server
           row == editing[e].row
<1>0. /\ rows \in [Server -> Row \cup {Missing}] /\ overlapped \subseteq Server
      /\ editing[e].pc = "idle" => editing[e] = Rest
      /\ editing[e].pc = "read" => s \in Server /\ row \in Row
      /\ editing[e].pc = "read" /\ s \notin overlapped => Fits(row)
      /\ NamesApart /\ Overlaps
  BY DEF DiscoveryInv, DiscoveryRows, Overlaps
<1>1. CASE CreateServer(e)
  <2>1. PICK u \in Server, n \in Title, c \in Command :
          LET new == [title |-> n, command |-> c, tools |-> Blank, status |-> "discovering",
                      error |-> FALSE] IN
          \E t \in IF Clash(u, new) THEN {v \in Server : Present(v) /\ rows[v].title = n} ELSE {u} :
             /\ t = u => ~Present(u)
             /\ Upsert(t, new) /\ Noted(t, e)
    BY <1>1 DEF CreateServer
  <2> DEFINE new == [title |-> n, command |-> c, tools |-> Blank, status |-> "discovering",
                     error |-> FALSE]
  <2>2. new \in Row /\ Fits(new) /\ new.title = n
    BY DEF Row, Status, Fits
  <2>3. PICK t \in Server :
          /\ \/ Clash(u, new) /\ Present(t) /\ rows[t].title = n
             \/ ~Clash(u, new) /\ t = u
          /\ t = u => ~Present(u)
          /\ Upsert(t, new) /\ Noted(t, e)
    BY <2>1
  <2>4. ~Clash(t, new)
    BY <2>2, <2>3, <1>0 DEF Clash, NamesApart
  <2>5. editing' = [editing EXCEPT ![e] = Rest] /\ pool' = pool /\ editing[e] = Rest
    BY <1>1, <1>0 DEF CreateServer, DiscoveryInv, DiscoveryRows
  <2> HIDE DEF new
  <2> QED
    BY <2>2, <2>3, <2>4, <2>5, EditorSaves DEF DiscoveryGoal
<1>2. CASE ReadServer(e)
  <2>1. PICK u \in Server : Present(u) /\ editing' = [editing EXCEPT ![e] = Enter(@, "read", u)]
    BY <1>2 DEF ReadServer
  <2>2. /\ editing'[e].row = rows[u] /\ editing'[e].server = u
        /\ \A f \in Editor : f # e => editing'[f] = editing[f]
        /\ rows' = rows /\ overlapped' = overlapped /\ pool' = pool
    BY <1>2, <2>1 DEF ReadServer, Enter, DiscoveryInv, DiscoveryRows, EditorFrame, PoolFrame
  <2>3. Overlaps'
    BY <2>1, <2>2, <1>0 DEF Overlaps, Present
  <2> QED
    BY <2>2, <2>3, <1>0 DEF DiscoveryGoal, NamesApart, Present
<1>s. ASSUME NEW new \in Row, editing[e].pc = "read", s \notin overlapped => Fits(new), Leave(e),
             pool' = pool,
             \/ ~Clash(s, new) /\ Upsert(s, new) /\ Noted(s, e)
             \/ UNCHANGED <<rows, overlapped>>
      PROVE  DiscoveryGoal
  <2>1. CASE ~Clash(s, new) /\ Upsert(s, new) /\ Noted(s, e)
    BY <2>1, <1>s, <1>0, EditorSaves DEF DiscoveryGoal, Leave
  <2>2. CASE UNCHANGED <<rows, overlapped>>
    BY <2>2, <1>s, <1>0 DEF DiscoveryGoal, NamesApart, Present, Overlaps, Leave, Rest,
                            DiscoveryInv, DiscoveryRows
  <2> QED
    BY <1>s, <2>1, <2>2
<1>3. CASE EditCommand(e)
  <2>1. PICK c \in Command :
          \/ ~Clash(s, Edited(row, c)) /\ Upsert(s, Edited(row, c)) /\ Noted(s, e)
          \/ UNCHANGED <<rows, overlapped>>
    BY <1>3 DEF EditCommand
  <2>2. editing[e].pc = "read" /\ Leave(e) /\ pool' = pool
    BY <1>3 DEF EditCommand
  <2>3. Edited(row, c) \in Row /\ Fits(Edited(row, c))
    BY <1>0, <2>2 DEF Edited, Row, Status, Fits
  <2> QED
    BY <2>1, <2>2, <2>3, <1>s
<1>4. CASE Rename(e)
  <2> DEFINE Renamed(n) == [row EXCEPT !.title = n]
  <2>1. PICK n \in Title :
          \/ ~Clash(s, Renamed(n)) /\ Upsert(s, Renamed(n)) /\ Noted(s, e)
          \/ UNCHANGED <<rows, overlapped>>
    BY <1>4 DEF Rename
  <2>2. editing[e].pc = "read" /\ Leave(e) /\ pool' = pool
    BY <1>4 DEF Rename
  <2>3. Renamed(n) \in Row /\ (s \notin overlapped => Fits(Renamed(n)))
    BY <1>0, <2>2 DEF Row, Status, Fits
  <2> HIDE DEF Renamed
  <2> QED
    BY <2>1, <2>2, <2>3, <1>s
<1>5. CASE SyncTools(e)
  <2>1. /\ ~Clash(s, Marked(row)) /\ Upsert(s, Marked(row)) /\ Noted(s, e)
        /\ editing[e].pc = "read" /\ Leave(e) /\ pool' = pool
    BY <1>5 DEF SyncTools, Marked
  <2>2. Marked(row) \in Row /\ Fits(Marked(row))
    BY <1>0, <2>1 DEF Row, Status, Fits, Marked
  <2> QED
    BY <2>1, <2>2, <1>s
<1>6. CASE DeleteServer(e)
  <2>1. PICK u \in Server :
        /\ rows' = [rows EXCEPT ![u] = Missing] /\ Noted(u, e)
        /\ editing' = [editing EXCEPT ![e] = Rest] /\ pool' = pool
    BY <1>6, <1>0 DEF DeleteServer, Leave
  <2>2. /\ rows' \in [Server -> Row \cup {Missing}] /\ rows'[u] = Missing
        /\ \A t \in Server : t # u => rows'[t] = rows[t]
    BY <2>1, <1>0
  <2>3. NamesApart'
    BY <2>2, <1>0 DEF NamesApart, Present
  <2>4. /\ \A t \in PoolThread : pool'[t] = pool[t] /\ t # e
        /\ \A f \in Editor : editing'[f] = Rest \/ (editing'[f] = editing[f] /\ f # e)
    BY <2>1, McpDiscoveryAssumption DEF DiscoveryInv, DiscoveryRows, McpDiscoveryAssumption
  <2>5. ~Present(u)'
    BY <2>2 DEF Present
  <2>6. Overlaps'
    BY <2>1, <2>2, <2>4, <2>5, <1>0, NotedOK, SavedHonestly
  <2> QED
    BY <2>2, <2>3, <2>6 DEF DiscoveryGoal
<1> QED
  BY <1>1, <1>2, <1>3, <1>4, <1>5, <1>6

LEMMA JobsOK ==
    ASSUME DiscoveryInv, NEW t \in PoolThread, StartJob(t) \/ MarkDiscovering(t) \/ SaveDiscovery(t)
    PROVE  DiscoveryGoal
<1> DEFINE row == pool[t].row
<1>0. /\ rows \in [Server -> Row \cup {Missing}] /\ overlapped \subseteq Server
      /\ pool[t].pc # "idle" => pool[t].server \in Server /\ row \in Row
      /\ NamesApart /\ Overlaps
  BY DEF DiscoveryInv, DiscoveryRows
<1>a. \A u \in Editor : u # t
  BY McpDiscoveryAssumption DEF McpDiscoveryAssumption
<1>1. CASE StartJob(t)
  <2>1. /\ \A u \in PoolThread : pool'[u] = pool[u] \/ pool'[u].pc = "mark"
        /\ rows' = rows /\ overlapped' = overlapped /\ editing' = editing
    <3>1. pool \in [PoolThread -> PoolFrame]
      BY DEF DiscoveryInv, DiscoveryRows
    <3>2. \/ pool' = pool
          \/ \E s \in Server : pool' = [pool EXCEPT ![t] = Enter(@, "mark", s)]
      BY <1>1 DEF StartJob, DiscoveryInv, DiscoveryRows
    <3>3. rows' = rows /\ overlapped' = overlapped /\ editing' = editing
      BY <1>1 DEF StartJob
    <3> QED
      BY <3>1, <3>2, <3>3 DEF Enter, PoolFrame
  <2>2. Overlaps'
    BY <2>1, <1>0 DEF Overlaps, Present
  <2> QED
    BY <2>1, <2>2, <1>0 DEF DiscoveryGoal, NamesApart, Present
<1>2. CASE MarkDiscovering(t)
  <2>1. PICK s \in Server : s = pool[t].server /\ pool[t].pc = "mark"
    BY <1>2, <1>0 DEF MarkDiscovering
  <2>2. Marked(row) \in Row /\ Fits(Marked(row))
    BY <1>0, <2>1 DEF Row, Status, Fits, Marked
  <2>3. CASE ~Clash(s, Marked(row)) /\ Upsert(s, Marked(row)) /\ Noted(s, t) /\ Step(t, "discover")
    <3>1. /\ rows' \in [Server -> Row \cup {Missing}] /\ NamesApart'
          /\ rows'[s] \in Row /\ Unerred(rows'[s]) = Unerred(Marked(row))
          /\ \A u \in Server : u # s => rows'[u] = rows[u]
      BY <2>2, <2>3, SavingOK
    <3>2. Fits(rows'[s]) /\ Unerred(rows'[s]) = Marked(row)
      BY <2>2, <3>1, <1>0, <2>1 DEF Unerred, Fits, Row, Marked
    <3>3. /\ pool'[t].row = row /\ pool'[t].server = s
          /\ \A u \in PoolThread : u # t => pool'[u] = pool[u]
          /\ editing' = editing
      BY <1>2, <2>1, <2>3 DEF Step, MarkDiscovering, DiscoveryInv, DiscoveryRows
    <3> HIDE DEF row
    <3>4. Overlaps'
      BY <3>1, <3>2, <3>3, <1>0, <1>a, <2>3, NotedOK, SavedHonestly
    <3> QED
      BY <3>1, <3>4 DEF DiscoveryGoal
  <2>4. CASE Done(t) /\ UNCHANGED <<rows, overlapped>>
    <3>1. editing' = editing /\ \A u \in PoolThread : pool'[u] = pool[u] \/ pool'[u].pc = "idle"
      BY <1>2, <2>4 DEF Done, Rest, MarkDiscovering, DiscoveryInv, DiscoveryRows
    <3>2. Overlaps'
      BY <2>4, <3>1, <1>0 DEF Overlaps, Present
    <3> QED
      BY <2>4, <3>2, <1>0 DEF DiscoveryGoal, NamesApart, Present
  <2> QED
    BY <1>2, <2>1, <2>3, <2>4 DEF MarkDiscovering, Marked
<1>3. CASE SaveDiscovery(t)
  <2>1. PICK s \in Server : s = pool[t].server /\ pool[t].pc = "discover"
    BY <1>3, <1>0 DEF SaveDiscovery
  <2>2. PICK found \in BOOLEAN :
          \/ /\ ~Clash(s, Discovered(t, found)) /\ Upsert(s, Discovered(t, found))
             /\ IF Undisturbed(t) THEN overlapped' = overlapped \ {s} ELSE Noted(s, t)
          \/ UNCHANGED <<rows, overlapped>>
    BY <1>3, <2>1 DEF SaveDiscovery
  <2>3. /\ pool'[t] = Rest /\ editing' = editing
        /\ \A u \in PoolThread : u # t => pool'[u] = pool[u]
    BY <1>3 DEF SaveDiscovery, Done, DiscoveryInv, DiscoveryRows
  <2>4. CASE UNCHANGED <<rows, overlapped>>
    <3>1. \A u \in PoolThread : pool'[u] = pool[u] \/ pool'[u].pc = "idle"
      BY <2>3 DEF Rest
    <3>2. Overlaps'
      BY <2>3, <2>4, <3>1, <1>0 DEF Overlaps, Present
    <3> QED
      BY <2>4, <3>2, <1>0 DEF DiscoveryGoal, NamesApart, Present
  <2>5. CASE /\ ~Clash(s, Discovered(t, found)) /\ Upsert(s, Discovered(t, found))
             /\ IF Undisturbed(t) THEN overlapped' = overlapped \ {s} ELSE Noted(s, t)
    <3> DEFINE new == Discovered(t, found)
               Mine == rows[s] \in Row /\ Unerred(rows[s]) = Marked(row)
    <3>1. Latest(t) \in Row
      BY <1>0, <2>1 DEF Latest, Present
    <3>2. new \in Row
      BY <1>0, <2>1, <3>1 DEF Discovered, Row, Status
    <3>3. Mine => Fits(new)
      <4>1. Mine => Present(s) /\ rows[s].command = row.command
        BY MissingApart, <1>0, <2>1 DEF Present, Unerred, Marked, Row
      <4> QED
        BY <4>1, <3>1, <2>1 DEF Discovered, Latest, Fits, Row
    <3>4. /\ rows' \in [Server -> Row \cup {Missing}] /\ NamesApart'
          /\ rows'[s] \in Row /\ Unerred(rows'[s]) = Unerred(new)
          /\ \A u \in Server : u # s => rows'[u] = rows[u]
      BY <2>5, <3>2, SavingOK
    <3>5. Fits(new) => Fits(rows'[s])
      BY <3>2, <3>4 DEF Unerred, Fits, Row
    <3>6. /\ overlapped' \subseteq Server /\ overlapped \ {s} \subseteq overlapped'
          /\ s \notin overlapped' => Holders(s) \ {t} = {} /\ Mine
      <4>1. CASE Undisturbed(t)
        <5>1. /\ Holders(s) = {t}
              /\ Unerred(rows[s]) = Marked(row)
          BY <4>1, <2>1 DEF Undisturbed, Unerred, Marked
        <5>2. rows[s] # Missing
          <6>1. Unerred(Missing).status = "missing"
            BY DEF Unerred, Missing
          <6>2. Marked(row).status = "discovering"
            BY <1>0, <2>1 DEF Marked, Row
          <6> QED
            BY <5>1, <6>1, <6>2
        <5> QED
          BY <4>1, <5>1, <5>2, <2>5, <1>0
      <4>2. CASE ~Undisturbed(t)
        <5>1. Noted(s, t)
          BY <4>2, <2>5
        <5>2. s \notin overlapped => Mine
          BY <1>0, <2>1 DEF Overlaps
        <5> HIDE DEF Mine
        <5> QED
          BY <5>1, <5>2, <1>0, NotedOK
      <4> QED
        BY <4>1, <4>2
    <3> HIDE DEF new, Mine
    <3>7. Overlaps'
      BY <3>3, <3>4, <3>5, <3>6, <2>3, <1>a, SavedHonestly
    <3> QED
      BY <3>4, <3>7 DEF DiscoveryGoal
  <2> QED
    BY <2>2, <2>4, <2>5
<1> QED
  BY <1>1, <1>2, <1>3

LEMMA EnterOK ==
    ASSUME NEW s \in Server, rows[s] \in Row
    PROVE  /\ \A f \in EditorFrame :
                  /\ Enter(f, "read", s) \in EditorFrame /\ Enter(f, "read", s).pc = "read"
                  /\ Enter(f, "read", s).server = s /\ Enter(f, "read", s).row = rows[s]
           /\ \A f \in PoolFrame :
                  /\ Enter(f, "mark", s) \in PoolFrame /\ Enter(f, "mark", s).pc = "mark"
                  /\ Enter(f, "mark", s).server = s /\ Enter(f, "mark", s).row = rows[s]
<1> HIDE DEF Row
<1> QED
  BY DEF Enter, EditorFrame, PoolFrame

\* Frames and the queue keep their types.
LEMMA DiscoveryFramesOK ==
    ASSUME DiscoveryInv, [DiscoveryNext]_discoveryVars,
           rows' \in [Server -> Row \cup {Missing}], overlapped' \subseteq Server
    PROVE  DiscoveryRows'
<1> DEFINE Frames == /\ pool' \in [PoolThread -> PoolFrame]
                     /\ \A t \in PoolThread :
                            /\ pool'[t].pc # "idle"
                                 => pool'[t].server \in Server /\ pool'[t].row \in Row
                            /\ pool'[t].pc = "idle" => pool'[t] = Rest
           Forms == /\ editing' \in [Editor -> EditorFrame]
                    /\ \A e \in Editor :
                            /\ editing'[e].pc # "idle"
                                 => editing'[e].server \in Server /\ editing'[e].row \in Row
                            /\ editing'[e].pc = "idle" => editing'[e] = Rest
           Queue == jobQueue' \in Seq(Server)
<1> USE DEF DiscoveryInv, DiscoveryRows, EditorFrame, PoolFrame
<1> HIDE DEF Row
<1>1. /\ pool' = pool => Frames
      /\ editing' = editing => Forms
      /\ jobQueue' = jobQueue => Queue
  OBVIOUS
<1>2. \A s \in Server : Schedule(s) => Queue
  BY DEF Schedule
<1>3. \A e \in Editor : Leave(e) => Forms
  BY DEF Leave, Rest
<1>4. ASSUME NEW e \in Editor, CreateServer(e) PROVE Frames /\ Forms /\ Queue
  <2>1. PICK s \in Server : Schedule(s)
    BY <1>4 DEF CreateServer
  <2> QED
    BY <1>4, <2>1, <1>1, <1>2 DEF CreateServer
<1>5. ASSUME NEW e \in Editor, ReadServer(e) PROVE Frames /\ Forms /\ Queue
  <2>1. PICK s \in Server : Present(s) /\ editing' = [editing EXCEPT ![e] = Enter(@, "read", s)]
    BY <1>5 DEF ReadServer
  <2>2. rows[s] \in Row
    BY <2>1 DEF Present
  <2> DEFINE frame == Enter(editing[e], "read", s)
  <2>3. /\ frame.pc = "read" /\ frame.server = s /\ frame.row = rows[s]
        /\ frame \in EditorFrame
    BY <2>2, EnterOK
  <2>5. editing' = [editing EXCEPT ![e] = frame]
    BY <2>1
  <2> HIDE DEF frame
  <2>4. Forms
    BY <2>2, <2>3, <2>5
  <2> QED
    BY <1>5, <2>4, <1>1 DEF ReadServer
<1>6. ASSUME NEW e \in Editor, EditCommand(e) \/ Rename(e) \/ SyncTools(e) \/ DeleteServer(e)
      PROVE  Frames /\ Forms /\ Queue
  <2>1. Leave(e) /\ pool' = pool /\ editing[e].pc = "read"
    BY <1>6 DEF EditCommand, Rename, SyncTools, DeleteServer
  <2>2. jobQueue' = jobQueue \/ Schedule(editing[e].server)
    BY <1>6 DEF EditCommand, Rename, SyncTools, DeleteServer
  <2> QED
    BY <2>1, <2>2, <1>1, <1>2, <1>3
<1>7. ASSUME NEW t \in PoolThread, StartJob(t) PROVE Frames /\ Forms /\ Queue
  <2>1. Head(jobQueue) \in Server /\ Tail(jobQueue) \in Seq(Server)
    BY <1>7 DEF StartJob
  <2> DEFINE s == Head(jobQueue)
  <2>2. Present(s) => rows[s] \in Row
    BY <2>1 DEF Present
  <2>3. pool' = pool \/ (Present(s) /\ pool' = [pool EXCEPT ![t] = Enter(@, "mark", s)])
    BY <1>7 DEF StartJob
  <2>4. CASE Present(s) /\ pool' = [pool EXCEPT ![t] = Enter(@, "mark", s)]
    <3> DEFINE frame == Enter(pool[t], "mark", s)
    <3>3. /\ frame.pc = "mark" /\ frame.server = s /\ frame.row = rows[s]
          /\ frame \in PoolFrame
      BY <2>1, <2>2, <2>4, EnterOK
    <3>1. pool' = [pool EXCEPT ![t] = frame]
      BY <2>4
    <3> HIDE DEF frame
    <3>2. Frames
      BY <2>1, <2>2, <2>4, <3>1, <3>3
    <3> QED
      BY <1>7, <2>1, <3>2, <1>1 DEF StartJob
  <2> QED
    BY <1>7, <2>1, <2>3, <2>4, <1>1 DEF StartJob
<1>8. ASSUME NEW t \in PoolThread, MarkDiscovering(t) \/ SaveDiscovery(t)
      PROVE  Frames /\ Forms /\ Queue
  <2>1. /\ Step(t, "discover") \/ Done(t)
        /\ pool[t].pc # "idle" /\ editing' = editing /\ jobQueue' = jobQueue
    BY <1>8 DEF MarkDiscovering, SaveDiscovery
  <2>2. CASE Done(t)
    BY <2>1, <2>2, <1>1 DEF Done, Rest
  <2>3. CASE Step(t, "discover")
    <3> DEFINE frame == [pool[t] EXCEPT !.pc = "discover"]
    <3>1. pool' = [pool EXCEPT ![t] = frame] /\ frame.pc = "discover"
          /\ frame.server = pool[t].server /\ frame.row = pool[t].row
          /\ frame \in PoolFrame
      BY <2>3 DEF Step
    <3>2. pool[t].server \in Server /\ pool[t].row \in Row
      BY <2>1
    <3> HIDE DEF frame
    <3>3. Frames
      BY <3>1, <3>2
    <3> QED
      BY <2>1, <3>3, <1>1
  <2> QED
    BY <2>1, <2>2, <2>3
<1>9. CASE DiscoveryRestart
  BY <1>9 DEF DiscoveryRestart, Rest
<1>10. CASE UNCHANGED discoveryVars
  BY <1>10, <1>1 DEF discoveryVars
<1>11. Frames /\ Forms /\ Queue
  BY <1>4, <1>5, <1>6, <1>7, <1>8, <1>9, <1>10 DEF DiscoveryNext
<1> QED
  BY <1>11

LEMMA DiscoveryStep ==
    ASSUME DiscoveryInv, [DiscoveryNext]_discoveryVars PROVE DiscoveryInv'
<1>1. DiscoveryGoal /\ overlapped' \subseteq Server
  <2>0. DiscoveryRows /\ NamesApart /\ Overlaps
    BY DEF DiscoveryInv
  <2>1. ASSUME DiscoveryRestart PROVE DiscoveryGoal
    BY <2>1, <2>0 DEF DiscoveryRestart, DiscoveryGoal, NamesApart, Present, Overlaps, Rest,
                      DiscoveryRows
  <2>2. ASSUME UNCHANGED discoveryVars PROVE DiscoveryGoal
    BY <2>2, <2>0 DEF discoveryVars, DiscoveryGoal, NamesApart, Present, Overlaps, DiscoveryRows
  <2>3. DiscoveryGoal
    BY <2>1, <2>2, EditorsOK, JobsOK DEF DiscoveryNext
  <2>4. overlapped' \subseteq Server
    <3>1. ASSUME NEW s \in Server, NEW a, Noted(s, a) PROVE overlapped' \subseteq Server
      BY <3>1, <2>0 DEF Noted, DiscoveryRows
    <3>2. ASSUME NEW e \in Editor, CreateServer(e) PROVE overlapped' \subseteq Server
      <4>1. \E s \in Server : Noted(s, e)
        BY <3>2 DEF CreateServer
      <4> QED
        BY <4>1, <3>1
    <3>3. ASSUME NEW e \in Editor, EditCommand(e) \/ Rename(e) \/ SyncTools(e) \/ DeleteServer(e)
          PROVE  overlapped' \subseteq Server
      <4>1. editing[e].server \in Server
        BY <3>3, <2>0 DEF EditCommand, Rename, SyncTools, DeleteServer, DiscoveryRows
      <4>2. overlapped' = overlapped \/ Noted(editing[e].server, e)
        BY <3>3 DEF EditCommand, Rename, SyncTools, DeleteServer
      <4> QED
        BY <4>1, <4>2, <3>1, <2>0 DEF DiscoveryRows
    <3>4. ASSUME NEW t \in PoolThread, MarkDiscovering(t) \/ SaveDiscovery(t)
          PROVE  overlapped' \subseteq Server
      <4>1. pool[t].server \in Server
        BY <3>4, <2>0 DEF MarkDiscovering, SaveDiscovery, DiscoveryRows
      <4>2. \/ overlapped' = overlapped \/ Noted(pool[t].server, t)
            \/ overlapped' = overlapped \ {pool[t].server}
        BY <3>4 DEF MarkDiscovering, SaveDiscovery
      <4> QED
        BY <4>1, <4>2, <3>1, <2>0 DEF DiscoveryRows
    <3>5. ASSUME DiscoveryRestart PROVE overlapped' \subseteq Server
      BY <3>5, <2>0 DEF DiscoveryRestart, DiscoveryRows
    <3> QED
      BY <2>0, <3>2, <3>3, <3>4, <3>5
         DEF DiscoveryNext, discoveryVars, ReadServer, StartJob, DiscoveryRows
  <2> QED
    BY <2>3, <2>4
<1> QED
  BY <1>1, DiscoveryFramesOK DEF DiscoveryGoal, DiscoveryInv

\* For any number of servers, handlers and discovery threads: a server that is ready has the
\* tools of its command unless saves of it overlapped, and no two servers share a name.
THEOREM DiscoveryIsHonest == DiscoverySpec => []DiscoveryHonest
<1>1. DiscoveryInv => DiscoveryHonest
  BY DEF DiscoveryInv, DiscoveryHonest, NamesApart, Overlaps, Fits
<1> QED
  BY <1>1, DiscoveryInitOK, DiscoveryStep, PTL DEF DiscoverySpec

-----------------------------------------------------------------------------
(* The error chat.                                                         *)

Busy(t) == chat[t].pc # "idle"

\* A SQL history is never loaded and saved as a whole.
RowByRow == kind = "sql" => \A t \in Chatter : chat[t].pc \notin {"save", "resave"}

\* Submissions have numbers of their own, given out in order.
Numbered ==
    /\ \A t \in Chatter : Busy(t) => chat[t].id \in 1 .. chats
    /\ \A t, u \in Chatter : Busy(t) /\ Busy(u) /\ t # u => chat[t].id # chat[u].id

\* A SQL history has nothing of a submission before it is appended.
NotYetThere ==
    kind = "sql" =>
        /\ \A i \in Chat : i > chats => history[i] = "absent" /\ i \notin cleared
        /\ \A t \in Chatter : chat[t].pc = "append" =>
               history[chat[t].id] = "absent" /\ chat[t].id \notin cleared

ChatInv == ChatTypeOK /\ RowByRow /\ Numbered /\ NotYetThere /\ PendingBacked
             /\ ClearedStaysCleared

LEMMA ChatInitOK == ChatInit => ChatInv
<1> USE ChatAssumption DEF ChatAssumption
<1> SUFFICES ASSUME ChatInit PROVE ChatInv
  OBVIOUS
<1>1. ChatTypeOK
  BY DEF ChatInit, ChatTypeOK, EmptyHistory, IdleChat, Chat, Analysis
<1>2. RowByRow /\ Numbered
  BY DEF ChatInit, RowByRow, Numbered, Busy, IdleChat
<1>3. NotYetThere /\ PendingBacked /\ ClearedStaysCleared
  BY DEF ChatInit, NotYetThere, PendingBacked, ClearedStaysCleared, EmptyHistory, IdleChat
<1> QED
  BY <1>1, <1>2, <1>3 DEF ChatInv

ChatPc == {"idle", "append", "save", "analyse", "update", "resave"}
ChatFrame == [pc : ChatPc, id : 0 .. MaxChats, analysis : Analysis, copy : [Chat -> Analysis]]

LEMMA ChatFrames ==
    /\ IdleChat \in ChatFrame
    /\ \A f \in ChatFrame, p \in ChatPc :
           /\ [f EXCEPT !.pc = p] \in ChatFrame
           /\ \A h \in [Chat -> Analysis] : [f EXCEPT !.copy = h, !.pc = p] \in ChatFrame
           /\ \A i \in 0 .. MaxChats, a \in Analysis :
                  [f EXCEPT !.pc = p, !.id = i, !.analysis = a] \in ChatFrame
<1>1. EmptyHistory \in [Chat -> Analysis]
  BY DEF EmptyHistory, Analysis
<1>2. IdleChat \in ChatFrame
  BY <1>1, ChatAssumption DEF ChatAssumption, IdleChat, ChatFrame, ChatPc, Analysis
<1> QED
  BY <1>2 DEF ChatFrame

\* The threads' frames keep their type.
LEMMA ChatFramesOK ==
    ASSUME ChatTypeOK, [ChatNext]_chatVars PROVE chat' \in [Chatter -> ChatFrame]
<1> USE ChatAssumption DEF ChatAssumption
<1>0. /\ chat \in [Chatter -> ChatFrame] /\ history \in [Chat -> Analysis]
      /\ chats \in 0 .. MaxChats
  BY DEF ChatTypeOK, ChatFrame, ChatPc
<1>p. \A p \in {"idle", "append", "save", "analyse", "update", "resave"} : p \in ChatPc
  BY DEF ChatPc
<1>1. ASSUME NEW t \in Chatter, SubmitErrorChat(t) PROVE chat' \in [Chatter -> ChatFrame]
  <2>1. FirstAnalysis(ready) \in Analysis /\ (chats < MaxChats => chats + 1 \in 0 .. MaxChats)
    BY <1>0 DEF FirstAnalysis, Analysis
  <2>2. chats < MaxChats =>
          [IdleChat EXCEPT !.pc = "append", !.id = chats + 1, !.analysis = FirstAnalysis(ready)]
            \in ChatFrame
    BY <2>1, <1>0, <1>p, ChatFrames
  <2> QED
    BY <1>1, <1>0, <2>2 DEF SubmitErrorChat
<1>2. ASSUME NEW t \in Chatter, SqlAppend(t) \/ FileAppend(t) PROVE chat' \in [Chatter -> ChatFrame]
  <2>1. \A p \in {"analyse", "idle"} : [chat[t] EXCEPT !.pc = p] \in ChatFrame
    BY <1>0, <1>p, ChatFrames
  <2> QED
    BY <1>2, <1>0, <2>1 DEF SqlAppend, FileAppend, AfterAppend
<1>3. ASSUME NEW t \in Chatter, FileLoad(t) PROVE chat' \in [Chatter -> ChatFrame]
  <2>1. \A p \in {"save", "resave"} : [chat[t] EXCEPT !.copy = history, !.pc = p] \in ChatFrame
    BY <1>0, <1>p, ChatFrames
  <2> QED
    BY <1>3, <1>0, <2>1 DEF FileLoad
<1>4. ASSUME NEW t \in Chatter,
             AnalyseInBackground(t) \/ SqlUpdate(t) \/ FileUpdate(t) \/ WriteFails(t)
      PROVE  chat' \in [Chatter -> ChatFrame]
  <2>1. \A p \in {"update", "idle"} : [chat[t] EXCEPT !.pc = p] \in ChatFrame
    BY <1>0, <1>p, ChatFrames
  <2> QED
    BY <1>4, <1>0, <2>1 DEF AnalyseInBackground, SqlUpdate, FileUpdate, WriteFails, Goto
<1>5. CASE AdminRestarts
  BY <1>5, <1>0, <1>p, ChatFrames DEF AdminRestarts, Analysis
<1>6. CASE ClearErrorChat \/ ProviderChanges \/ UNCHANGED chatVars
  BY <1>6, <1>0 DEF ClearErrorChat, ProviderChanges, chatVars
<1> QED
  BY <1>1, <1>2, <1>3, <1>4, <1>5, <1>6 DEF ChatNext

\* One lemma for the types, which every action keeps.
LEMMA ChatTypes == ASSUME ChatTypeOK, Numbered, [ChatNext]_chatVars PROVE ChatTypeOK'
<1> USE ChatAssumption DEF ChatAssumption
<1> DEFINE Others == /\ kind \in {"file", "sql"} /\ ready \in BOOLEAN
                     /\ history \in [Chat -> Analysis]
                     /\ chats \in 0 .. MaxChats /\ flaws \in 0 .. MaxFlaws
                     /\ abandoned \subseteq Chat /\ cleared \subseteq Chat
<1>0. Others /\ chat \in [Chatter -> ChatFrame]
  BY DEF ChatTypeOK, ChatFrame, ChatPc
<1>a. \A t \in Chatter : chat[t].analysis \in Analysis /\ chat[t].copy \in [Chat -> Analysis]
  BY <1>0 DEF ChatFrame
<1>b. \A t \in Chatter : chat[t].pc # "idle" => chat[t].id \in Chat
  BY <1>0 DEF Numbered, Busy, Chat
<1>c. {"absent", "pending", "settled"} = Analysis
  BY DEF Analysis
<1>1. ASSUME NEW t \in Chatter, SubmitErrorChat(t) PROVE Others'
  BY <1>1, <1>0 DEF SubmitErrorChat
<1>2. ASSUME NEW t \in Chatter, SqlAppend(t) \/ FileAppend(t) PROVE Others'
  BY <1>2, <1>0, <1>a DEF SqlAppend, FileAppend, Appended
<1>3. ASSUME NEW t \in Chatter, SqlUpdate(t) \/ FileUpdate(t) PROVE Others'
  BY <1>3, <1>0, <1>a, <1>c DEF SqlUpdate, FileUpdate, Updated
<1>4. ASSUME NEW t \in Chatter, FileLoad(t) \/ AnalyseInBackground(t) PROVE Others'
  BY <1>4, <1>0 DEF FileLoad, AnalyseInBackground
<1>5. ASSUME NEW t \in Chatter, WriteFails(t) PROVE Others'
  BY <1>5, <1>0, <1>b DEF WriteFails, Flawed
<1>6. ASSUME ClearErrorChat PROVE Others'
  BY <1>6, <1>0, <1>c DEF ClearErrorChat, EmptyHistory, ListItems
<1>7. ASSUME ProviderChanges PROVE Others'
  BY <1>7, <1>0 DEF ProviderChanges, Flawed
<1>8. ASSUME AdminRestarts PROVE Others'
  BY <1>8, <1>0, <1>b DEF AdminRestarts, Flawed
<1>9. ASSUME UNCHANGED chatVars PROVE Others'
  BY <1>9, <1>0 DEF chatVars
<1>10. Others'
  BY <1>1, <1>2, <1>3, <1>4, <1>5, <1>6, <1>7, <1>8, <1>9 DEF ChatNext
<1> QED
  BY <1>10, ChatFramesOK DEF ChatTypeOK, ChatFrame, ChatPc

LEMMA ChatNumbers == ASSUME ChatTypeOK, Numbered, [ChatNext]_chatVars PROVE Numbered'
<1> USE ChatAssumption DEF ChatAssumption, Numbered, Busy
<1>0. /\ chat \in [Chatter -> ChatFrame] /\ chat' \in [Chatter -> ChatFrame]
      /\ chats \in Nat
      /\ \A t \in Chatter : chat[t].id \in Nat
  BY ChatFramesOK DEF ChatTypeOK, ChatFrame, ChatPc
<1>1. ASSUME NEW t \in Chatter, SubmitErrorChat(t) PROVE Numbered'
  <2>1. CASE UNCHANGED chat
    BY <1>1, <2>1, <1>0 DEF SubmitErrorChat
  <2>2. CASE ~UNCHANGED chat
    <3>1. /\ chats' = chats + 1 /\ chat'[t].id = chats + 1
          /\ \A u \in Chatter : u # t => chat'[u] = chat[u]
      BY <1>1, <2>2, <1>0 DEF SubmitErrorChat, IdleChat
    <3> QED
      BY <3>1, <1>0
  <2> QED
    BY <2>1, <2>2
<1>2. ASSUME NEW t \in Chatter,
             \/ SqlAppend(t) \/ FileAppend(t) \/ FileLoad(t) \/ AnalyseInBackground(t)
             \/ SqlUpdate(t) \/ FileUpdate(t) \/ WriteFails(t)
      PROVE  Numbered'
  <2>1. /\ chats' = chats /\ chat[t].pc # "idle" /\ chat'[t].id = chat[t].id
        /\ \A u \in Chatter : u # t => chat'[u] = chat[u]
    BY <1>2, <1>0 DEF SqlAppend, FileAppend, FileLoad, AnalyseInBackground, SqlUpdate,
                      FileUpdate, WriteFails, AfterAppend, Goto, ChatFrame
  <2> QED
    BY <2>1, <1>0
<1>3. CASE AdminRestarts
  BY <1>3, <1>0 DEF AdminRestarts, IdleChat
<1>4. CASE ClearErrorChat \/ ProviderChanges \/ UNCHANGED chatVars
  BY <1>4, <1>0 DEF ClearErrorChat, ProviderChanges, chatVars
<1> QED
  BY <1>1, <1>2, <1>3, <1>4 DEF ChatNext

\* What the invariant says of a SQL history.
SqlInv == RowByRow /\ NotYetThere /\ PendingBacked /\ ClearedStaysCleared

LEMMA ChatSqlOK == ASSUME ChatInv, [ChatNext]_chatVars PROVE SqlInv'
<1> USE ChatAssumption DEF ChatAssumption
<1>0. /\ chat \in [Chatter -> ChatFrame] /\ history \in [Chat -> Analysis]
      /\ chats \in 0 .. MaxChats
      /\ cleared \subseteq Chat
      /\ \A t \in Chatter : chat[t].pc # "idle" => chat[t].id \in 1 .. chats /\ chat[t].id \in Chat
  BY DEF ChatInv, ChatTypeOK, ChatFrame, ChatPc, Numbered, Busy, Chat
<1>k. kind' = kind
  BY DEF ChatNext, chatVars, SubmitErrorChat, SqlAppend, FileLoad, FileAppend, AnalyseInBackground,
         SqlUpdate, FileUpdate, WriteFails, ClearErrorChat, ProviderChanges, AdminRestarts
<1>f. CASE kind # "sql"
  BY <1>f, <1>k DEF SqlInv, RowByRow, NotYetThere, PendingBacked, ClearedStaysCleared
<1>s. CASE kind = "sql"
  <2> USE <1>k, <1>s
  <2> USE DEF SqlInv, RowByRow, NotYetThere, PendingBacked, ClearedStaysCleared
  <2>0. RowByRow /\ NotYetThere /\ PendingBacked /\ ClearedStaysCleared
    BY DEF ChatInv
  <2>1. ASSUME NEW t \in Chatter, SubmitErrorChat(t) PROVE SqlInv'
    <3>1. /\ history' = history /\ cleared' = cleared /\ chats' = chats + 1
          /\ abandoned' = abandoned
          /\ chat[t].pc = "idle"
          /\ \A u \in Chatter : u # t => chat'[u] = chat[u]
          /\ \/ chat'[t] = chat[t]
             \/ chat'[t].pc = "append" /\ chat'[t].id = chats + 1
      BY <2>1, <1>0 DEF SubmitErrorChat, IdleChat
    <3>2. chats + 1 \in Chat
      BY <2>1, <1>0 DEF SubmitErrorChat, Chat
    <3>3. RowByRow' /\ ClearedStaysCleared'
      BY <3>1, <2>0, <1>0
    <3>4. PendingBacked'
      BY <3>1, <2>0, <1>0
    <3>5. NotYetThere'
      <4>1. \A i \in Chat : i > chats + 1 => i > chats
        BY <1>0 DEF Chat
      <4>2. history[chats + 1] = "absent" /\ chats + 1 \notin cleared
        BY <3>2, <2>0, <1>0
      <4> QED
        BY <3>1, <4>1, <4>2, <2>0, <1>0
    <3> QED
      BY <3>3, <3>4, <3>5
  <2>2. ASSUME NEW t \in Chatter, SqlAppend(t) PROVE SqlInv'
    <3>1. /\ cleared' = cleared /\ chats' = chats /\ abandoned' = abandoned
          /\ chat[t].pc = "append"
          /\ history' = [history EXCEPT ![chat[t].id] = chat[t].analysis]
          /\ \A u \in Chatter : u # t => chat'[u] = chat[u]
          /\ chat'[t].id = chat[t].id
          /\ chat'[t].pc = (IF chat[t].analysis = "pending" THEN "analyse" ELSE "idle")
      BY <2>2, <1>0 DEF SqlAppend, Appended, AfterAppend, ChatFrame
    <3>2. \A u \in Chatter : u # t /\ chat[u].pc # "idle" => chat[u].id # chat[t].id
      BY <3>1 DEF ChatInv, Numbered, Busy
    <3> QED
      BY <3>1, <3>2, <2>0, <1>0
  <2>3. ASSUME NEW t \in Chatter, SqlUpdate(t) PROVE SqlInv'
    <3>1. /\ cleared' = cleared /\ chats' = chats /\ abandoned' = abandoned
          /\ chat[t].pc = "update"
          /\ \A i \in Chat : history'[i] = IF i = chat[t].id /\ history[i] # "absent"
                                           THEN "settled" ELSE history[i]
          /\ \A u \in Chatter : u # t => chat'[u] = chat[u]
          /\ chat'[t].pc = "idle"
      BY <2>3, <1>0 DEF SqlUpdate, Updated, ListItems, Goto, ChatFrame
    <3> QED
      BY <3>1, <2>0, <1>0
  <2>4. ASSUME NEW t \in Chatter, AnalyseInBackground(t) PROVE SqlInv'
    <3>1. /\ cleared' = cleared /\ chats' = chats /\ abandoned' = abandoned
          /\ chat[t].pc = "analyse" /\ history' = history
          /\ \A u \in Chatter : u # t => chat'[u] = chat[u]
          /\ chat'[t].pc = "update" /\ chat'[t].id = chat[t].id
      BY <2>4, <1>0 DEF AnalyseInBackground, RunLlmAnalysis, Goto, ChatFrame
    <3> QED
      BY <3>1, <2>0, <1>0
  <2>5. ASSUME NEW t \in Chatter, WriteFails(t) PROVE SqlInv'
    <3>1. /\ cleared' = cleared /\ chats' = chats /\ history' = history
          /\ abandoned' = abandoned \cup {chat[t].id}
          /\ \A u \in Chatter : u # t => chat'[u] = chat[u]
          /\ chat'[t].pc = "idle"
      BY <2>5, <1>0 DEF WriteFails, Goto, ChatFrame
    <3> QED
      BY <3>1, <2>0, <1>0
  <2>6. ASSUME NEW t \in Chatter, FileLoad(t) \/ FileAppend(t) \/ FileUpdate(t) PROVE SqlInv'
    BY <2>6, <2>0 DEF FileLoad, FileAppend, FileUpdate
  <2>7. ASSUME ClearErrorChat PROVE SqlInv'
    <3>1. /\ chat' = chat /\ chats' = chats /\ abandoned' = abandoned
          /\ \A i \in Chat : history'[i] = "absent"
          /\ cleared' = cleared \cup {i \in Chat : history[i] # "absent"}
      BY <2>7 DEF ClearErrorChat, EmptyHistory, ListItems
    <3>2. cleared' \subseteq Chat
      BY <3>1 DEF ChatInv, ChatTypeOK
    <3> QED
      BY <3>1, <3>2, <2>0, <1>0
  <2>8. ASSUME AdminRestarts PROVE SqlInv'
    BY <2>8, <2>0, <1>0 DEF AdminRestarts, IdleChat
  <2>9. ASSUME ProviderChanges \/ UNCHANGED chatVars PROVE SqlInv'
    BY <2>9, <2>0 DEF ProviderChanges, chatVars
  <2> QED
    BY <2>1, <2>2, <2>3, <2>4, <2>5, <2>6, <2>7, <2>8, <2>9 DEF ChatNext
<1> QED
  BY <1>f, <1>s

LEMMA ChatInvariance == ChatSpec => []ChatInv
<1>1. ChatInv /\ [ChatNext]_chatVars => ChatInv'
  <2> SUFFICES ASSUME ChatInv, [ChatNext]_chatVars PROVE ChatInv'
    OBVIOUS
  <2>1. ChatTypeOK /\ Numbered
    BY DEF ChatInv
  <2> QED
    BY <2>1, ChatTypes, ChatNumbers, ChatSqlOK DEF ChatInv, SqlInv
<1> QED
  BY <1>1, ChatInitOK, PTL DEF ChatSpec

\* A SQL history says "pending" only of a submission that a thread is analysing (or was when
\* it died), and never shows again what was cleared, for any number of threads and
\* submissions.
THEOREM HistoryIsHonest == ChatSpec => []HistoryHonest
<1>1. ChatInv => HistoryHonest
  BY DEF ChatInv, HistoryHonest
<1> QED
  BY <1>1, ChatInvariance, PTL

-----------------------------------------------------------------------------
(* Skills.                                                                 *)

\* No process has disabled its own default skill, and neither has the stored overlay.
DefaultOn(ov) == ov.enabled[ov.default] # "no"
DefaultsOn == DefaultOn(stored) /\ \A p \in Process : DefaultOn(overlay[p])

PlaybooksInv == PlaybooksTypeOK /\ DefaultsOn

LEMMA OverlayEdits ==
    ASSUME NEW ov \in Overlay, NEW s \in Slug
    PROVE  /\ \A r \in Role : [ov EXCEPT !.role[s] = r] \in Overlay
           /\ \A e \in {"yes", "no", "-"} : [ov EXCEPT !.enabled[s] = e] \in Overlay
           /\ \A e \in {"yes", "no", "-"} :
                  [ov EXCEPT !.enabled[s] = e, !.default = Builtin] \in Overlay
           /\ [ov EXCEPT !.default = s] \in Overlay
           /\ \A d \in Slug : [default |-> d, role |-> [ov.role EXCEPT ![s] = "-"],
                               enabled |-> [ov.enabled EXCEPT ![s] = "-"]] \in Overlay
<1>1. Builtin \in Slug
  BY DEF Slug
<1> QED
  BY <1>1 DEF Overlay

LEMMA PlaybooksInitOK == PlaybooksInit => PlaybooksInv
<1> SUFFICES ASSUME PlaybooksInit PROVE PlaybooksInv
  OBVIOUS
<1>1. FreshOverlay \in Overlay
  BY DEF FreshOverlay, Overlay, Slug
<1>2. DefaultOn(FreshOverlay)
  BY DEF FreshOverlay, DefaultOn, Slug
<1>3. PlaybooksTypeOK
  BY <1>1, PlaybooksAssumption DEF PlaybooksInit, PlaybooksTypeOK, PlaybooksAssumption
<1> QED
  BY <1>2, <1>3 DEF PlaybooksInit, PlaybooksInv, DefaultsOn

\* Every overlay that an operation makes is one, and leaves its default on.
LEMMA OverlaysOK ==
    ASSUME PlaybooksInv, NEW p \in Process, NEW s \in Slug, Change(p, s)
    PROVE  /\ stored' = stored
           /\ \/ overlay' = overlay
              \/ \E ov \in Overlay : overlay' = [overlay EXCEPT ![p] = ov] /\ DefaultOn(ov)
<1> DEFINE now == overlay[p]
<1>0. /\ now \in Overlay /\ DefaultOn(now) /\ Builtin \in Slug
      /\ External \subseteq Slug /\ Builtin \notin External
  BY PlaybooksAssumption
     DEF PlaybooksInv, PlaybooksTypeOK, DefaultsOn, Slug, PlaybooksAssumption
<1>1. ASSUME NEW r \in Role, SetRole(p, s, r)
      PROVE  \E ov \in Overlay : overlay' = [overlay EXCEPT ![p] = ov] /\ DefaultOn(ov)
  <2>1. [now EXCEPT !.role[s] = r] \in Overlay
    BY <1>0, OverlayEdits
  <2>2. DefaultOn([now EXCEPT !.role[s] = r])
    BY <1>0 DEF DefaultOn, Overlay
  <2> QED
    BY <1>1, <2>1, <2>2 DEF SetRole, Overlaid
<1>2. ASSUME SetDefault(p, s)
      PROVE  \E ov \in Overlay : overlay' = [overlay EXCEPT ![p] = ov] /\ DefaultOn(ov)
  <2>1. [now EXCEPT !.default = s] \in Overlay
    BY <1>0, OverlayEdits
  <2>2. DefaultOn([now EXCEPT !.default = s])
    BY <1>0, <1>2 DEF DefaultOn, Overlay, SetDefault, Usable, IsEnabled
  <2> QED
    BY <1>2, <2>1, <2>2 DEF SetDefault, Overlaid
<1>3. ASSUME Enable(p, s)
      PROVE  \E ov \in Overlay : overlay' = [overlay EXCEPT ![p] = ov] /\ DefaultOn(ov)
  <2>1. [now EXCEPT !.enabled[s] = "yes"] \in Overlay
    BY <1>0, OverlayEdits
  <2>2. DefaultOn([now EXCEPT !.enabled[s] = "yes"])
    BY <1>0 DEF DefaultOn, Overlay
  <2> QED
    BY <1>3, <2>1, <2>2 DEF Enable, Overlaid
<1>4. ASSUME Disable(p, s)
      PROVE  \E ov \in Overlay : overlay' = [overlay EXCEPT ![p] = ov] /\ DefaultOn(ov)
  <2>1. CASE s # now.default
    <3>1. [now EXCEPT !.enabled[s] = "no"] \in Overlay
      BY <1>0, OverlayEdits
    <3>2. DefaultOn([now EXCEPT !.enabled[s] = "no"])
      BY <1>0, <2>1 DEF DefaultOn, Overlay
    <3> QED
      BY <1>4, <2>1, <3>1, <3>2 DEF Disable, Overlaid
  <2>2. CASE s = now.default
    <3>1. [now EXCEPT !.enabled[s] = "no", !.default = Builtin] \in Overlay
      BY <1>0, OverlayEdits
    <3>2. FallsBack(registry[p], now, s)
      BY <1>4, <2>2 DEF Disable
    <3>3. s # Builtin /\ now.enabled[Builtin] # "no"
      BY <3>2 DEF FallsBack, Usable, IsEnabled
    <3>4. DefaultOn([now EXCEPT !.enabled[s] = "no", !.default = Builtin])
      BY <1>0, <3>3 DEF DefaultOn, Overlay
    <3> QED
      BY <1>4, <2>2, <3>1, <3>4 DEF Disable, Overlaid
  <2> QED
    BY <2>1, <2>2
<1>5. ASSUME DeleteSkill(p, s)
      PROVE  \E ov \in Overlay : overlay' = [overlay EXCEPT ![p] = ov] /\ DefaultOn(ov)
  <2> DEFINE d == IF s = now.default THEN Builtin ELSE now.default
             ov == [default |-> d, role |-> [now.role EXCEPT ![s] = "-"],
                    enabled |-> [now.enabled EXCEPT ![s] = "-"]]
  <2>1. d \in Slug
    BY <1>0 DEF Overlay
  <2>2. ov \in Overlay
    BY <1>0, <2>1, OverlayEdits
  <2>3. s = now.default => now.enabled[Builtin] # "no"
    BY <1>5 DEF DeleteSkill, FallsBack, Usable, IsEnabled
  <2>4. DefaultOn(ov)
    BY <1>0, <2>1, <2>3 DEF DefaultOn, Overlay
  <2> QED
    BY <1>5, <2>2, <2>4 DEF DeleteSkill, Overlaid
<1>6. ASSUME Install(p, s) \/ Copy(p, s) PROVE overlay' = overlay
  BY <1>6 DEF Install, Copy
<1>7. stored' = stored
  BY DEF Change, SetRole, SetDefault, Enable, Disable, DeleteSkill, Install, Copy
<1> QED
  BY <1>1, <1>2, <1>3, <1>4, <1>5, <1>6, <1>7 DEF Change

LEMMA PlaybooksStep ==
    ASSUME PlaybooksInv, [PlaybooksNext]_playbookVars
    PROVE  PlaybooksInv'
<1> USE PlaybooksAssumption DEF PlaybooksAssumption
<1> DEFINE Packages == [Slug -> Package \cup {NoPackage}]
           Skills == /\ disk \in Packages /\ registry \in [Process -> Packages]
                     /\ job \in [Process -> {"none", "save", "reload"} \cup External]
                     /\ changes \in 0 .. MaxChanges
           Overlays == /\ stored \in Overlay /\ overlay \in [Process -> Overlay]
                       /\ DefaultsOn
<1>0. Skills /\ Overlays /\ External \subseteq Slug
  BY DEF PlaybooksInv, PlaybooksTypeOK, Slug
<1>1. ASSUME NEW p \in Process, NEW s \in Slug, Change(p, s) PROVE Skills' /\ Overlays'
  <2>1. Overlays'
    BY <1>0, <1>1, OverlaysOK DEF DefaultsOn
  <2>2. ASSUME NEW r \in Role, SetRole(p, s, r) PROVE Skills'
    BY <2>2, <1>0 DEF SetRole, Counted, Then
  <2>3. ASSUME SetDefault(p, s) \/ Enable(p, s) \/ Disable(p, s) PROVE Skills'
    BY <2>3, <1>0 DEF SetDefault, Enable, Disable, Counted, Then
  <2>4. ASSUME DeleteSkill(p, s) PROVE Skills'
    BY <2>4, <1>0 DEF DeleteSkill, Counted, Then
  <2>5. ASSUME Install(p, s) PROVE Skills'
    BY <2>5, <1>0 DEF Install, Counted, Then
  <2>6. ASSUME Copy(p, s) PROVE Skills'
    <3>1. registry' = registry /\ changes' = changes
      BY <2>6 DEF Copy
    <3>2. disk' \in Packages
      BY <2>6, <1>0 DEF Copy
    <3>3. job' \in [Process -> {"none", "save", "reload"} \cup External]
      BY <2>6, <1>0 DEF Copy, Then
    <3> QED
      BY <1>0, <3>1, <3>2, <3>3
  <2> QED
    BY <1>1, <2>1, <2>2, <2>3, <2>4, <2>5, <2>6 DEF Change
<1>2. ASSUME NEW p \in Process, SaveOverlay(p) PROVE Skills' /\ Overlays'
  BY <1>2, <1>0 DEF SaveOverlay, Then, DefaultsOn
<1>3. ASSUME NEW p \in Process, Reload(p) PROVE Skills' /\ Overlays'
  BY <1>3, <1>0 DEF Reload, Then, DefaultsOn
<1>4. ASSUME NEW p \in Process, RestartProcess(p) PROVE Skills' /\ Overlays'
  BY <1>4, <1>0 DEF RestartProcess, Then, DefaultsOn
<1>5. ASSUME UNCHANGED playbookVars PROVE Skills' /\ Overlays'
  BY <1>5, <1>0 DEF playbookVars, DefaultsOn
<1>6. Skills' /\ Overlays'
  BY <1>1, <1>2, <1>3, <1>4, <1>5 DEF PlaybooksNext
<1> QED
  BY <1>6 DEF PlaybooksInv, PlaybooksTypeOK

LEMMA PlaybooksInvariance == PlaybooksSpec => []PlaybooksInv
  BY PlaybooksInitOK, PlaybooksStep, PTL DEF PlaybooksSpec

\* Whatever sequence of operations in several processes, with crashes, led there: a case
\* finds a playbook, unless the default skill lost its package, was made a helper, or is
\* disabled by its own package.  What makes it inductive is that no operation disables a
\* skill that some overlay has as its default without handing the default over.
THEOREM PlaybookIsAvailable == PlaybooksSpec => []PlaybookAvailable
<1>1. PlaybooksInv => PlaybookAvailable
  <2> SUFFICES ASSUME PlaybooksInv, NEW p \in Process,
                      LET default == overlay[p].default IN
                      /\ EffectiveRole(registry[p], overlay[p], default) # "helper"
                      /\ Loaded(registry[p], default)
                      /\ \/ overlay[p].enabled[default] # "-"
                         \/ registry[p][default].enabled
               PROVE  Resolves(registry[p], overlay[p])
    BY DEF PlaybookAvailable
  <2> DEFINE default == overlay[p].default
  <2>1. /\ overlay[p] \in Overlay /\ registry[p] \in [Slug -> Package \cup {NoPackage}]
        /\ overlay[p].enabled[default] # "no"
    BY DEF PlaybooksInv, PlaybooksTypeOK, DefaultsOn, DefaultOn
  <2>2. registry[p][default] \in Package
    BY <2>1 DEF Overlay, Loaded
  <2>3. EffectiveRole(registry[p], overlay[p], default) = "playbook"
    BY <2>1, <2>2 DEF EffectiveRole, Overlay, Package, Role
  <2>4. IsEnabled(registry[p], overlay[p], default)
    BY <2>1, <2>2 DEF IsEnabled, Overlay
  <2> QED
    BY <2>3, <2>4 DEF Resolves, Usable
<1> QED
  BY <1>1, PlaybooksInvariance, PTL

-----------------------------------------------------------------------------
(* Channels and notifications.                                             *)

\* Rows of channels that have been made, no two of one name.
Rows(table, n) ==
    /\ DOMAIN table \subseteq 1 .. n
    /\ \A c \in DOMAIN table : table[c] \in ChannelRow
    /\ \A c, d \in DOMAIN table : table[c].name = table[d].name => c = d

\* What a request has read, and what it is about to write.
Snapshot(held, n) ==
    Rows(held.channels, n) /\ held.broadcast \in BOOLEAN /\ held.templates \subseteq TemplateId

EditOK(f, n) ==
    /\ DOMAIN f = {"pc", "id", "row", "held"}
    /\ Snapshot(f.held, n)
    /\ f.pc \in {"load", "write"} => f.id \in {Fresh} \cup 1 .. n /\ f.row \in ChannelRow

\* The messages still to be sent are for the channels listed and not yet tried, one for each.
Queued(todo, tried, listed) ==
    /\ todo \in Seq(ChannelId \X TemplateId)
    /\ \A c \in listed : c \in tried \/ \E i \in DOMAIN todo : todo[i][1] = c
    /\ \A i \in DOMAIN todo : todo[i][1] \in listed /\ todo[i][1] \notin tried
    /\ \A i, j \in DOMAIN todo : todo[i][1] = todo[j][1] => i = j

NoticeOK(n) ==
    /\ DOMAIN n = {"pc", "todo", "listed", "sent", "failed", "used"}
    /\ n.pc \in {"none", "list", "send", "done", "raised", "skipped", "env"}
    /\ n.sent \subseteq n.listed /\ n.failed \subseteq n.listed /\ n.used \subseteq TemplateId
    /\ n.pc = "list" => n.sent = {} /\ n.failed = {}
    /\ n.pc \in {"send", "done"} => n.sent \cap n.failed = {}
    /\ n.pc = "send" => Queued(n.todo, n.sent \cup n.failed, n.listed)
    /\ n.pc = "done" => n.sent \cup n.failed = n.listed

StoreOK ==
    /\ made.channels \in 0 .. MaxChannels
    /\ Rows(channels, made.channels) /\ broadcast \in BOOLEAN
    /\ templates \subseteq TemplateId /\ System \in templates

NoticesInv ==
    /\ StoreOK
    /\ DOMAIN made = {"channels", "templates", "edits", "notices"}
    /\ edit = [e \in ChannelEditor |-> edit[e]]
    /\ \A e \in ChannelEditor : EditOK(edit[e], made.channels)
    /\ NoticeOK(notice)

LEMMA NoticesServe == NoticesInv => NoticesTypeOK /\ ChannelsServed
<1> SUFFICES ASSUME NoticesInv PROVE NoticesTypeOK /\ ChannelsServed
  OBVIOUS
<1>1. made.channels \in Nat /\ MaxChannels \in Nat /\ made.channels <= MaxChannels
  BY NoticesAssumption DEF NoticesAssumption, NoticesInv, StoreOK
<1>2. 1 .. made.channels \subseteq ChannelId BY <1>1 DEF ChannelId
<1>3. NoticesTypeOK
  <2>1. \A e \in ChannelEditor : DOMAIN edit[e].held.channels \subseteq ChannelId
    BY <1>2 DEF NoticesInv, EditOK, Snapshot, Rows
  <2>2. notice.sent \cup notice.failed \subseteq notice.listed BY DEF NoticesInv, NoticeOK
  <2> QED BY <2>1, <2>2 DEF NoticesTypeOK, NoticesInv, StoreOK, Rows, NoticeOK
<1>4. ChannelNamesUnique BY DEF ChannelNamesUnique, NoticesInv, StoreOK, Rows
<1>5. EveryChannelTried BY DEF EveryChannelTried, NoticesInv, NoticeOK
<1> QED BY <1>3, <1>4, <1>5 DEF ChannelsServed

LEMMA RowsGrow ==
    ASSUME NEW table, NEW m \in Nat, NEW n \in Nat, m <= n, Rows(table, m)
    PROVE  Rows(table, n)
<1>1. 1 .. m \subseteq 1 .. n OBVIOUS
<1> QED BY <1>1 DEF Rows

LEMMA EditGrows ==
    ASSUME NEW f, NEW m \in Nat, NEW n \in Nat, m <= n, EditOK(f, m)
    PROVE  EditOK(f, n)
<1>1. 1 .. m \subseteq 1 .. n OBVIOUS
<1>2. Rows(f.held.channels, n) BY RowsGrow DEF EditOK, Snapshot
<1> QED BY <1>1, <1>2 DEF EditOK, Snapshot

LEMMA NoEditOK == ASSUME NEW n \in Nat PROVE EditOK(NoEdit, n)
<1>1. DOMAIN <<>> = {} OBVIOUS
<1>2. Rows(<<>>, n) BY <1>1 DEF Rows
<1>3. Snapshot(Nothing, n) BY <1>2 DEF Snapshot, Nothing, TemplateId
<1> QED BY <1>3 DEF EditOK, NoEdit

\* A row written where no other row has its name.
LEMMA WrittenOK ==
    ASSUME NEW n \in Nat, NEW table, Rows(table, n), NEW c \in 1 .. n, NEW row \in ChannelRow,
           NamedIn(table, row.name) \ {c} = {}
    PROVE  Rows(With(table, c, row), n)
<1> DEFINE new == With(table, c, row)
<1>1. DOMAIN new = DOMAIN table \cup {c} /\ new[c] = row
      /\ \A d \in DOMAIN table \ {c} : new[d] = table[d]
  BY DEF With
<1>2. \A d \in DOMAIN table \ {c} : table[d].name # row.name BY DEF NamedIn
<1> HIDE DEF new
<1>3. DOMAIN new \subseteq 1 .. n BY <1>1 DEF Rows
<1>4. \A d \in DOMAIN new : new[d] \in ChannelRow BY <1>1 DEF Rows
<1>5. \A d, e \in DOMAIN new : new[d].name = new[e].name => d = e
  BY <1>1, <1>2 DEF Rows
<1> QED BY <1>3, <1>4, <1>5 DEF Rows, new

LEMMA RemovedOK ==
    ASSUME NEW n \in Nat, NEW table, Rows(table, n), NEW gone
    PROVE  Rows(Without(table, gone), n)
<1> DEFINE new == Without(table, gone)
<1>1. DOMAIN new = DOMAIN table \ gone /\ \A d \in DOMAIN new : new[d] = table[d] BY DEF Without
<1> HIDE DEF new
<1>2. Rows(new, n) BY <1>1 DEF Rows
<1> QED BY <1>2 DEF new

LEMMA ReplacedOK ==
    ASSUME NEW n \in Nat, NEW table, Rows(table, n), NEW c \in 1 .. n, NEW row \in ChannelRow
    PROVE  Rows(Replaced(table, c, row), n)
<1> DEFINE rest == Without(table, NamedIn(table, row.name))
<1>1. Rows(rest, n) BY RemovedOK
<1>2. NamedIn(rest, row.name) = {} BY DEF NamedIn, Without
<1>3. Replaced(table, c, row) = With(rest, c, row) BY DEF Replaced
<1> HIDE DEF rest
<1> QED BY <1>1, <1>2, <1>3, WrittenOK

LEMMA NoticesInitOK == NoticesInit => NoticesInv
<1> SUFFICES ASSUME NoticesInit PROVE NoticesInv
  OBVIOUS
<1>1. made.channels = 0 /\ MaxChannels \in Nat /\ DOMAIN made = {"channels", "templates", "edits", "notices"}
  BY NoticesAssumption DEF NoticesAssumption, NoticesInit
<1>2. StoreOK
  <2>1. DOMAIN channels = {} BY DEF NoticesInit
  <2>2. Rows(channels, 0) BY <2>1 DEF Rows
  <2> QED BY <1>1, <2>2 DEF StoreOK, NoticesInit, TemplateId
<1>3. edit = [e \in ChannelEditor |-> NoEdit] BY DEF NoticesInit
<1>4. \A e \in ChannelEditor : EditOK(edit[e], made.channels) BY <1>1, <1>3, NoEditOK
<1>5. NoticeOK(notice) BY DEF NoticesInit, NoNotice, NoticeOK
<1> QED BY <1>1, <1>2, <1>3, <1>4, <1>5 DEF NoticesInv

-----------------------------------------------------------------------------
(* Requests.                                                               *)

\* Only the request that moves changes, and the channels made never shrink.
LEMMA EditsOK ==
    ASSUME NoticesInv, NEW e \in ChannelEditor, NEW f, edit' = [edit EXCEPT ![e] = f],
           made'.channels \in 0 .. MaxChannels, made.channels <= made'.channels,
           EditOK(f, made'.channels)
    PROVE  /\ edit' = [x \in ChannelEditor |-> edit'[x]]
           /\ \A x \in ChannelEditor : EditOK(edit'[x], made'.channels)
<1>1. made.channels \in Nat /\ made'.channels \in Nat
  BY NoticesAssumption DEF NoticesAssumption, NoticesInv, StoreOK
<1>2. edit = [x \in ChannelEditor |-> edit[x]] BY DEF NoticesInv
<1>3. \A x \in ChannelEditor : edit'[x] = IF x = e THEN f ELSE edit[x] BY <1>2
<1>4. edit' = [x \in ChannelEditor |-> edit'[x]] BY <1>2
<1>5. ASSUME NEW x \in ChannelEditor PROVE EditOK(edit'[x], made'.channels)
  <2>1. EditOK(edit[x], made'.channels) BY <1>1, EditGrows DEF NoticesInv
  <2> QED BY <1>3, <2>1
<1> QED BY <1>4, <1>5

\* What a request asks for is a row of channels that are there.
LEMMA AsksOK ==
    ASSUME NoticesInv, NEW e \in ChannelEditor, NEW pc, NEW c, NEW row, Asks(e, pc, c, row),
           pc # "write",
           pc = "load" => c \in {Fresh} \cup 1 .. made.channels /\ row \in ChannelRow
    PROVE  NoticesInv'
<1> DEFINE f == [NoEdit EXCEPT !.pc = pc, !.id = c, !.row = row]
<1>1. edit' = [edit EXCEPT ![e] = f]
      /\ made' = [made EXCEPT !["edits"] = @ + 1]
      /\ UNCHANGED <<storeKind, envTarget, channels, broadcast, templates, notice>>
  BY DEF Asks, Tallied
<1>2. f.pc = pc /\ f.id = c /\ f.row = row /\ f.held = Nothing
      /\ DOMAIN f = {"pc", "id", "row", "held"}
  BY DEF NoEdit
<1>3. made'.channels = made.channels /\ DOMAIN made' = {"channels", "templates", "edits", "notices"}
  BY <1>1 DEF NoticesInv
<1>4. made.channels \in Nat BY NoticesAssumption DEF NoticesAssumption, NoticesInv, StoreOK
<1>5. EditOK(NoEdit, made.channels) BY <1>4, NoEditOK
<1> HIDE DEF f
<1>6. Snapshot(f.held, made.channels) BY <1>2, <1>5 DEF EditOK, NoEdit
<1>7. EditOK(f, made'.channels) BY <1>2, <1>3, <1>6 DEF EditOK
<1>8. made.channels <= made'.channels /\ made'.channels \in 0 .. MaxChannels
  BY <1>3, <1>4 DEF NoticesInv, StoreOK
<1>9. /\ edit' = [x \in ChannelEditor |-> edit'[x]]
      /\ \A x \in ChannelEditor : EditOK(edit'[x], made'.channels)
  BY <1>1, <1>7, <1>8, EditsOK
<1>10. StoreOK' BY <1>1, <1>3 DEF NoticesInv, StoreOK
<1>11. NoticeOK(notice)' BY <1>1 DEF NoticesInv
<1> QED BY <1>3, <1>9, <1>10, <1>11 DEF NoticesInv

LEMMA ChannelRequestsOK ==
    ASSUME NoticesInv, NEW e \in ChannelEditor,
           \/ CreateChannel(e) \/ UpdateChannel(e) \/ PatchChannel(e) \/ DeleteChannel(e)
           \/ UpdateBroadcast(e) \/ CreateTemplate(e) \/ UpdateTemplate(e) \/ DeleteTemplate(e)
    PROVE  NoticesInv'
<1>1. DOMAIN channels \subseteq 1 .. made.channels /\ (\A c \in DOMAIN channels : channels[c] \in ChannelRow)
      /\ templates \subseteq TemplateId
  BY DEF NoticesInv, StoreOK, Rows
<1>2. CASE CreateChannel(e)
  <2>1. PICK n \in ChannelName, t \in templates :
           Asks(e, "load", Fresh, [name |-> n, enabled |-> TRUE, template |-> t])
    BY <1>2 DEF CreateChannel
  <2>2. [name |-> n, enabled |-> TRUE, template |-> t] \in ChannelRow BY <1>1 DEF ChannelRow
  <2> QED BY <2>1, <2>2, AsksOK
<1>3. CASE UpdateChannel(e)
  <2>1. PICK c \in DOMAIN channels, n \in ChannelName :
           Asks(e, "load", c, [channels[c] EXCEPT !.name = n])
    BY <1>3 DEF UpdateChannel
  <2>2. [channels[c] EXCEPT !.name = n] \in ChannelRow BY <1>1 DEF ChannelRow
  <2> QED BY <1>1, <2>1, <2>2, AsksOK
<1>4. CASE PatchChannel(e)
  <2>1. PICK c \in DOMAIN channels : Asks(e, "load", c, [channels[c] EXCEPT !.enabled = ~@])
    BY <1>4 DEF PatchChannel
  <2>2. [channels[c] EXCEPT !.enabled = ~@] \in ChannelRow BY <1>1 DEF ChannelRow
  <2> QED BY <1>1, <2>1, <2>2, AsksOK
<1>5. CASE DeleteChannel(e) \/ UpdateBroadcast(e) \/ CreateTemplate(e) \/ UpdateTemplate(e) \/ DeleteTemplate(e)
  <2>1. \E pc \in {"loadDelete", "loadSettings", "loadTemplate", "loadUntemplate"} : \E c : Asks(e, pc, c, <<>>)
    BY <1>5 DEF DeleteChannel, UpdateBroadcast, CreateTemplate, UpdateTemplate, DeleteTemplate
  <2>2. PICK pc \in {"loadDelete", "loadSettings", "loadTemplate", "loadUntemplate"} : \E c : Asks(e, pc, c, <<>>)
    BY <2>1
  <2>3. PICK c : Asks(e, pc, c, <<>>) BY <2>2
  <2>4. pc # "write" /\ pc # "load" OBVIOUS
  <2> QED BY <2>3, <2>4, AsksOK
<1> QED BY <1>2, <1>3, <1>4, <1>5

\* A request reads all that is stored.
LEMMA LoadStoreOK == ASSUME NoticesInv, NEW e \in ChannelEditor, LoadStore(e) PROVE NoticesInv'
<1> DEFINE now == [channels |-> channels, broadcast |-> broadcast, templates |-> templates]
           old == edit[e]
           f == [old EXCEPT !.pc = WriteStep(@), !.held = now]
<1>1. /\ edit' = [edit EXCEPT ![e] = f] /\ old.pc \in Waiting
      /\ UNCHANGED <<storeKind, envTarget, channels, broadcast, templates, made, notice>>
  BY DEF LoadStore
<1>2. EditOK(f, made.channels)
  <2>1. EditOK(old, made.channels) BY DEF NoticesInv
  <2>2. Snapshot(now, made.channels) BY DEF NoticesInv, StoreOK, Snapshot
  <2> HIDE DEF now
  <2>3. DOMAIN f = {"pc", "id", "row", "held"} /\ f.held = now /\ f.id = old.id /\ f.row = old.row
        /\ f.pc = WriteStep(old.pc)
    BY <2>1 DEF EditOK
  <2>4. f.pc # "load" /\ (f.pc = "write" => old.pc = "load") BY <1>1, <2>3 DEF WriteStep, Waiting
  <2> HIDE DEF f, old
  <2> QED BY <2>1, <2>2, <2>3, <2>4 DEF EditOK
<1> HIDE DEF f
<1>3. made' = made /\ made'.channels \in 0 .. MaxChannels /\ made.channels <= made'.channels
  BY <1>1, NoticesAssumption DEF NoticesAssumption, NoticesInv, StoreOK
<1>4. /\ edit' = [x \in ChannelEditor |-> edit'[x]]
      /\ \A x \in ChannelEditor : EditOK(edit'[x], made'.channels)
  BY <1>1, <1>2, <1>3, EditsOK
<1>5. StoreOK' BY <1>1 DEF NoticesInv, StoreOK
<1>6. NoticeOK(notice)' BY <1>1 DEF NoticesInv
<1> QED BY <1>1, <1>4, <1>5, <1>6 DEF NoticesInv

\* A request that is over: the table and the settings it leaves.
LEMMA EndedOK ==
    ASSUME NoticesInv, NEW e \in ChannelEditor, EndEdit(e), UNCHANGED notice,
           StoreOK', made.channels <= made'.channels,
           DOMAIN made' = {"channels", "templates", "edits", "notices"}
    PROVE  NoticesInv'
<1>1. made'.channels \in 0 .. MaxChannels BY DEF StoreOK
<1>2. made'.channels \in Nat BY <1>1, NoticesAssumption DEF NoticesAssumption
<1>3. EditOK(NoEdit, made'.channels) BY <1>2, NoEditOK
<1>4. /\ edit' = [x \in ChannelEditor |-> edit'[x]]
      /\ \A x \in ChannelEditor : EditOK(edit'[x], made'.channels)
  BY <1>1, <1>3, EditsOK DEF EndEdit
<1>5. NoticeOK(notice)' BY DEF NoticesInv
<1> QED BY <1>4, <1>5 DEF NoticesInv

LEMMA NormalizedOK ==
    ASSUME NEW held, NEW n \in Nat, Snapshot(held, n), n = made.channels,
           NEW c \in {Fresh} \cup 1 .. n, NEW row
    PROVE  NormalizedId(held, c, row) \in 1 .. n + 1
<1>1. 1 .. n \subseteq 1 .. n + 1 /\ n + 1 \in 1 .. n + 1 OBVIOUS
<1>2. CASE c # Fresh BY <1>1, <1>2 DEF NormalizedId
<1>3. CASE c = Fresh /\ NamedIn(held.channels, row.name) # {}
  <2> DEFINE S == NamedIn(held.channels, row.name)
  <2>1. (CHOOSE d \in S : TRUE) \in S BY <1>3
  <2>2. S \subseteq 1 .. n BY DEF NamedIn, Snapshot, Rows
  <2>3. NormalizedId(held, c, row) = (CHOOSE d \in S : TRUE) BY <1>3 DEF NormalizedId
  <2> HIDE DEF S
  <2> QED BY <1>1, <2>1, <2>2, <2>3
<1>4. CASE c = Fresh /\ NamedIn(held.channels, row.name) = {} BY <1>1, <1>4 DEF NormalizedId
<1> QED BY <1>2, <1>3, <1>4

LEMMA WriteChannelOK == ASSUME NoticesInv, NEW e \in ChannelEditor, WriteChannel(e) PROVE NoticesInv'
<1> DEFINE held == edit[e].held
           row == edit[e].row
           n == made.channels
           c == NormalizedId(held, edit[e].id, row)
<1>1. n \in Nat /\ MaxChannels \in Nat /\ n <= MaxChannels
  BY NoticesAssumption DEF NoticesAssumption, NoticesInv, StoreOK
<1>2. Snapshot(held, n) /\ edit[e].id \in {Fresh} \cup 1 .. n /\ row \in ChannelRow
  BY DEF WriteChannel, NoticesInv, EditOK
<1>3. c \in 1 .. n + 1 BY <1>1, <1>2, NormalizedOK
<1>4. c \in ChannelId BY DEF WriteChannel
<1>5. EndEdit(e) /\ UNCHANGED <<storeKind, envTarget, templates, notice>> BY DEF WriteChannel
<1> DEFINE m == IF c > n THEN c ELSE n
<1>6. m \in 0 .. MaxChannels /\ n <= m /\ c \in 1 .. m /\ m \in Nat
  <2> HIDE DEF c, n
  <2> QED BY <1>1, <1>3, <1>4 DEF ChannelId
<1>7. CASE UNCHANGED <<channels, broadcast, made>>
  <2>1. StoreOK' BY <1>5, <1>7 DEF NoticesInv, StoreOK
  <2>2. made' = made /\ made.channels <= made'.channels BY <1>1, <1>7
  <2> QED BY <1>5, <2>1, <2>2, EndedOK DEF NoticesInv
<1>8. CASE /\ made' = [made EXCEPT !.channels = IF c > @ THEN c ELSE @]
           /\ Rows(channels', m) /\ broadcast' \in BOOLEAN
  <2>1. made'.channels = m /\ DOMAIN made' = {"channels", "templates", "edits", "notices"}
    <3> HIDE DEF c
    <3> QED BY <1>8 DEF NoticesInv
  <2> HIDE DEF c, n, m
  <2>2. StoreOK' BY <1>5, <1>6, <1>8, <2>1 DEF NoticesInv, StoreOK
  <2> QED BY <1>5, <1>6, <2>1, <2>2, EndedOK DEF n
<1>9. Rows(held.channels, m) /\ Rows(channels, m) /\ held.broadcast \in BOOLEAN /\ broadcast \in BOOLEAN
  <2>1. Rows(held.channels, n) /\ Rows(channels, n) BY <1>2 DEF Snapshot, NoticesInv, StoreOK
  <2> HIDE DEF c, n, m, held
  <2> QED BY <1>1, <1>2, <1>6, <2>1, RowsGrow DEF Snapshot, NoticesInv, StoreOK
<1>10. CASE /\ ~FileRefuses(held.channels, c, row) /\ FileUpsert(held, c, row)
            /\ made' = [made EXCEPT !.channels = IF c > @ THEN c ELSE @]
  <2>1. channels' = With(held.channels, c, row) /\ broadcast' = held.broadcast
    BY <1>10 DEF FileUpsert
  <2>2. NamedIn(held.channels, row.name) \ {c} = {} BY <1>10 DEF FileRefuses
  <2>3. Rows(With(held.channels, c, row), m)
    <3> HIDE DEF c, n, m, held, row
    <3> QED BY <1>2, <1>6, <1>9, <2>2, WrittenOK
  <2> QED BY <1>8, <1>9, <1>10, <2>1, <2>3
<1>11. CASE /\ channels' = Replaced(channels, c, row) /\ UNCHANGED broadcast
            /\ made' = [made EXCEPT !.channels = IF c > @ THEN c ELSE @]
  <2>1. Rows(Replaced(channels, c, row), m)
    <3> HIDE DEF c, n, m, held, row
    <3> QED BY <1>2, <1>6, <1>9, ReplacedOK
  <2> QED BY <1>8, <1>9, <1>11, <2>1
<1>12. \/ UNCHANGED <<channels, broadcast, made>>
       \/ /\ ~FileRefuses(held.channels, c, row) /\ FileUpsert(held, c, row)
          /\ made' = [made EXCEPT !.channels = IF c > @ THEN c ELSE @]
       \/ /\ channels' = Replaced(channels, c, row) /\ UNCHANGED broadcast
          /\ made' = [made EXCEPT !.channels = IF c > @ THEN c ELSE @]
  BY DEF WriteChannel, SqliteUpsert, MysqlUpsert
<1> QED BY <1>7, <1>10, <1>11, <1>12

LEMMA OthersOK ==
    ASSUME NoticesInv, NEW e \in ChannelEditor,
           RemoveChannel(e) \/ WriteSettings(e) \/ WriteTemplate(e) \/ RemoveTemplate(e)
    PROVE  NoticesInv'
<1> DEFINE held == edit[e].held
           n == made.channels
<1>1. n \in 0 .. MaxChannels /\ n \in Nat /\ DOMAIN made = {"channels", "templates", "edits", "notices"}
  BY NoticesAssumption DEF NoticesAssumption, NoticesInv, StoreOK
<1>2. Rows(held.channels, n) /\ held.broadcast \in BOOLEAN /\ held.templates \subseteq TemplateId
  BY DEF NoticesInv, EditOK, Snapshot
<1>3. Rows(channels, n) /\ broadcast \in BOOLEAN /\ templates \subseteq TemplateId /\ System \in templates
  BY DEF NoticesInv, StoreOK
<1> HIDE DEF held
<1>4. CASE RemoveChannel(e)
  <2>1. EndEdit(e) /\ UNCHANGED <<storeKind, envTarget, templates, made, notice>> BY <1>4 DEF RemoveChannel
  <2>2. Rows(Without(held.channels, {edit[e].id}), n) /\ Rows(Without(channels, {edit[e].id}), n)
    BY <1>1, <1>2, <1>3, RemovedOK
  <2>3. \/ channels' = Without(held.channels, {edit[e].id}) /\ broadcast' = held.broadcast
        \/ channels' = Without(channels, {edit[e].id}) /\ broadcast' = broadcast
    BY <1>4 DEF RemoveChannel, FileDelete, SqliteDelete, MysqlDelete, held
  <2>4. Rows(channels', n) /\ broadcast' \in BOOLEAN BY <1>2, <1>3, <2>2, <2>3
  <2>5. StoreOK' BY <1>1, <1>3, <2>1, <2>4 DEF StoreOK
  <2> QED BY <1>1, <2>1, <2>5, EndedOK
<1>5. CASE WriteSettings(e)
  <2>1. EndEdit(e) /\ UNCHANGED <<storeKind, envTarget, templates, made, notice>> BY <1>5 DEF WriteSettings
  <2>2. broadcast' \in BOOLEAN /\ (channels' = held.channels \/ channels' = channels)
    BY <1>5 DEF WriteSettings, FileSettings, SqliteSettings, MysqlSettings, held
  <2>3. StoreOK' BY <1>1, <1>2, <1>3, <2>1, <2>2 DEF StoreOK
  <2> QED BY <1>1, <2>1, <2>3, EndedOK
<1>6. CASE WriteTemplate(e)
  <2>1. EndEdit(e) /\ UNCHANGED <<storeKind, envTarget, channels, broadcast, notice>> BY <1>6 DEF WriteTemplate
  <2>2. PICK t \in TemplateId :
          /\ made' = [made EXCEPT !.templates = IF t > @ THEN t ELSE @]
          /\ \/ FileTemplateSaved(held, t) \/ SqliteTemplateSaved(t) \/ MysqlTemplateSaved(t)
    BY <1>6 DEF WriteTemplate, held
  <2>3. made'.channels = n /\ DOMAIN made' = DOMAIN made BY <1>1, <2>2
  <2>4. templates' \subseteq TemplateId /\ System \in templates'
    BY <1>2, <1>3, <2>2 DEF FileTemplateSaved, SqliteTemplateSaved, MysqlTemplateSaved, Ensured, TemplateId
  <2>5. StoreOK' BY <1>1, <1>3, <2>1, <2>3, <2>4 DEF StoreOK
  <2> QED BY <1>1, <2>1, <2>3, <2>5, EndedOK
<1>7. CASE RemoveTemplate(e)
  <2>1. EndEdit(e) /\ UNCHANGED <<storeKind, envTarget, channels, broadcast, made, notice>>
    BY <1>7 DEF RemoveTemplate
  <2>2. templates' = Ensured(held.templates \ {edit[e].id}) \/ templates' = Ensured(templates \ {edit[e].id})
    BY <1>7 DEF RemoveTemplate, FileTemplateDeleted, SqliteTemplateDeleted, MysqlTemplateDeleted, held
  <2>3. templates' \subseteq TemplateId /\ System \in templates'
    BY <1>2, <1>3, <2>2 DEF Ensured, TemplateId
  <2>4. StoreOK' BY <1>1, <1>3, <2>1, <2>3 DEF StoreOK
  <2> QED BY <1>1, <2>1, <2>4, EndedOK
<1> QED BY <1>4, <1>5, <1>6, <1>7

-----------------------------------------------------------------------------
(* The dispatch of a notification.                                         *)

\* A finite set laid out in a sequence: each of its elements, and none twice.
LEMMA LaidOut ==
    ASSUME NEW S, IsFiniteSet(S)
    PROVE  /\ SetToSeq(S) \in Seq(S)
           /\ \A x \in S : \E i \in DOMAIN SetToSeq(S) : SetToSeq(S)[i] = x
           /\ \A i, j \in DOMAIN SetToSeq(S) : SetToSeq(S)[i] = SetToSeq(S)[j] => i = j
<1> DEFINE n == Cardinality(S)
           s == SetToSeq(S)
<1>1. n \in Nat /\ ExistsBijection(1 .. n, S) BY FS_CardinalityType
<1>2. PICK b \in Bijection(1 .. n, S) : TRUE BY <1>1 DEF ExistsBijection
<1>3. b \in [1 .. n -> S] /\ IsInjective(b) BY <1>2 DEF Bijection, Injection
<1>4. s \in [1 .. n -> S] /\ IsInjective(s)
  <2>1. s = CHOOSE f \in [1 .. n -> S] : IsInjective(f) BY DEF SetToSeq
  <2> HIDE DEF s, n
  <2> QED BY <1>3, <2>1
<1> HIDE DEF s
<1>5. s \in Injection(1 .. n, S) BY <1>4 DEF Injection
<1>6. IsFiniteSet(1 .. n) /\ Cardinality(1 .. n) = n
  <2> HIDE DEF n
  <2> QED BY <1>1, FS_Interval
<1>7. s \in Surjection(1 .. n, S) BY <1>5, <1>6, FS_Injection
<1> HIDE DEF n
<1>8. s \in Seq(S) /\ DOMAIN s = 1 .. n BY <1>1, <1>4
<1>9. \A x \in S : \E i \in 1 .. n : s[i] = x BY <1>7 DEF Surjection
<1>10. \A i, j \in 1 .. n : s[i] = s[j] => i = j BY <1>4, <1>8 DEF IsInjective
<1> QED BY <1>8, <1>9, <1>10 DEF s

LEMMA DispatchOK == ASSUME NoticesInv, Dispatch PROVE NoticesInv'
<1>1. PICK pc \in {"list", "env", "skipped"} : notice' = [NoNotice EXCEPT !.pc = pc] BY DEF Dispatch
<1>2. made' = [made EXCEPT !["notices"] = @ + 1]
      /\ UNCHANGED <<storeKind, envTarget, channels, broadcast, templates, edit>>
  BY DEF Dispatch, Tallied
<1>3. made'.channels = made.channels /\ DOMAIN made' = DOMAIN made BY <1>2 DEF NoticesInv
<1>4. StoreOK' BY <1>2, <1>3 DEF NoticesInv, StoreOK
<1>5. NoticeOK(notice)' BY <1>1 DEF NoticeOK, NoNotice
<1> QED BY <1>2, <1>3, <1>4, <1>5 DEF NoticesInv

\* Only the notification moves.
LEMMA NoticeMoves ==
    ASSUME NoticesInv, NoticeOK(notice'),
           UNCHANGED <<storeKind, envTarget, channels, broadcast, templates, made, edit>>
    PROVE  NoticesInv'
BY DEF NoticesInv, StoreOK

LEMMA ListTargetsOK == ASSUME NoticesInv, ListTargets PROVE NoticesInv'
<1>1. notice.pc = "list" /\ UNCHANGED <<storeKind, envTarget, channels, broadcast, templates, made, edit>>
  BY DEF ListTargets
<1>2. NoticeOK(notice) BY DEF NoticesInv
<1>3. CASE Now("skipped")
  <2>1. NoticeOK(notice') BY <1>1, <1>2, <1>3 DEF Now, NoticeOK
  <2> QED BY <1>1, <2>1, NoticeMoves
<1>4. CASE ~Now("skipped")
  <2> DEFINE S == {<<c, channels[c].template>> : c \in Enabled(channels)}
             todo == SetToSeq(S)
  <2>1. notice' = [notice EXCEPT !.pc = "send", !.todo = todo, !.listed = Enabled(channels)]
    BY <1>4 DEF ListTargets
  <2>2. made.channels \in Nat /\ MaxChannels \in Nat /\ made.channels <= MaxChannels
    BY NoticesAssumption DEF NoticesAssumption, NoticesInv, StoreOK
  <2>3. Enabled(channels) \subseteq ChannelId /\ \A c \in Enabled(channels) : channels[c].template \in TemplateId
    <3>1. Rows(channels, made.channels) BY DEF NoticesInv, StoreOK
    <3>2. ASSUME NEW c \in Enabled(channels) PROVE c \in ChannelId /\ channels[c].template \in TemplateId
      <4>1. c \in 1 .. made.channels /\ channels[c] \in ChannelRow BY <3>1 DEF Enabled, Rows
      <4> QED BY <2>2, <4>1 DEF ChannelId, ChannelRow
    <3> QED BY <3>2
  <2>4. S \subseteq ChannelId \X TemplateId BY <2>3
  <2>5. IsFiniteSet(S)
    <3>1. IsFiniteSet(ChannelId) BY <2>2, FS_Interval DEF ChannelId
    <3>2. IsFiniteSet(Enabled(channels)) BY <2>3, <3>1, FS_Subset
    <3> DEFINE target == [c \in Enabled(channels) |-> <<c, channels[c].template>>]
    <3>3. target \in Surjection(Enabled(channels), S) BY DEF Surjection
    <3> HIDE DEF target, S
    <3> QED BY <3>2, <3>3, FS_Surjection
  <2>6. /\ todo \in Seq(S)
        /\ \A x \in S : \E i \in DOMAIN todo : todo[i] = x
        /\ \A i, j \in DOMAIN todo : todo[i] = todo[j] => i = j
    <3> HIDE DEF S
    <3> QED BY <2>5, LaidOut
  <2> HIDE DEF todo
  <2>7. todo \in Seq(ChannelId \X TemplateId)
    <3> HIDE DEF S
    <3> QED BY <2>4, <2>6
  <2>8. \A i \in DOMAIN todo : todo[i] \in S
    <3> HIDE DEF S
    <3> QED BY <2>6
  <2>9. \A i \in DOMAIN todo : todo[i][1] \in Enabled(channels)
                               /\ todo[i] = <<todo[i][1], channels[todo[i][1]].template>>
    BY <2>8
  <2>10. \A c \in Enabled(channels) : \E i \in DOMAIN todo : todo[i][1] = c
    <3> SUFFICES ASSUME NEW c \in Enabled(channels) PROVE \E i \in DOMAIN todo : todo[i][1] = c
      OBVIOUS
    <3>1. <<c, channels[c].template>> \in S OBVIOUS
    <3>2. PICK i \in DOMAIN todo : todo[i] = <<c, channels[c].template>> BY <2>6, <3>1
    <3> QED BY <3>2
  <2>11. Queued(todo, {}, Enabled(channels))
    <3>1. \A i, j \in DOMAIN todo : todo[i][1] = todo[j][1] => i = j BY <2>6, <2>9
    <3> HIDE DEF S
    <3> QED BY <2>7, <2>9, <2>10, <3>1 DEF Queued
  <2>12. /\ notice'.pc = "send" /\ notice'.todo = todo /\ notice'.listed = Enabled(channels)
         /\ notice'.sent = {} /\ notice'.failed = {} /\ notice'.used = notice.used
         /\ DOMAIN notice' = DOMAIN notice
    <3> HIDE DEF S
    <3> QED BY <1>1, <1>2, <2>1 DEF NoticeOK
  <2>13. NoticeOK(notice')
    <3>1. notice'.sent \cup notice'.failed = {} BY <2>12
    <3> HIDE DEF S
    <3> QED BY <1>2, <2>11, <2>12, <3>1 DEF NoticeOK
  <2> QED BY <1>1, <2>13, NoticeMoves
<1> QED BY <1>3, <1>4

\* One message sent or failed: its channel is tried, and the others wait as before.
LEMMA OneTried ==
    ASSUME NEW todo, NEW tried, NEW listed, Queued(todo, tried, listed), todo # <<>>
    PROVE  /\ Queued(Tail(todo), tried \cup {Head(todo)[1]}, listed)
           /\ Head(todo)[1] \in listed \ tried
<1> DEFINE rest == Tail(todo)
           n == Len(todo)
<1>1. todo \in Seq(ChannelId \X TemplateId) BY DEF Queued
<1>2. n \in Nat \ {0} /\ DOMAIN todo = 1 .. n /\ Head(todo) = todo[1] BY <1>1
<1>3. rest \in Seq(ChannelId \X TemplateId) /\ DOMAIN rest = 1 .. n - 1
      /\ \A i \in 1 .. n - 1 : rest[i] = todo[i + 1]
  BY <1>1
<1> HIDE DEF rest, n
<1>4. 1 \in DOMAIN todo /\ \A i \in 1 .. n - 1 : i + 1 \in DOMAIN todo BY <1>2
<1>5. ASSUME NEW c \in listed, c \notin tried \cup {todo[1][1]}
      PROVE  \E i \in DOMAIN rest : rest[i][1] = c
  <2>1. PICK i \in 1 .. n : todo[i][1] = c BY <1>2, <1>5 DEF Queued
  <2>2. i # 1 BY <1>5, <2>1
  <2>3. i - 1 \in 1 .. n - 1 /\ (i - 1) + 1 = i BY <1>2, <2>2
  <2>4. rest[i - 1] = todo[i] BY <1>3, <2>3
  <2> QED BY <1>3, <2>1, <2>3, <2>4
<1>6. ASSUME NEW i \in DOMAIN rest
      PROVE  rest[i][1] \in listed /\ rest[i][1] \notin tried \cup {todo[1][1]}
  <2>1. i \in 1 .. n - 1 /\ rest[i] = todo[i + 1] /\ i + 1 # 1 BY <1>2, <1>3
  <2> QED BY <1>4, <2>1 DEF Queued
<1>7. ASSUME NEW i \in DOMAIN rest, NEW j \in DOMAIN rest, rest[i][1] = rest[j][1] PROVE i = j
  <2>1. i \in 1 .. n - 1 /\ j \in 1 .. n - 1 /\ rest[i] = todo[i + 1] /\ rest[j] = todo[j + 1]
    BY <1>3
  <2>2. i + 1 = j + 1 BY <1>4, <1>7, <2>1 DEF Queued
  <2> QED BY <1>2, <2>1, <2>2
<1>8. Queued(rest, tried \cup {todo[1][1]}, listed) BY <1>3, <1>5, <1>6, <1>7 DEF Queued
<1>9. todo[1][1] \in listed \ tried BY <1>4 DEF Queued
<1> QED BY <1>2, <1>8, <1>9 DEF rest

LEMMA SendOK == ASSUME NoticesInv, NEW r \in EndpointReply, Send(r) PROVE NoticesInv'
<1> DEFINE c == Head(notice.todo)[1]
           t == ResolvedTemplate(Head(notice.todo)[2])
<1>1. /\ notice.pc = "send" /\ notice.todo # <<>>
      /\ UNCHANGED <<storeKind, envTarget, channels, broadcast, templates, made, edit>>
  BY DEF Send
<1>2. PICK accepted \in Accepts(r) : notice' = [notice EXCEPT
              !.todo = Tail(@), !.used = @ \cup {t},
              !.sent = IF accepted THEN @ \cup {c} ELSE @,
              !.failed = IF accepted THEN @ ELSE @ \cup {c}]
  BY DEF Send
<1>3. NoticeOK(notice) BY DEF NoticesInv
<1>4. Queued(notice.todo, notice.sent \cup notice.failed, notice.listed) BY <1>1, <1>3 DEF NoticeOK
<1>5. /\ Queued(Tail(notice.todo), (notice.sent \cup notice.failed) \cup {c}, notice.listed)
      /\ c \in notice.listed \ (notice.sent \cup notice.failed)
  <2> DEFINE todo == notice.todo
             tried == notice.sent \cup notice.failed
             listed == notice.listed
  <2>1. Queued(todo, tried, listed) /\ todo # <<>> BY <1>1, <1>4
  <2> HIDE DEF todo, tried, listed
  <2>2. Queued(Tail(todo), tried \cup {Head(todo)[1]}, listed) /\ Head(todo)[1] \in listed \ tried
    BY <2>1, OneTried
  <2> QED BY <2>2 DEF todo, tried, listed
<1>6. t \in TemplateId
  <2>1. Head(notice.todo) \in ChannelId \X TemplateId BY <1>1, <1>4 DEF Queued
  <2>2. Head(notice.todo)[2] \in TemplateId BY <2>1
  <2> QED BY <2>2 DEF ResolvedTemplate, TemplateId
<1> HIDE DEF c, t
<1>7. /\ DOMAIN notice' = DOMAIN notice /\ notice'.pc = "send" /\ notice'.listed = notice.listed
      /\ notice'.todo = Tail(notice.todo) /\ notice'.used = notice.used \cup {t}
  BY <1>1, <1>2, <1>3 DEF NoticeOK
<1>8. \/ notice'.sent = notice.sent \cup {c} /\ notice'.failed = notice.failed
      \/ notice'.sent = notice.sent /\ notice'.failed = notice.failed \cup {c}
  BY <1>2, <1>3 DEF NoticeOK
<1>9. notice'.sent \cup notice'.failed = (notice.sent \cup notice.failed) \cup {c} BY <1>8
<1>10. notice'.sent \cap notice'.failed = {} BY <1>1, <1>3, <1>5, <1>8 DEF NoticeOK
<1>11. notice'.sent \subseteq notice.listed /\ notice'.failed \subseteq notice.listed
  BY <1>3, <1>5, <1>8 DEF NoticeOK
<1>12. notice'.used \subseteq TemplateId BY <1>3, <1>6, <1>7 DEF NoticeOK
<1>13. NoticeOK(notice')
  BY <1>3, <1>5, <1>7, <1>9, <1>10, <1>11, <1>12 DEF NoticeOK
<1> QED BY <1>1, <1>13, NoticeMoves

LEMMA OverOK == ASSUME NoticesInv, SendRaises \/ Finish PROVE NoticesInv'
<1>1. /\ notice.pc = "send"
      /\ UNCHANGED <<storeKind, envTarget, channels, broadcast, templates, made, edit>>
  BY DEF SendRaises, Finish
<1>2. NoticeOK(notice) BY DEF NoticesInv
<1>3. PICK pc \in {"raised", "done"} :
         notice' = [notice EXCEPT !.pc = pc] /\ (pc = "done" => notice.todo = <<>>)
  BY DEF SendRaises, Finish, Now
<1>4. pc = "done" => notice.sent \cup notice.failed = notice.listed
  <2>1. Queued(notice.todo, notice.sent \cup notice.failed, notice.listed) BY <1>1, <1>2 DEF NoticeOK
  <2>2. ASSUME notice.todo = <<>> PROVE notice.listed \subseteq notice.sent \cup notice.failed
    <3>1. DOMAIN notice.todo = {} BY <2>2
    <3> QED BY <2>1, <3>1 DEF Queued
  <2> QED BY <1>2, <1>3, <2>2 DEF NoticeOK
<1>5. NoticeOK(notice') BY <1>1, <1>2, <1>3, <1>4 DEF NoticeOK
<1> QED BY <1>1, <1>5, NoticeMoves

LEMMA NoticesStep == NoticesInv /\ [NoticesNext]_noticeVars => NoticesInv'
<1> SUFFICES ASSUME NoticesInv, [NoticesNext]_noticeVars PROVE NoticesInv'
  OBVIOUS
<1>1. ASSUME NEW e \in ChannelEditor,
             \/ CreateChannel(e) \/ UpdateChannel(e) \/ PatchChannel(e) \/ DeleteChannel(e)
             \/ UpdateBroadcast(e) \/ CreateTemplate(e) \/ UpdateTemplate(e) \/ DeleteTemplate(e)
      PROVE  NoticesInv'
  BY <1>1, ChannelRequestsOK
<1>2. ASSUME NEW e \in ChannelEditor, LoadStore(e) PROVE NoticesInv' BY <1>2, LoadStoreOK
<1>3. ASSUME NEW e \in ChannelEditor, WriteChannel(e) PROVE NoticesInv' BY <1>3, WriteChannelOK
<1>4. ASSUME NEW e \in ChannelEditor,
             RemoveChannel(e) \/ WriteSettings(e) \/ WriteTemplate(e) \/ RemoveTemplate(e)
      PROVE  NoticesInv'
  BY <1>4, OthersOK
<1>5. CASE Dispatch BY <1>5, DispatchOK
<1>6. CASE ListTargets BY <1>6, ListTargetsOK
<1>7. ASSUME NEW r \in EndpointReply, Send(r) PROVE NoticesInv' BY <1>7, SendOK
<1>8. CASE SendRaises \/ Finish BY <1>8, OverOK
<1>9. CASE UNCHANGED noticeVars BY <1>9 DEF noticeVars, NoticesInv, StoreOK
<1> QED BY <1>1, <1>2, <1>3, <1>4, <1>5, <1>6, <1>7, <1>8, <1>9 DEF NoticesNext

LEMMA NoticesInvariance == NoticesSpec => []NoticesInv
<1> QED BY NoticesInitOK, NoticesStep, PTL DEF NoticesSpec

\* However the requests of the Admin overlap, no two channels share a name, in the file as in the
\* databases, and a notification that ends without an error has tried each channel that was
\* enabled when they were listed, and none twice (notification_channels.py:173).
THEOREM ChannelsAreServed == NoticesSpec => []ChannelsServed
BY NoticesInvariance, NoticesServe, PTL

-----------------------------------------------------------------------------
(* The parts side by side.                                                 *)

\* The counters of the document and of the discovery, which their invariants say nothing of.
DocumentCounts == file \in {"whole", "empty", "mangled"} /\ served \in 0 .. MaxHandlers
DiscoveryCounts == scheduled \in 0 .. MaxJobs

LEMMA DocumentCounting == DocumentSpec => []DocumentCounts
<1>1. DocumentInit => DocumentCounts
  BY AdminDocumentAssumption DEF AdminDocumentAssumption, DocumentInit, DocumentCounts
<1>2. ASSUME DocumentCounts, [DocumentNext]_documentVars PROVE DocumentCounts'
  <2>1. ASSUME NEW w \in Worker, NEW ops, Serve(w, ops) PROVE DocumentCounts'
    BY <2>1, <1>2, AdminDocumentAssumption DEF AdminDocumentAssumption, Serve, DocumentCounts
  <2>2. ASSUME NEW w \in Worker, Request(w) PROVE DocumentCounts'
    <3>1. \E ops : Serve(w, ops)
      <4>1. CASE RegisterRepo(w) \/ SyncRepo(w) \/ ImportLocalRepo(w) \/ UnregisterRepo(w)
        BY <4>1 DEF RegisterRepo, SyncRepo, ImportLocalRepo, UnregisterRepo
      <4>2. CASE UpsertRemote(w) \/ DeleteRemote(w) \/ UpsertCatalog(w) \/ DeleteCatalog(w)
        BY <4>2 DEF UpsertRemote, DeleteRemote, UpsertCatalog, DeleteCatalog
      <4>3. CASE UpdateSettings(w) \/ UpsertVariable(w) \/ DeleteVariable(w)
        BY <4>3 DEF UpdateSettings, UpsertVariable, DeleteVariable
      <4>4. CASE UpsertProvider(w) \/ SetDefaultProvider(w) \/ DeleteProvider(w) \/ TestProvider(w)
        BY <4>4 DEF UpsertProvider, SetDefaultProvider, DeleteProvider, TestProvider
      <4>5. CASE CreateJob(w) \/ UpdateJob(w) \/ DeleteJob(w)
        BY <4>5 DEF CreateJob, UpdateJob, DeleteJob
      <4> QED
        BY <2>2, <4>1, <4>2, <4>3, <4>4, <4>5 DEF Request
    <3> QED
      BY <3>1, <2>1
  <2>3. ASSUME NEW w \in Worker, Load(w) \/ OpenSeed(w) \/ Open(w) \/ Write(w) PROVE DocumentCounts'
    <3>1. served' = served /\ file' \in {file, "whole", "empty", "mangled"}
      BY <2>3 DEF Load, OpenSeed, Open, Write
    <3> QED
      BY <3>1, <1>2 DEF DocumentCounts
  <2>4. CASE Stop \/ UNCHANGED documentVars
    BY <2>4, <1>2 DEF Stop, documentVars, DocumentCounts
  <2> QED
    BY <1>2, <2>2, <2>3, <2>4 DEF DocumentNext
<1> QED
  BY <1>1, <1>2, PTL DEF DocumentSpec

LEMMA DocumentTyping == DocumentSpec => []DocumentTypeOK
<1>1. DocumentInv /\ [DocumentNext]_documentVars => DocumentInv'
  BY DocumentStep
<1>2. DocumentInv /\ DocumentCounts => DocumentTypeOK
  BY DEF DocumentInv, DocumentCounts, DocumentTypeOK, Kept, FrameOK, WorkerFrame
<1> QED
  BY <1>1, <1>2, DocumentInitOK, DocumentCounting, PTL DEF DocumentSpec

LEMMA DiscoveryCounting == ASSUME McpDiscoveryAssumption PROVE DiscoverySpec => []DiscoveryCounts
<1>1. DiscoveryInit => DiscoveryCounts
  BY DEF McpDiscoveryAssumption, DiscoveryInit, DiscoveryCounts
<1>2. ASSUME DiscoveryCounts, [DiscoveryNext]_discoveryVars PROVE DiscoveryCounts'
  <2>1. ASSUME NEW s, Schedule(s) PROVE DiscoveryCounts'
    BY <2>1, <1>2 DEF McpDiscoveryAssumption, Schedule, DiscoveryCounts
  <2>2. ASSUME UNCHANGED scheduled PROVE DiscoveryCounts'
    BY <2>2, <1>2 DEF DiscoveryCounts
  <2>3. ASSUME NEW e \in Editor, CreateServer(e) \/ ReadServer(e) \/ EditCommand(e) PROVE DiscoveryCounts'
    BY <2>1, <2>2, <2>3 DEF CreateServer, ReadServer, EditCommand
  <2>4. ASSUME NEW e \in Editor, Rename(e) \/ SyncTools(e) \/ DeleteServer(e) PROVE DiscoveryCounts'
    BY <2>1, <2>2, <2>4 DEF Rename, SyncTools, DeleteServer
  <2>5. ASSUME NEW t \in PoolThread, StartJob(t) \/ MarkDiscovering(t) \/ SaveDiscovery(t)
        PROVE  DiscoveryCounts'
    BY <2>2, <2>5 DEF StartJob, MarkDiscovering, SaveDiscovery
  <2>6. CASE DiscoveryRestart \/ UNCHANGED discoveryVars
    BY <2>2, <2>6 DEF DiscoveryRestart, discoveryVars
  <2> QED
    BY <1>2, <2>3, <2>4, <2>5, <2>6 DEF DiscoveryNext
<1> QED
  BY <1>1, <1>2, PTL DEF DiscoverySpec

LEMMA DiscoveryTyping == DiscoverySpec => []DiscoveryTypeOK
<1>1. DiscoveryInv /\ DiscoveryCounts => DiscoveryTypeOK
  BY DEF DiscoveryInv, DiscoveryRows, DiscoveryCounts, DiscoveryTypeOK, PoolFrame, EditorFrame
<1> QED
  BY <1>1, DiscoveryInitOK, DiscoveryStep, DiscoveryCounting, McpDiscoveryAssumption, PTL
     DEF DiscoverySpec

\* A step of the Admin is a step of each part or leaves it alone.
LEMMA AdminStepsOfParts ==
    ASSUME [MCNext]_MCAdminVars
    PROVE  /\ [DocumentNext]_documentVars /\ [AccessNext]_accessVars /\ [DiscoveryNext]_discoveryVars
           /\ [PlaybooksNext]_playbookVars /\ [NoticesNext]_noticeVars /\ [ChatNext]_chatVars
<1> USE DEF documents, others
<1>1. CASE MovesDocument
  BY <1>1 DEF MovesDocument
<1>2. CASE MovesAccess
  BY <1>2 DEF MovesAccess
<1>3. CASE MovesDiscovery
  BY <1>3 DEF MovesDiscovery
<1>4. CASE MovesPlaybooks
  BY <1>4 DEF MovesPlaybooks
<1>5. CASE MovesNotices
  BY <1>5 DEF MovesNotices
<1>6. CASE MovesChat
  BY <1>6 DEF MovesChat
<1>7. CASE UNCHANGED MCAdminVars
  BY <1>7 DEF MCAdminVars
<1> QED
  BY <1>1, <1>2, <1>3, <1>4, <1>5, <1>6, <1>7 DEF MCNext

\* The Admin as it is checked implements the specification of each of its parts: what is
\* proved of a part alone holds of the whole.
THEOREM AdminIsItsParts ==
    MCSpec => /\ DocumentSpec /\ AccessSpec /\ DiscoverySpec
              /\ PlaybooksSpec /\ NoticesSpec /\ ChatSpec
<1>1. MCInit => /\ DocumentInit /\ AccessInit /\ DiscoveryInit
                /\ PlaybooksInit /\ NoticesInit /\ ChatInit
  BY DEF MCInit
<1> QED
  BY <1>1, AdminStepsOfParts, PTL
     DEF MCSpec, DocumentSpec, AccessSpec, DiscoverySpec, PlaybooksSpec, NoticesSpec, ChatSpec

\* Whatever the size of the Admin: the users and their sessions, the document and who writes it,
\* the servers, the playbooks, the channels and the history keep the types of their models.
THEOREM AdminIsTyped == MCSpec => []TypeOK
<1>1. PlaybooksInv => PlaybooksTypeOK
  BY DEF PlaybooksInv
<1>2. ChatInv => ChatTypeOK
  BY DEF ChatInv
<1> QED
  BY <1>1, <1>2, AdminIsItsParts, DocumentTyping, AccessTyping, DiscoveryTyping,
     PlaybooksInvariance, NoticesInvariance, NoticesServe, ChatInvariance, PTL DEF TypeOK
=============================================================================
