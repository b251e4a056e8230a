---------------------------- MODULE AdminAccess ----------------------------
(***************************************************************************)
(* Users and sessions of the Admin: the stores of users and of sessions,   *)
(* the middleware that admits a request, and the handlers that change them. *)
(* Each access to a store is atomic; a request makes several.              *)
(***************************************************************************)
EXTENDS Integers, FiniteSets

CONSTANTS
    Browser,      \* clients, each with one cookie and at most one request under way
    UserName, Password,
    MaxUsers,     \* users ever created: each gets an id of its own
    MaxSessions   \* sessions ever created

Nobody == 0
NoSession == 0
UserId == 1 .. MaxUsers
SessionId == 1 .. MaxSessions

AdminAccessAssumption == MaxUsers \in Nat /\ MaxSessions \in Nat

ASSUME AdminAccessAssumption

VARIABLES
    users,     \* rows of the user store: id -> name and password
    userCount, \* users ever created
    sessions,  \* SessionStore: session -> the id of its user
    opened,    \* sessions ever created
    cookie,    \* session named by each browser's cookie
    request,   \* what the request of each browser is doing
    invited,   \* users created by somebody who was logged in
    deleted    \* users deleted so far

accessVars == <<users, userCount, sessions, opened, cookie, request, invited, deleted>>

-----------------------------------------------------------------------------
Known == DOMAIN users
Named(n) == {u \in Known : users[u].name = n}
Extended(f, x, y) == [z \in DOMAIN f \cup {x} |-> IF z = x THEN y ELSE f[z]]
Dropped(f, gone) == [z \in DOMAIN f \ gone |-> f[z]]

\* gone: the users that were already deleted when the request came in.
Quiet == [pc |-> "none", user |-> Nobody, subject |-> Nobody, gone |-> {}]
Reply(b) == request' = [request EXCEPT ![b] = Quiet]
Proceed(b, pc, subject) ==
    request' = [request EXCEPT ![b] = [@ EXCEPT !.pc = pc, !.subject = subject]]

\* Faulty: the number of ids handed out is not advanced.
Created_Uncounted(u, n, p) ==
    users' = Extended(users, u, [name |-> n, password |-> p]) /\ UNCHANGED userCount

\* user_store.create: names are unique.
Created(u, n, p) == users' = Extended(users, u, [name |-> n, password |-> p]) /\ userCount' = u

\* SessionStore.create, and the cookie of the reply.
OpenSession(b, u) ==
    /\ opened < MaxSessions
    /\ opened' = opened + 1
    /\ sessions' = Extended(sessions, opened + 1, u)
    /\ cookie' = [cookie EXCEPT ![b] = opened + 1]

CloseSessions(gone) == sessions' = Dropped(sessions, gone)

-----------------------------------------------------------------------------
(* Requests anybody may make. *)

\* Faulty: whether there are users is asked first, and the user created without looking again.
Founded_Checked(b) == request[b].pc = "found"

\* create_first inserts only where there is no user, in one statement.
Founded(b) == request[b].pc = "found" /\ Known = {}

BeginBootstrap(b) ==
    /\ request[b].pc = "none"
    /\ request' = [request EXCEPT ![b] = [Quiet EXCEPT !.pc = "found", !.gone = deleted]]
    /\ UNCHANGED <<users, userCount, sessions, opened, cookie, invited, deleted>>

Bootstrap(b) ==
    /\ Founded(b) /\ userCount < MaxUsers
    /\ \E n \in UserName, p \in Password :
          Named(n) = {} /\ Created(userCount + 1, n, p)
    /\ Proceed(b, "open", userCount + 1)
    /\ UNCHANGED <<sessions, opened, cookie, invited, deleted>>

BootstrapRefused(b) ==
    /\ request[b].pc = "found" /\ Known # {}
    /\ Reply(b)
    /\ UNCHANGED <<users, userCount, sessions, opened, cookie, invited, deleted>>

\* The user is read and the password verified; the session is created after that.
Login(b) ==
    /\ request[b].pc = "none"
    /\ \E n \in UserName, p \in Password : \E u \in Named(n) :
          /\ users[u].password = p
          /\ request' = [request EXCEPT ![b] =
                [Quiet EXCEPT !.pc = "open", !.subject = u, !.gone = deleted]]
    /\ UNCHANGED <<users, userCount, sessions, opened, cookie, invited, deleted>>

LoggedIn(b) ==
    /\ request[b].pc = "open"
    /\ OpenSession(b, request[b].subject)
    /\ Reply(b)
    /\ UNCHANGED <<users, userCount, invited, deleted>>

Logout(b) ==
    /\ request[b].pc = "none" /\ cookie[b] # NoSession
    /\ CloseSessions({cookie[b]})
    /\ cookie' = [cookie EXCEPT ![b] = NoSession]
    /\ UNCHANGED <<users, userCount, opened, request, invited, deleted>>

Expire ==
    /\ \E s \in DOMAIN sessions : CloseSessions({s})
    /\ UNCHANGED <<users, userCount, opened, cookie, request, invited, deleted>>

-----------------------------------------------------------------------------
(* Requests that need a session: the middleware, then the handler. *)

\* The session of the cookie is looked up first ...
Arrive(b) ==
    /\ request[b].pc = "none" /\ cookie[b] \in DOMAIN sessions
    /\ request' = [request EXCEPT ![b] =
          [Quiet EXCEPT !.pc = "check", !.user = sessions[cookie[b]], !.gone = deleted]]
    /\ UNCHANGED <<users, userCount, sessions, opened, cookie, invited, deleted>>

\* ... then its user: a session without one is deleted, and the request refused.
Admit(b) ==
    /\ request[b].pc = "check"
    /\ \/ /\ request[b].user \in Known
          /\ Proceed(b, "admitted", Nobody) /\ UNCHANGED sessions
       \/ /\ request[b].user \notin Known
          /\ CloseSessions({cookie[b]}) /\ Reply(b)
    /\ UNCHANGED <<users, userCount, opened, cookie, invited, deleted>>

Admitted(b) == request[b].pc = "admitted"

CreateUser(b) ==
    /\ Admitted(b)
    /\ \/ /\ userCount < MaxUsers
          /\ \E n \in UserName, p \in Password :
                Named(n) = {} /\ Created(userCount + 1, n, p)
          /\ invited' = invited \cup {userCount + 1}
       \/ UNCHANGED <<users, userCount, invited>>
    /\ Reply(b)
    /\ UNCHANGED <<sessions, opened, cookie, deleted>>

\* Any user may be deleted, the one who asks and the last one too.
DeleteUser(b) ==
    /\ Admitted(b)
    /\ \E u \in Known :
          /\ users' = Dropped(users, {u})
          /\ deleted' = deleted \cup {u}
          /\ Proceed(b, "forget", u)
    /\ UNCHANGED <<userCount, sessions, opened, cookie, invited>>

ForgetSessions(b) ==
    /\ request[b].pc = "forget"
    /\ CloseSessions({s \in DOMAIN sessions : sessions[s] = request[b].subject})
    /\ Reply(b)
    /\ UNCHANGED <<users, userCount, opened, cookie, invited, deleted>>

ReadPassword(b) ==
    /\ Admitted(b) /\ request[b].user \in Known
    /\ Proceed(b, "change", request[b].user)
    /\ UNCHANGED <<users, userCount, sessions, opened, cookie, invited, deleted>>

\* The row may have been deleted meanwhile: then nothing is updated.
ChangePassword(b) ==
    /\ request[b].pc = "change"
    /\ \E p \in Password :
          users' = [u \in Known |-> IF u = request[b].subject
                                    THEN [users[u] EXCEPT !.password = p] ELSE users[u]]
    /\ Reply(b)
    /\ UNCHANGED <<userCount, sessions, opened, cookie, invited, deleted>>

\* The Admin stops: sessions are in memory, users are not.
AdminStops ==
    /\ opened > 0
    /\ sessions' = <<>>
    /\ request' = [b \in Browser |-> Quiet]
    /\ UNCHANGED <<users, userCount, opened, cookie, invited, deleted>>

-----------------------------------------------------------------------------
AccessInit ==
    /\ users = <<>> /\ userCount = 0
    /\ sessions = <<>> /\ opened = 0
    /\ cookie = [b \in Browser |-> NoSession]
    /\ request = [b \in Browser |-> Quiet]
    /\ invited = {} /\ deleted = {}

AccessNext ==
    \/ \E b \in Browser :
          \/ BeginBootstrap(b) \/ Bootstrap(b) \/ BootstrapRefused(b)
          \/ Login(b) \/ LoggedIn(b) \/ Logout(b) \/ Arrive(b) \/ Admit(b)
          \/ CreateUser(b) \/ DeleteUser(b) \/ ForgetSessions(b)
          \/ ReadPassword(b) \/ ChangePassword(b)
    \/ Expire \/ AdminStops

AccessSpec == AccessInit /\ [][AccessNext]_accessVars

-----------------------------------------------------------------------------
\* Users, sessions and requests have their types.
AccessTypeOK ==
    /\ Known \subseteq 1 .. userCount /\ userCount \in 0 .. MaxUsers
    /\ \A u \in Known : users[u] \in [name : UserName, password : Password]
    /\ DOMAIN sessions \subseteq 1 .. opened /\ opened \in 0 .. MaxSessions
    /\ \A s \in DOMAIN sessions : sessions[s] \in UserId
    /\ cookie \in [Browser -> {NoSession} \cup SessionId]
    /\ request \in [Browser -> [pc : {"none", "found", "open", "check", "admitted", "forget", "change"},
                                user : {Nobody} \cup UserId, subject : {Nobody} \cup UserId,
                                gone : SUBSET UserId]]
    /\ invited \subseteq UserId /\ deleted \subseteq UserId

\* Whoever was deleted before a request came in does not get it served, though a login that
\* was under way may have opened a session after the deletion (auth_middleware.py:35).
DeletedUserRefused ==
    \A b \in Browser : request[b].pc \in {"admitted", "forget", "change"} =>
        request[b].user \notin request[b].gone

\* However many requests bootstrap at once, at most one user is there whom nobody who was
\* logged in has created (user_store.py:114, create_first).
SoleFounder == \A u, v \in Known \ invited : u = v

\* Who is served is a user whom somebody entitled made and nobody has deleted.
AccessGuarded == DeletedUserRefused /\ SoleFounder
=============================================================================
