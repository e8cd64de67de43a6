----------------------------- MODULE AuthService -----------------------------
(***************************************************************************)
(* The auth service: registration, login, refresh, logout and validation   *)
(* as concurrent requests on the users and user_roles tables, the map of   *)
(* refresh sessions and the map of revoked access tokens (one mutex for    *)
(* both maps).  A user is its e-mail address (UNIQUE in the database); an  *)
(* access token is its user and the second it was issued in, which with    *)
(* the roles is all it is signed from, and every user has the one role     *)
(* "user", by its row or by the fallback of GetRolesByUserID; a refresh    *)
(* token is random and never minted twice.  Passwords are left out: a      *)
(* wrong one changes nothing.                                              *)
(***************************************************************************)
EXTENDS Naturals, FiniteSets

CONSTANTS
    Clients,      \* whoever has one request outstanding
    Emails,
    NoEmail,      \* the field of a request that has none
    AccessTTL,    \* seconds an access token lives
    RefreshTTL,   \* seconds a refresh session lives
    MaxTime,      \* bound on the clock
    MaxRequests,  \* bound on requests
    MaxRestarts   \* bound on restarts of the process

ASSUME NoEmailAssumption == NoEmail \notin Emails
ASSUME BoundsAssumption ==
    MaxTime \in Nat /\ MaxRequests \in Nat /\ MaxRestarts \in Nat
ASSUME TTLAssumption == AccessTTL \in Nat \ {0} /\ RefreshTTL \in Nat \ {0}

VARIABLES
    now,        \* the clock, in seconds
    users,      \* table users
    roles,      \* table user_roles: the users that have their row
    issued,     \* access tokens handed out
    minted,     \* refresh tokens minted
    sessions,   \* refreshSessions: token -> [email, login, expiresAt, revoked]
    revoked,    \* revokedAccessJWT: access token -> its expiry
    request,    \* client -> its request
    started,    \* requests received
    restarts,
    loggedOut   \* access tokens whose logout was answered by this process

tables == <<users, roles>>
memory == <<issued, minted, sessions, revoked, loggedOut>>
vars == <<now, tables, memory, request, started, restarts>>

NoToken == [email |-> NoEmail, iat |-> 0]
Idle == [pc |-> "idle", email |-> NoEmail, login |-> 0, at |-> 0,
         access |-> NoToken, late |-> FALSE]
Expiry(access) == access.iat + AccessTTL

Init ==
    /\ now = 0
    /\ users = {} /\ roles = {}
    /\ issued = {} /\ minted = 0
    /\ sessions = [t \in {} |-> Idle]
    /\ revoked = [a \in {} |-> 0]
    /\ request = [c \in Clients |-> Idle]
    /\ started = 0 /\ restarts = 0
    /\ loggedOut = {}

Tick ==
    /\ now < MaxTime
    /\ now' = now + 1
    /\ UNCHANGED <<tables, memory, request, started, restarts>>

Begin(c) ==
    /\ request[c].pc \in {"idle", "accepted"}
    /\ started < MaxRequests
    /\ started' = started + 1
    /\ UNCHANGED <<now, restarts>>

Continue(c, pc) ==
    /\ request[c].pc = pc
    /\ UNCHANGED <<now, started, restarts>>

GoTo(c, pc) == request' = [request EXCEPT ![c].pc = pc]
Answer(c) == request' = [request EXCEPT ![c] = Idle]
Open(c, r) == request' = [request EXCEPT ![c] = r]

-----------------------------------------------------------------------------
(* Register and Login.                                                     *)

\* Any error of the lookup, "not found" or not, lets the registration go on.
Register(c, e) ==
    /\ Begin(c)
    /\ \/ Open(c, [Idle EXCEPT !.pc = "create", !.email = e])
       \/ e \in users /\ Answer(c)
    /\ UNCHANGED <<tables, memory>>

CreateUser(c) ==
    LET e == request[c].email IN
    /\ Continue(c, "create")
    /\ e \notin users
    /\ users' = users \cup {e}
    /\ GoTo(c, "assign")
    /\ UNCHANGED <<roles, memory>>

AssignRoleByName(c) ==
    /\ Continue(c, "assign")
    /\ roles' = roles \cup {request[c].email}
    /\ GoTo(c, "roles")
    /\ UNCHANGED <<users, memory>>

Login(c, e) ==
    /\ Begin(c)
    /\ e \in users
    /\ Open(c, [Idle EXCEPT !.pc = "roles", !.email = e])
    /\ UNCHANGED <<tables, memory>>

GetRolesByUserID(c) ==
    /\ Continue(c, "roles")
    /\ GoTo(c, "sign")
    /\ UNCHANGED <<tables, memory>>

\* A statement of a registration or of a login fails: what was written stays.
StatementFails(c) ==
    /\ \E pc \in {"create", "assign", "roles"} : Continue(c, pc)
    /\ Answer(c)
    /\ UNCHANGED <<tables, memory>>

-----------------------------------------------------------------------------
(* newTokenPair: the clock is read and the access token signed before the  *)
(* session is stored under the mutex.                                      *)

Sign(c) ==
    /\ Continue(c, "sign")
    /\ request' = [request EXCEPT ![c].pc = "store", ![c].at = now]
    /\ UNCHANGED <<tables, memory>>

StoreSession(c) ==
    LET r == request[c]
        token == minted + 1
        session == [email |-> r.email, expiresAt |-> r.at + RefreshTTL,
                    login |-> IF r.login = 0 THEN token ELSE r.login,
                    revoked |-> FALSE] IN
    /\ Continue(c, "store")
    /\ minted' = token
    /\ sessions' = [t \in DOMAIN sessions \cup {token} |->
                      IF t = token THEN session ELSE sessions[t]]
    /\ issued' = issued \cup {[email |-> r.email, iat |-> r.at]}
    /\ Answer(c)
    /\ UNCHANGED <<tables, revoked, loggedOut>>

-----------------------------------------------------------------------------
(* Refresh, Logout and ValidateAccessToken.                                *)

\* Slip: a revocation is forgotten a second before its token expires.
PruneTooEarly ==
    [a \in {b \in DOMAIN revoked : now + 1 < revoked[b]} |-> revoked[a]]

pruneRevokedLocked ==
    [a \in {b \in DOMAIN revoked : now <= revoked[b]} |-> revoked[a]]

Revoke(t) == [sessions EXCEPT ![t].revoked = TRUE]

\* Slip: the session is left as it is until its successor is stored.
RefreshUnmarked(c, t) ==
    /\ Begin(c)
    /\ revoked' = pruneRevokedLocked
    /\ IF t \in DOMAIN sessions /\ ~sessions[t].revoked
            /\ now <= sessions[t].expiresAt
         THEN Open(c, [Idle EXCEPT !.pc = "sign", !.email = sessions[t].email,
                                   !.login = sessions[t].login])
         ELSE Answer(c)
    /\ UNCHANGED <<tables, issued, minted, sessions, loggedOut>>

\* An expired session is marked as well, and the request refused.
Refresh(c, t) ==
    /\ Begin(c)
    /\ revoked' = pruneRevokedLocked
    /\ \/ /\ t \in DOMAIN sessions
          /\ ~sessions[t].revoked
          /\ sessions' = Revoke(t)
          /\ IF now > sessions[t].expiresAt
               THEN Answer(c)
               ELSE Open(c, [Idle EXCEPT !.pc = "sign",
                                         !.email = sessions[t].email,
                                         !.login = sessions[t].login])
       \/ /\ t \in DOMAIN sessions => sessions[t].revoked
          /\ Answer(c)
          /\ UNCHANGED sessions
    /\ UNCHANGED <<tables, issued, minted, loggedOut>>

Logout(c, a) ==
    /\ Begin(c)
    /\ IF now < Expiry(a)
         THEN Open(c, [Idle EXCEPT !.pc = "revoke", !.access = a])
         ELSE Answer(c)
    /\ UNCHANGED <<tables, memory>>

RevokeAccess(c) ==
    LET a == request[c].access IN
    /\ Continue(c, "revoke")
    /\ revoked' = [b \in DOMAIN revoked \cup {a} |-> Expiry(b)]
    /\ loggedOut' = loggedOut \cup {a}
    /\ Answer(c)
    /\ UNCHANGED <<tables, issued, minted, sessions>>

IsRevoked(a) == a \in DOMAIN revoked /\ now < revoked[a]

\* The mutex is released before the token itself is judged.
ValidateAccessToken(c, a) ==
    /\ Begin(c)
    /\ \/ /\ IsRevoked(a)
          /\ Answer(c)
          /\ UNCHANGED revoked
       \/ /\ ~IsRevoked(a)
          /\ revoked' = pruneRevokedLocked
          /\ Open(c, [Idle EXCEPT !.pc = "parse", !.access = a,
                                  !.late = a \in loggedOut])
    /\ UNCHANGED <<tables, issued, minted, sessions, loggedOut>>

parseAccessToken(c) ==
    /\ Continue(c, "parse")
    /\ IF now < Expiry(request[c].access) THEN GoTo(c, "accepted") ELSE Answer(c)
    /\ UNCHANGED <<tables, memory>>

\* The maps and the requests in hand are lost, the tables are not.
Restart ==
    /\ restarts < MaxRestarts
    /\ restarts' = restarts + 1
    /\ sessions' = [t \in {} |-> Idle]
    /\ revoked' = [a \in {} |-> 0]
    /\ loggedOut' = {}
    /\ request' = [c \in Clients |-> Idle]
    /\ UNCHANGED <<now, tables, issued, minted, started>>

Serve(c) ==
    \/ \E e \in Emails : Register(c, e) \/ Login(c, e)
    \/ CreateUser(c) \/ AssignRoleByName(c) \/ GetRolesByUserID(c)
    \/ StatementFails(c) \/ Sign(c) \/ StoreSession(c)
    \/ \E t \in 1..minted : Refresh(c, t)
    \/ \E a \in issued : Logout(c, a) \/ ValidateAccessToken(c, a)
    \/ RevokeAccess(c) \/ parseAccessToken(c)

Next == Tick \/ Restart \/ \E c \in Clients : Serve(c)

Spec == Init /\ [][Next]_vars

-----------------------------------------------------------------------------

AccessToken == [email : Emails \cup {NoEmail}, iat : Nat]
Session == [email : Emails, login : Nat, expiresAt : Nat, revoked : BOOLEAN]
Request == [pc : {"idle", "create", "assign", "roles", "sign", "store", "revoke",
                  "parse", "accepted"},
            email : Emails \cup {NoEmail}, login : Nat, at : Nat,
            access : AccessToken, late : BOOLEAN]

\* The type of every variable.
TypeOK ==
    /\ now \in Nat /\ minted \in Nat /\ started \in Nat /\ restarts \in Nat
    /\ users \subseteq Emails /\ roles \subseteq Emails
    /\ issued \subseteq AccessToken /\ loggedOut \subseteq AccessToken
    /\ DOMAIN sessions \subseteq 1..minted
    /\ \A t \in DOMAIN sessions :
         sessions[t] \in Session /\ sessions[t].login \in 1..minted
    /\ request \in [Clients -> Request]
    /\ \A c \in Clients :
         /\ request[c].login <= minted
         /\ request[c].pc \in {"create", "assign", "roles", "sign", "store"}
              => request[c].email \in Emails
         /\ request[c].pc \in {"create", "assign", "roles"} => request[c].login = 0

Live(l) == {t \in DOMAIN sessions : sessions[t].login = l /\ ~sessions[t].revoked}
Pending(l) == {c \in Clients : request[c].pc \in {"sign", "store"} /\ request[c].login = l}

\* Refresh tokens rotate: of all the sessions that descend from one login or
\* registration at most one can still be refreshed, counting the one a request
\* is about to store, however many refreshes of it overlap.
OneLiveSessionPerLogin ==
    \A l \in 1..minted :
        /\ \A t, u \in Live(l) : t = u
        /\ \A c, d \in Pending(l) : c = d
        /\ Live(l) = {} \/ Pending(l) = {}

\* A validation that begins after the logout of its token was answered by the
\* same process does not accept the token, in any second of its life: the
\* revocation is kept until the token has expired by itself.
LogoutStands ==
    \A c \in Clients : request[c].pc = "accepted" => ~request[c].late
=============================================================================
