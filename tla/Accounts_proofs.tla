--------------------------- MODULE Accounts_proofs ---------------------------
(***************************************************************************)
(* Proofs about the auth service, the user service and both on one         *)
(* database: refresh tokens rotate, a logout stands, an answered update    *)
(* stands and deletions are audited once, for any clients, users,          *)
(* lifetimes and bounds.  First the auth service by itself; then its       *)
(* invariants outlive the steps of the user service, and that one's own    *)
(* invariants the steps of both.                                           *)
(***************************************************************************)
EXTENDS Accounts, SequenceTheorems, TLAPS

USE TTLAssumption, BoundsAssumption, NoEmailAssumption

-----------------------------------------------------------------------------
(* Type correctness. *)

LEMMA IdleType == Idle \in Request /\ NoToken \in AccessToken
  BY DEF Idle, NoToken, Request, AccessToken

LEMMA InitTypeOK == Init => TypeOK
  BY IdleType DEF Init, TypeOK, Idle

\* The expiry of an access token is a time.
LEMMA ExpiryType == ASSUME NEW a \in AccessToken PROVE Expiry(a) \in Nat
  BY DEF AccessToken, Expiry

\* The request to sign for a refreshed session has the type of a request.
LEMMA SignType ==
  ASSUME NEW e \in Emails, NEW l \in Nat
  PROVE  /\ [Idle EXCEPT !.pc = "sign", !.email = e, !.login = l] \in Request
         /\ [Idle EXCEPT !.pc = "sign", !.email = e, !.login = l].pc = "sign"
         /\ [Idle EXCEPT !.pc = "sign", !.email = e, !.login = l].email = e
         /\ [Idle EXCEPT !.pc = "sign", !.email = e, !.login = l].login = l
  BY IdleType DEF Idle, Request

\* A request that may follow: the part of the types it has to keep.
Fits(r) ==
  /\ r \in Request
  /\ r.login <= minted
  /\ r.pc \in {"create", "assign", "roles", "sign", "store"} => r.email \in Emails
  /\ r.pc \in {"create", "assign", "roles"} => r.login = 0

LEMMA IdleFits == TypeOK => Fits(Idle)
  BY IdleType DEF Idle, Fits, TypeOK

\* Every request in hand fits.
LEMMA HeldFits == ASSUME TypeOK, NEW c \in Clients PROVE Fits(request[c])
<1>1. request[c] \in Request
  BY DEF TypeOK
<1>2. /\ request[c].login <= minted
      /\ request[c].pc \in {"create", "assign", "roles", "sign", "store"}
           => request[c].email \in Emails
      /\ request[c].pc \in {"create", "assign", "roles"} => request[c].login = 0
  BY DEF TypeOK
<1> QED
  BY <1>1, <1>2 DEF Fits

\* A new request of one client keeps the types of the requests.
LEMMA RequestsFit ==
  ASSUME TypeOK, NEW c \in Clients, NEW r, Fits(r), request' = [request EXCEPT ![c] = r],
         minted' \in Nat, minted' >= minted
  PROVE  /\ request' \in [Clients -> Request]
         /\ \A d \in Clients :
              /\ request'[d].login <= minted'
              /\ request'[d].pc \in {"create", "assign", "roles", "sign", "store"}
                   => request'[d].email \in Emails
              /\ request'[d].pc \in {"create", "assign", "roles"} => request'[d].login = 0
<1>1. \A d \in Clients : request'[d] = IF d = c THEN r ELSE request[d]
  BY DEF TypeOK
<1>2. request' \in [Clients -> Request]
  BY DEF TypeOK, Fits
<1>3. \A d \in Clients : Fits(request'[d]) /\ request'[d].login \in Nat
  BY <1>1, HeldFits DEF Fits, Request
<1> QED
  BY <1>2, <1>3 DEF Fits, TypeOK

\* A request that fits still fits at its next place in the code.
LEMMA GoesOn ==
  ASSUME TypeOK, NEW c \in Clients,
         NEW pc \in {"assign", "roles", "sign", "accepted"}, GoTo(c, pc),
         pc \in {"assign", "roles", "sign"} => request[c].pc \in {"create", "assign", "roles"}
  PROVE  \E r : Fits(r) /\ request' = [request EXCEPT ![c] = r]
<1> DEFINE r == [request[c] EXCEPT !.pc = pc]
<1>1. request[c] \in Request /\ Fits(request[c])
  BY HeldFits DEF Fits
<1>2. r \in Request /\ r.pc = pc /\ r.login = request[c].login /\ r.email = request[c].email
  BY <1>1 DEF Request
<1>3. Fits(r)
  BY <1>1, <1>2 DEF Fits
<1>4. request' = [request EXCEPT ![c] = r]
  BY DEF GoTo
<1> QED
  BY <1>3, <1>4

\* Whatever a client asks or answers, what is then in hand for it fits.
LEMMA ServeFits ==
  ASSUME TypeOK, NEW c \in Clients, Serve(c), ~ StoreSession(c)
  PROVE  \E r : Fits(r) /\ request' = [request EXCEPT ![c] = r]
<1> USE DEF Open, Begin, Continue
<1>0. Answer(c) => \E r : Fits(r) /\ request' = [request EXCEPT ![c] = r]
  BY IdleFits DEF Answer
<1>1. ASSUME NEW e \in Emails, NEW pc \in {"create", "roles"}
      PROVE  Fits([Idle EXCEPT !.pc = pc, !.email = e])
  <2>1. [Idle EXCEPT !.pc = pc, !.email = e] \in Request
    BY IdleType DEF Idle, Request
  <2> QED
    BY <2>1, IdleFits DEF Fits, Idle, TypeOK
<1>2. ASSUME NEW e \in Emails, Register(c, e) \/ Login(c, e)
      PROVE  \E r : Fits(r) /\ request' = [request EXCEPT ![c] = r]
  BY <1>0, <1>1, <1>2 DEF Register, Login
<1>3. ASSUME CreateUser(c) \/ AssignRoleByName(c) \/ GetRolesByUserID(c) \/ parseAccessToken(c)
      PROVE  \E r : Fits(r) /\ request' = [request EXCEPT ![c] = r]
  BY <1>0, <1>3, GoesOn DEF CreateUser, AssignRoleByName, GetRolesByUserID, parseAccessToken
<1>4. CASE StatementFails(c) \/ RevokeAccess(c)
  BY <1>0, <1>4 DEF StatementFails, RevokeAccess
<1>5. CASE Sign(c)
  <2> DEFINE r == [request[c] EXCEPT !.pc = "store", !.at = now]
  <2>1. request[c] \in Request /\ Fits(request[c]) /\ request[c].pc = "sign" /\ now \in Nat
    BY <1>5, HeldFits DEF Fits, Sign, TypeOK
  <2>2. r \in Request /\ r.pc = "store" /\ r.login = request[c].login
        /\ r.email = request[c].email
    BY <2>1 DEF Request
  <2>3. request' = [request EXCEPT ![c] = r]
    BY <1>5 DEF Sign
  <2> QED
    BY <2>1, <2>2, <2>3 DEF Fits
<1>6. ASSUME NEW t \in 1..minted, Refresh(c, t)
      PROVE  \E r : Fits(r) /\ request' = [request EXCEPT ![c] = r]
  <2> DEFINE r == [Idle EXCEPT !.pc = "sign", !.email = sessions[t].email,
                               !.login = sessions[t].login]
  <2>1. ASSUME t \in DOMAIN sessions PROVE Fits(r)
    <3>1. sessions[t].email \in Emails /\ sessions[t].login \in 1..minted /\ minted \in Nat
      BY <2>1 DEF TypeOK, Session
    <3>2. r \in Request /\ r.pc = "sign" /\ r.email = sessions[t].email
          /\ r.login = sessions[t].login
      <4> DEFINE e == sessions[t].email
                 l == sessions[t].login
      <4>1. e \in Emails /\ l \in Nat
        BY <3>1
      <4> HIDE DEF e, l
      <4>2. /\ [Idle EXCEPT !.pc = "sign", !.email = e, !.login = l] \in Request
            /\ [Idle EXCEPT !.pc = "sign", !.email = e, !.login = l].pc = "sign"
            /\ [Idle EXCEPT !.pc = "sign", !.email = e, !.login = l].email = e
            /\ [Idle EXCEPT !.pc = "sign", !.email = e, !.login = l].login = l
        BY <4>1, SignType
      <4> QED
        BY <4>2 DEF e, l
    <3> QED
      BY <3>1, <3>2 DEF Fits
  <2> QED
    BY <1>0, <1>6, <2>1 DEF Refresh
<1>7. ASSUME NEW a \in issued, Logout(c, a) \/ ValidateAccessToken(c, a)
      PROVE  \E r : Fits(r) /\ request' = [request EXCEPT ![c] = r]
  <2>1. a \in AccessToken
    BY DEF TypeOK
  <2>2. Fits([Idle EXCEPT !.pc = "revoke", !.access = a])
    BY <2>1, IdleType, IdleFits DEF Idle, Request, Fits, TypeOK
  <2>3. ASSUME NEW late \in BOOLEAN
        PROVE  Fits([Idle EXCEPT !.pc = "parse", !.access = a, !.late = late])
    BY <2>1, IdleType, IdleFits DEF Idle, Request, Fits, TypeOK
  <2>4. CASE Logout(c, a)
    BY <1>0, <2>2, <2>4 DEF Logout
  <2>5. CASE ValidateAccessToken(c, a)
    <3> DEFINE late == a \in loggedOut
    <3>1. late \in BOOLEAN
      OBVIOUS
    <3>2. Answer(c) \/ Open(c, [Idle EXCEPT !.pc = "parse", !.access = a, !.late = late])
      BY <2>5 DEF ValidateAccessToken
    <3> HIDE DEF late
    <3>3. Fits([Idle EXCEPT !.pc = "parse", !.access = a, !.late = late])
      BY <2>3, <3>1
    <3> QED
      BY <1>0, <3>2, <3>3
  <2> QED
    BY <1>7, <2>4, <2>5
<1> QED
  BY <1>2, <1>3, <1>4, <1>5, <1>6, <1>7 DEF Serve

\* Storing a session keeps the types.
LEMMA StoreTypeOK ==
  ASSUME TypeOK, NEW c \in Clients, StoreSession(c)
  PROVE  TypeOK'
<1> DEFINE r == request[c]
           token == minted + 1
           login == IF r.login = 0 THEN token ELSE r.login
           session == [email |-> r.email, expiresAt |-> r.at + RefreshTTL, login |-> login,
                       revoked |-> FALSE]
<1>1. Fits(r) /\ r.email \in Emails /\ r.at \in Nat /\ r.login \in Nat /\ r.login <= minted
      /\ minted \in Nat
  BY HeldFits DEF Fits, Request, StoreSession, Continue, TypeOK
<1>2. session \in Session /\ session.login \in 1..token
  BY <1>1 DEF Session
<1>3. [email |-> r.email, iat |-> r.at] \in AccessToken
  BY <1>1 DEF AccessToken
<1>4. /\ minted' = token
      /\ sessions' = [t \in DOMAIN sessions \cup {token} |->
                        IF t = token THEN session ELSE sessions[t]]
      /\ issued' = issued \cup {[email |-> r.email, iat |-> r.at]}
      /\ request' = [request EXCEPT ![c] = Idle]
      /\ UNCHANGED <<now, tables, revoked, loggedOut, started, restarts>>
  BY DEF StoreSession, Continue, Answer
<1>5. /\ DOMAIN sessions' \subseteq 1..token
      /\ \A t \in DOMAIN sessions' :
           sessions'[t] \in Session /\ sessions'[t].login \in 1..token
  <2> HIDE DEF session
  <2> QED
    BY <1>1, <1>2, <1>4 DEF TypeOK
<1>6. minted' \in Nat /\ minted' >= minted
  BY <1>1, <1>4
<1> HIDE DEF session
<1>7. /\ request' \in [Clients -> Request]
      /\ \A d \in Clients :
           /\ request'[d].login <= minted'
           /\ request'[d].pc \in {"create", "assign", "roles", "sign", "store"}
                => request'[d].email \in Emails
           /\ request'[d].pc \in {"create", "assign", "roles"} => request'[d].login = 0
  BY <1>4, <1>6, RequestsFit, IdleFits
<1>8. issued' \subseteq AccessToken
  BY <1>3, <1>4 DEF TypeOK
<1>9. DOMAIN sessions' \subseteq 1..minted'
      /\ \A t \in DOMAIN sessions' :
           sessions'[t] \in Session /\ sessions'[t].login \in 1..minted'
  BY <1>4, <1>5
<1>10. /\ now' \in Nat /\ started' \in Nat /\ restarts' \in Nat
       /\ users' \subseteq Emails /\ roles' \subseteq Emails /\ loggedOut' \subseteq AccessToken
  BY <1>4 DEF TypeOK, tables
<1> QED
  BY <1>6, <1>7, <1>8, <1>9, <1>10 DEF TypeOK

\* What one client asks, or answers, keeps the types.
LEMMA ServeTypeOK ==
  ASSUME TypeOK, NEW c \in Clients, Serve(c)
  PROVE  TypeOK'
<1>1. CASE StoreSession(c)
  BY <1>1, StoreTypeOK
<1>2. CASE ~ StoreSession(c)
  <2> USE DEF Begin, Continue, tables, memory
  <2>1. /\ users' \subseteq Emails /\ roles' \subseteq Emails /\ started' \in Nat
        /\ loggedOut' \subseteq AccessToken
        /\ UNCHANGED <<now, restarts, minted, issued>>
    <3>1. request[c] \in Request /\ request[c].access \in AccessToken /\ started + 1 \in Nat
          /\ started \in Nat
      BY HeldFits DEF Fits, Request, TypeOK
    <3>2. request[c].pc \in {"create", "assign"} => request[c].email \in Emails
      BY HeldFits DEF Fits
    <3>3. users \subseteq Emails /\ roles \subseteq Emails /\ loggedOut \subseteq AccessToken
      BY DEF TypeOK
    <3>4. CASE \E e \in Emails : Register(c, e) \/ Login(c, e)
      BY <3>1, <3>3, <3>4 DEF Register, Login
    <3>5. CASE CreateUser(c) \/ AssignRoleByName(c) \/ GetRolesByUserID(c)
      BY <3>1, <3>2, <3>3, <3>5 DEF CreateUser, AssignRoleByName, GetRolesByUserID
    <3>6. CASE StatementFails(c) \/ Sign(c) \/ RevokeAccess(c) \/ parseAccessToken(c)
      BY <3>1, <3>3, <3>6 DEF StatementFails, Sign, RevokeAccess, parseAccessToken
    <3>7. CASE \E t \in 1..minted : Refresh(c, t)
      BY <3>1, <3>3, <3>7 DEF Refresh
    <3>8. CASE \E a \in issued : Logout(c, a) \/ ValidateAccessToken(c, a)
      BY <3>1, <3>3, <3>8 DEF Logout, ValidateAccessToken
    <3> QED
      BY <1>2, <3>4, <3>5, <3>6, <3>7, <3>8 DEF Serve
  <2>2. /\ DOMAIN sessions' = DOMAIN sessions
        /\ \A t \in DOMAIN sessions :
             sessions'[t] \in Session /\ sessions'[t].login = sessions[t].login
    <3>1. CASE UNCHANGED sessions
      BY <3>1 DEF TypeOK
    <3>2. ASSUME NEW t \in 1..minted, t \in DOMAIN sessions,
                 sessions' = Revoke(t)
          PROVE  /\ DOMAIN sessions' = DOMAIN sessions
                 /\ \A u \in DOMAIN sessions :
                      sessions'[u] \in Session /\ sessions'[u].login = sessions[u].login
      BY <3>2 DEF Revoke, TypeOK, Session
    <3>3. ASSUME ~ \E t \in 1..minted : Refresh(c, t) PROVE UNCHANGED sessions
      BY <1>2, <3>3 DEF Serve, Register, Login, CreateUser, AssignRoleByName, GetRolesByUserID,
                StatementFails, Sign, Logout, ValidateAccessToken, RevokeAccess,
                parseAccessToken
    <3> QED
      BY <3>1, <3>2, <3>3 DEF Refresh
  <2>3. minted \in Nat
    BY DEF TypeOK
  <2> QED
    BY <1>2, <2>1, <2>2, <2>3, ServeFits, RequestsFit DEF TypeOK
<1> QED
  BY <1>1, <1>2

LEMMA NextTypeOK == TypeOK /\ [Next]_vars => TypeOK'
<1> SUFFICES ASSUME TypeOK, [Next]_vars PROVE TypeOK'
  OBVIOUS
<1>1. CASE Tick
  BY <1>1 DEF Tick, TypeOK, tables, memory
<1>2. CASE Restart
  BY <1>2, IdleType DEF Restart, TypeOK, tables, Idle
<1>3. CASE UNCHANGED vars
  BY <1>3 DEF vars, TypeOK, tables, memory
<1> QED
  BY <1>1, <1>2, <1>3, ServeTypeOK DEF Next

\* The variables of the auth service keep their types.
THEOREM TypeCorrect == Spec => []TypeOK
  BY InitTypeOK, NextTypeOK, PTL DEF Spec

-----------------------------------------------------------------------------
(* A logout stands: the map of revoked tokens holds the expiry of each, a logged- *)
(* out token is in the map until it has expired, and so whatever a late           *)
(* validation still judges has expired.                                           *)

RevocationsKept ==
  /\ \A a \in DOMAIN revoked : revoked[a] = Expiry(a)
  /\ \A a \in loggedOut : a \in DOMAIN revoked \/ Expiry(a) < now

\* A request that is late judges an expired token, and has not accepted it.
Sound(r) ==
  /\ r.pc = "parse" /\ r.late => Expiry(r.access) <= now
  /\ r.pc = "accepted" => ~ r.late

LateInv == RevocationsKept /\ \A c \in Clients : Sound(request[c])

LEMMA InitLateInv == Init => LateInv
  BY DEF Init, LateInv, RevocationsKept, Sound, Idle

LEMMA IdleSound == Sound(Idle)
  BY DEF Sound, Idle

\* Only what the step has written about the requests must be looked at again.
LEMMA RequestsSound ==
  ASSUME TypeOK, LateInv, NEW c \in Clients, NEW r, Sound(r), now' = now,
         request' = [request EXCEPT ![c] = r]
  PROVE  \A d \in Clients : Sound(request[d])'
<1>1. \A d \in Clients : request'[d] = IF d = c THEN r ELSE request[d]
  BY DEF TypeOK
<1>2. \A d \in Clients : Sound(request'[d])
  BY <1>1 DEF LateInv
<1> QED
  BY <1>2 DEF Sound, Expiry

\* A revocation leaves the map only when its token has expired.
LEMMA PruningIsSafe ==
  ASSUME TypeOK, RevocationsKept, revoked' = pruneRevokedLocked, UNCHANGED <<now, loggedOut>>
  PROVE  RevocationsKept'
<1>1. \A a \in loggedOut : Expiry(a) \in Nat /\ now \in Nat
  BY ExpiryType DEF TypeOK
<1>2. /\ DOMAIN revoked' = {b \in DOMAIN revoked : now <= revoked[b]}
      /\ \A a \in DOMAIN revoked' : revoked'[a] = revoked[a]
  BY DEF pruneRevokedLocked
<1> QED
  BY <1>1, <1>2 DEF RevocationsKept, Expiry

\* A validation that starts late finds its token revoked, or expired.
LEMMA LateIsExpired ==
  ASSUME TypeOK, RevocationsKept, NEW a \in loggedOut, ~ IsRevoked(a)
  PROVE  Expiry(a) <= now
<1>1. Expiry(a) \in Nat /\ now \in Nat
  BY ExpiryType DEF TypeOK
<1> QED
  BY <1>1 DEF RevocationsKept, IsRevoked

\* What one client asks, or answers, keeps the invariant.
LEMMA ServeLateInv ==
  ASSUME TypeOK, LateInv, NEW c \in Clients, Serve(c)
  PROVE  LateInv'
<1> USE DEF Begin, Continue, Open, Answer, memory
<1>0. ASSUME NEW r, Sound(r), RevocationsKept', now' = now, request' = [request EXCEPT ![c] = r]
      PROVE  LateInv'
  BY <1>0, RequestsSound DEF LateInv
<1>1. UNCHANGED <<now, revoked, loggedOut>> => RevocationsKept'
  BY DEF LateInv, RevocationsKept, Expiry
<1>2. ASSUME NEW e \in Emails, Register(c, e) \/ Login(c, e) PROVE LateInv'
  <2>1. Sound([Idle EXCEPT !.pc = "create", !.email = e])
        /\ Sound([Idle EXCEPT !.pc = "roles", !.email = e])
    BY DEF Sound, Idle
  <2> QED
    BY <1>0, <1>1, <1>2, <2>1, IdleSound DEF Register, Login
<1>3. ASSUME NEW pc \in {"assign", "roles", "sign"}, GoTo(c, pc),
             UNCHANGED <<now, revoked, loggedOut>>
      PROVE  LateInv'
  <2> DEFINE r == [request[c] EXCEPT !.pc = pc]
  <2>1. request[c] \in Request
    BY DEF TypeOK
  <2>2. r.pc = pc
    BY <2>1 DEF Request
  <2>3. Sound(r)
    BY <2>2 DEF Sound
  <2> QED
    BY <1>0, <1>1, <1>3, <2>3 DEF GoTo
<1>4. CASE CreateUser(c) \/ AssignRoleByName(c) \/ GetRolesByUserID(c)
  BY <1>3, <1>4 DEF CreateUser, AssignRoleByName, GetRolesByUserID
<1>5. CASE StatementFails(c)
  BY <1>0, <1>1, <1>5, IdleSound DEF StatementFails
<1>6. CASE Sign(c)
  <2> DEFINE r == [request[c] EXCEPT !.pc = "store", !.at = now]
  <2>1. request[c] \in Request
    BY DEF TypeOK
  <2>2. r.pc = "store"
    BY <2>1 DEF Request
  <2>3. Sound(r)
    BY <2>2 DEF Sound
  <2> QED
    BY <1>0, <1>1, <1>6, <2>3 DEF Sign
<1>7. CASE StoreSession(c)
  BY <1>0, <1>1, <1>7, IdleSound DEF StoreSession
<1>8. ASSUME NEW t \in 1..minted, Refresh(c, t) PROVE LateInv'
  <2> DEFINE e == sessions[t].email
             l == sessions[t].login
  <2>1. RevocationsKept'
    BY <1>8, PruningIsSafe DEF Refresh, LateInv
  <2>2. Answer(c) \/ Open(c, [Idle EXCEPT !.pc = "sign", !.email = e, !.login = l])
    BY <1>8 DEF Refresh
  <2> HIDE DEF e, l
  <2>3. Sound([Idle EXCEPT !.pc = "sign", !.email = e, !.login = l])
    BY DEF Sound, Idle
  <2>4. now' = now
    BY <1>8 DEF Refresh
  <2> QED
    BY <1>0, <2>1, <2>2, <2>3, <2>4, IdleSound
<1>9. ASSUME NEW a \in issued, Logout(c, a) PROVE LateInv'
  <2>1. Sound([Idle EXCEPT !.pc = "revoke", !.access = a])
    BY DEF Sound, Idle
  <2> QED
    BY <1>0, <1>1, <1>9, <2>1, IdleSound DEF Logout
<1>10. CASE RevokeAccess(c)
  <2> DEFINE a == request[c].access
  <2>1. RevocationsKept'
    BY <1>10 DEF RevokeAccess, LateInv, RevocationsKept, Expiry
  <2>2. now' = now
    BY <1>10 DEF RevokeAccess
  <2> QED
    BY <1>0, <1>10, <2>1, <2>2, IdleSound DEF RevokeAccess
<1>11. ASSUME NEW a \in issued, ValidateAccessToken(c, a) PROVE LateInv'
  <2> DEFINE late == a \in loggedOut
  <2>1. RevocationsKept' /\ now' = now
    BY <1>1, <1>11, PruningIsSafe DEF ValidateAccessToken, LateInv
  <2>2. late \in BOOLEAN
    OBVIOUS
  <2>3. \/ Answer(c)
        \/ /\ ~ IsRevoked(a)
           /\ Open(c, [Idle EXCEPT !.pc = "parse", !.access = a, !.late = late])
    BY <1>11 DEF ValidateAccessToken
  <2>4. late /\ ~ IsRevoked(a) => Expiry(a) <= now
    BY LateIsExpired DEF LateInv
  <2> HIDE DEF late
  <2>5. ~ IsRevoked(a) => Sound([Idle EXCEPT !.pc = "parse", !.access = a, !.late = late])
    BY <2>2, <2>4 DEF Sound, Idle
  <2> QED
    BY <1>0, <2>1, <2>3, <2>5, IdleSound
<1>12. CASE parseAccessToken(c)
  <2> DEFINE r == [request[c] EXCEPT !.pc = "accepted"]
  <2>1. request[c] \in Request /\ request[c].access \in AccessToken /\ now \in Nat
    BY DEF TypeOK, Request
  <2>2. Expiry(request[c].access) \in Nat
    BY <2>1, ExpiryType
  <2>3. r.pc = "accepted" /\ r.late = request[c].late
    BY <2>1 DEF Request
  <2>4. now < Expiry(request[c].access) => Sound(r)
    BY <1>12, <2>1, <2>2, <2>3 DEF Sound, LateInv, parseAccessToken
  <2> QED
    BY <1>0, <1>1, <1>12, <2>4, IdleSound DEF parseAccessToken, GoTo
<1> QED
  BY <1>2, <1>4, <1>5, <1>6, <1>7, <1>8, <1>9, <1>10, <1>11, <1>12 DEF Serve

LEMMA NextLateInv == TypeOK /\ LateInv /\ [Next]_vars => LateInv'
<1> SUFFICES ASSUME TypeOK, LateInv, [Next]_vars PROVE LateInv'
  OBVIOUS
<1>1. CASE Tick
  <2>1. now \in Nat /\ \A a \in AccessToken : Expiry(a) \in Nat
    BY ExpiryType DEF TypeOK
  <2>2. loggedOut \subseteq AccessToken /\ \A c \in Clients : request[c].access \in AccessToken
    BY DEF TypeOK, Request
  <2> QED
    BY <1>1, <2>1, <2>2 DEF Tick, LateInv, RevocationsKept, Sound, Expiry, memory
<1>2. CASE Restart
  BY <1>2 DEF Restart, LateInv, RevocationsKept, Sound, Idle
<1>3. CASE UNCHANGED vars
  BY <1>3 DEF vars, LateInv, RevocationsKept, Sound, Expiry, memory
<1> QED
  BY <1>1, <1>2, <1>3, ServeLateInv DEF Next

\* No validation that begins after a logout was answered accepts the token, in
\* whatever second of its life and however the revocations are pruned.
THEOREM LogoutIsFinal == Spec => []LogoutStands
<1>1. LateInv => LogoutStands
  BY DEF LateInv, Sound, LogoutStands
<1> QED
  BY <1>1, InitTypeOK, NextTypeOK, InitLateInv, NextLateInv, PTL DEF Spec

-----------------------------------------------------------------------------
(* Refresh tokens rotate: the invariant is inductive once the logins of sessions  *)
(* and requests are known to be tokens already minted (TypeOK).                   *)

\* Fewer sessions to refresh and fewer requests about to store one: still one.
LEMMA FewerSessions ==
  ASSUME OneLiveSessionPerLogin, minted' = minted,
         \A l \in 1..minted : Live(l)' \subseteq Live(l) /\ Pending(l)' \subseteq Pending(l)
  PROVE  OneLiveSessionPerLogin'
<1>1. ASSUME NEW l \in 1..minted
      PROVE  /\ \A t, u \in Live(l)' : t = u
             /\ \A c, d \in Pending(l)' : c = d
             /\ Live(l)' = {} \/ Pending(l)' = {}
  <2>1. /\ \A t, u \in Live(l) : t = u
        /\ \A c, d \in Pending(l) : c = d
        /\ Live(l) = {} \/ Pending(l) = {}
    BY DEF OneLiveSessionPerLogin
  <2> QED
    BY <2>1
<1> QED
  BY <1>1 DEF OneLiveSessionPerLogin

\* A client goes on to nothing that belongs to another login.
LEMMA PendingShrinks ==
  ASSUME TypeOK, NEW c \in Clients, NEW r, request' = [request EXCEPT ![c] = r],
         r.pc \in {"sign", "store"} => r.login = 0 \/ c \in Pending(r.login)
  PROVE  \A l \in 1..minted : Pending(l)' \subseteq Pending(l)
<1>1. \A d \in Clients : request'[d] = IF d = c THEN r ELSE request[d]
  BY DEF TypeOK
<1> QED
  BY <1>1 DEF Pending

\* Steps that leave the sessions alone.
LEMMA QuietStep ==
  ASSUME TypeOK, OneLiveSessionPerLogin, NEW c \in Clients, NEW r,
         request' = [request EXCEPT ![c] = r], UNCHANGED <<sessions, minted>>,
         r.pc \in {"sign", "store"} => r.login = 0 \/ c \in Pending(r.login)
  PROVE  OneLiveSessionPerLogin'
<1>1. \A l \in 1..minted : Live(l)' \subseteq Live(l)
  BY DEF Live
<1> QED
  BY <1>1, PendingShrinks, FewerSessions

\* A refresh takes the session off the live ones before its successor is pending.
LEMMA RefreshKeepsOne ==
  ASSUME TypeOK, OneLiveSessionPerLogin, NEW c \in Clients, NEW t \in 1..minted, Refresh(c, t)
  PROVE  OneLiveSessionPerLogin'
<1> USE DEF Begin, Open, Answer
<1>1. CASE UNCHANGED sessions
  <2>1. Answer(c) => OneLiveSessionPerLogin'
    BY <1>1, QuietStep DEF Refresh, Idle
  <2>2. CASE t \in DOMAIN sessions /\ ~ sessions[t].revoked /\ sessions' = Revoke(t)
    <3>1. sessions'[t].revoked = TRUE
      BY <2>2 DEF Revoke, TypeOK, Session
    <3> QED
      BY <1>1, <2>2, <3>1
  <2> QED
    BY <2>1, <2>2 DEF Refresh
<1>2. CASE t \in DOMAIN sessions /\ ~ sessions[t].revoked /\ sessions' = Revoke(t)
  <2> DEFINE e == sessions[t].email
  <2>0. PICK l \in 1..minted : l = sessions[t].login
    BY <1>2 DEF TypeOK
  <2>1. minted' = minted /\ t \in Live(l) /\ minted \in Nat
    BY <1>2, <2>0 DEF Refresh, TypeOK, Live
  <2>2. /\ DOMAIN sessions' = DOMAIN sessions
        /\ \A u \in DOMAIN sessions :
             /\ sessions'[u].login = sessions[u].login
             /\ u # t => sessions'[u] = sessions[u]
        /\ sessions'[t].revoked = TRUE
    BY <1>2 DEF Revoke, TypeOK, Session
  <2>3. \A k \in 1..minted : Live(k)' \subseteq Live(k)
    BY <2>2 DEF Live
  <2>4. Live(l) = {t} /\ Pending(l) = {}
    <3>1. /\ \A u, v \in Live(l) : u = v
          /\ Live(l) = {} \/ Pending(l) = {}
      BY <2>0 DEF OneLiveSessionPerLogin
    <3> QED
      BY <2>1, <3>1
  <2>5. Live(l)' = {}
    <3>1. Live(l)' \subseteq {t}
      BY <2>3, <2>4
    <3>2. t \notin Live(l)'
      BY <2>2 DEF Live
    <3> QED
      BY <3>1, <3>2
  <2>6. Answer(c) \/ Open(c, [Idle EXCEPT !.pc = "sign", !.email = e, !.login = l])
    BY <1>2, <2>0 DEF Refresh
  <2>7. CASE Answer(c)
    <3>1. \A k \in 1..minted : Pending(k)' \subseteq Pending(k)
      BY <2>7, PendingShrinks DEF Idle
    <3> QED
      BY <2>1, <2>3, <3>1, FewerSessions
  <2>8. CASE Open(c, [Idle EXCEPT !.pc = "sign", !.email = e, !.login = l])
    <3> DEFINE r == [Idle EXCEPT !.pc = "sign", !.email = e, !.login = l]
    <3> HIDE DEF e
    <3>1. r.pc = "sign" /\ r.login = l
      BY DEF Idle
    <3>2. request' = [request EXCEPT ![c] = r]
      BY <2>8
    <3> HIDE DEF r
    <3>3. \A d \in Clients : request'[d] = IF d = c THEN r ELSE request[d]
      BY <3>2 DEF TypeOK
    <3>4. Pending(l)' = {c}
      BY <2>4, <3>1, <3>3 DEF Pending
    <3>5. \A k \in 1..minted : k # l => Pending(k)' \subseteq Pending(k)
      BY <3>1, <3>3 DEF Pending
    <3>6. ASSUME NEW k \in 1..minted
          PROVE  /\ \A u, v \in Live(k)' : u = v
                 /\ \A d, f \in Pending(k)' : d = f
                 /\ Live(k)' = {} \/ Pending(k)' = {}
      <4>1. CASE k = l
        BY <4>1, <2>5, <3>4
      <4>2. CASE k # l
        BY <4>2, <2>3, <3>5 DEF OneLiveSessionPerLogin
      <4> QED
        BY <4>1, <4>2
    <3> QED
      BY <2>1, <3>6 DEF OneLiveSessionPerLogin
  <2> QED
    BY <2>6, <2>7, <2>8
<1> QED
  BY <1>1, <1>2 DEF Refresh

\* The session stored is the only one of its login: the login is new, or the
\* request was the one pending for it.
LEMMA StoreKeepsOne ==
  ASSUME TypeOK, OneLiveSessionPerLogin, NEW c \in Clients, StoreSession(c)
  PROVE  OneLiveSessionPerLogin'
<1> DEFINE r == request[c]
           token == minted + 1
           session == [email |-> r.email, expiresAt |-> r.at + RefreshTTL,
                       login |-> IF r.login = 0 THEN token ELSE r.login, revoked |-> FALSE]
<1>1. r \in Request /\ r.login \in Nat /\ r.login <= minted /\ minted \in Nat /\ r.pc = "store"
  BY DEF StoreSession, Continue, TypeOK, Request
<1>2. /\ minted' = token
      /\ sessions' = [t \in DOMAIN sessions \cup {token} |->
                        IF t = token THEN session ELSE sessions[t]]
      /\ request' = [request EXCEPT ![c] = Idle]
  BY DEF StoreSession, Answer
<1>0. PICK l \in 1..token : l = IF r.login = 0 THEN token ELSE r.login
  BY <1>1
<1>3. session.login = l /\ session.revoked = FALSE
  BY <1>0
<1> HIDE DEF session
<1>4. token \notin DOMAIN sessions /\ \A t \in DOMAIN sessions : sessions[t].login \in 1..minted
  BY <1>1 DEF TypeOK
<1>5. \A d \in Clients : request'[d] = IF d = c THEN Idle ELSE request[d]
  BY <1>2 DEF TypeOK
<1>6. \A d \in Clients : request[d].login \in Nat /\ request[d].login <= minted
  BY DEF TypeOK, Request
<1>7. \A k \in 1..token : Pending(k)' \subseteq Pending(k) \ {c}
  BY <1>5 DEF Pending, Idle
<1>8. \A k \in 1..token : Live(k)' = IF k = l THEN Live(k) \cup {token} ELSE Live(k)
  BY <1>2, <1>3, <1>4 DEF Live
<1>9. Live(token) = {} /\ Pending(token) = {}
  BY <1>1, <1>4, <1>6 DEF Live, Pending
<1>10. r.login # 0 => l \in 1..minted /\ c \in Pending(l)
  BY <1>0, <1>1 DEF Pending
<1>11. r.login # 0 => Live(l) = {} /\ Pending(l) = {c}
  BY <1>10 DEF OneLiveSessionPerLogin
<1>12. Live(l) = {} /\ Pending(l)' = {}
  <2>1. CASE r.login = 0
    BY <2>1, <1>0, <1>7, <1>9
  <2>2. CASE r.login # 0
    BY <2>2, <1>7, <1>11
  <2> QED
    BY <2>1, <2>2
<1>13. ASSUME NEW k \in 1..token
       PROVE  /\ \A u, v \in Live(k)' : u = v
              /\ \A d, f \in Pending(k)' : d = f
              /\ Live(k)' = {} \/ Pending(k)' = {}
  <2>1. CASE k = l
    BY <2>1, <1>8, <1>12
  <2>2. CASE k # l /\ k = token
    BY <2>2, <1>7, <1>8, <1>9
  <2>3. CASE k # l /\ k \in 1..minted
    BY <2>3, <1>7, <1>8 DEF OneLiveSessionPerLogin
  <2>4. k = token \/ k \in 1..minted
    BY <1>1
  <2> QED
    BY <2>1, <2>2, <2>3, <2>4
<1> QED
  BY <1>2, <1>13 DEF OneLiveSessionPerLogin

\* What one client asks, or answers, keeps the invariant.
LEMMA ServeKeepsOne ==
  ASSUME TypeOK, OneLiveSessionPerLogin, NEW c \in Clients, Serve(c)
  PROVE  OneLiveSessionPerLogin'
<1> USE DEF Begin, Continue, Open, memory
<1>0. Answer(c) /\ UNCHANGED <<sessions, minted>> => OneLiveSessionPerLogin'
  BY QuietStep DEF Answer, Idle
<1>1. ASSUME NEW e \in Emails, Register(c, e) \/ Login(c, e) PROVE OneLiveSessionPerLogin'
  <2>1. ASSUME NEW pc \in {"create", "roles"}, Open(c, [Idle EXCEPT !.pc = pc, !.email = e]),
               UNCHANGED <<sessions, minted>>
        PROVE  OneLiveSessionPerLogin'
    <3> DEFINE r == [Idle EXCEPT !.pc = pc, !.email = e]
    <3>1. r.pc = pc
      BY DEF Idle
    <3> QED
      BY <2>1, <3>1, QuietStep
  <2> QED
    BY <1>0, <1>1, <2>1 DEF Register, Login
<1>2. ASSUME NEW pc \in {"assign", "roles", "sign", "accepted"}, GoTo(c, pc),
             pc = "sign" => request[c].login = 0, UNCHANGED <<sessions, minted>>
      PROVE  OneLiveSessionPerLogin'
  <2> DEFINE r == [request[c] EXCEPT !.pc = pc]
  <2>1. request[c] \in Request
    BY DEF TypeOK
  <2>2. r.pc = pc /\ r.login = request[c].login
    BY <2>1 DEF Request
  <2>3. r.pc \in {"sign", "store"} => r.login = 0
    BY <1>2, <2>2
  <2>4. request' = [request EXCEPT ![c] = r]
    BY <1>2 DEF GoTo
  <2> HIDE DEF r
  <2> QED
    BY <1>2, <2>3, <2>4, QuietStep
<1>3. CASE CreateUser(c) \/ AssignRoleByName(c) \/ GetRolesByUserID(c) \/ parseAccessToken(c)
  BY <1>0, <1>2, <1>3
  DEF CreateUser, AssignRoleByName, GetRolesByUserID, parseAccessToken, TypeOK
<1>4. CASE StatementFails(c) \/ RevokeAccess(c)
  BY <1>0, <1>4 DEF StatementFails, RevokeAccess
<1>5. CASE Sign(c)
  <2> DEFINE r == [request[c] EXCEPT !.pc = "store", !.at = now]
  <2>1. request[c] \in Request /\ request[c].pc = "sign"
    BY <1>5 DEF Sign, TypeOK
  <2>2. r.login = request[c].login /\ request' = [request EXCEPT ![c] = r]
    BY <1>5, <2>1 DEF Sign, Request
  <2>3. c \in Pending(r.login)
    BY <2>1, <2>2 DEF Pending
  <2>4. UNCHANGED <<sessions, minted>>
    BY <1>5 DEF Sign
  <2> HIDE DEF r
  <2> QED
    BY <2>2, <2>3, <2>4, QuietStep
<1>6. ASSUME NEW a \in issued, Logout(c, a) \/ ValidateAccessToken(c, a)
      PROVE  OneLiveSessionPerLogin'
  <2>1. ASSUME NEW late \in BOOLEAN, UNCHANGED <<sessions, minted>>,
               Open(c, [Idle EXCEPT !.pc = "parse", !.access = a, !.late = late])
        PROVE  OneLiveSessionPerLogin'
    <3> DEFINE r == [Idle EXCEPT !.pc = "parse", !.access = a, !.late = late]
    <3>1. r.pc = "parse"
      BY DEF Idle
    <3> QED
      BY <2>1, <3>1, QuietStep
  <2>2. CASE Logout(c, a)
    <3> DEFINE r == [Idle EXCEPT !.pc = "revoke", !.access = a]
    <3>1. r.pc = "revoke"
      BY DEF Idle
    <3> QED
      BY <1>0, <2>2, <3>1, QuietStep DEF Logout
  <2>3. CASE ValidateAccessToken(c, a)
    <3> DEFINE late == a \in loggedOut
    <3>1. late \in BOOLEAN
      OBVIOUS
    <3>2. UNCHANGED <<sessions, minted>>
          /\ (Answer(c) \/ Open(c, [Idle EXCEPT !.pc = "parse", !.access = a, !.late = late]))
      BY <2>3 DEF ValidateAccessToken
    <3> HIDE DEF late
    <3> QED
      BY <1>0, <2>1, <3>1, <3>2
  <2> QED
    BY <1>6, <2>2, <2>3
<1> QED
  BY <1>1, <1>3, <1>4, <1>5, <1>6, RefreshKeepsOne, StoreKeepsOne DEF Serve

LEMMA NextKeepsOne == TypeOK /\ OneLiveSessionPerLogin /\ [Next]_vars => OneLiveSessionPerLogin'
<1> SUFFICES ASSUME TypeOK, OneLiveSessionPerLogin, [Next]_vars PROVE OneLiveSessionPerLogin'
  OBVIOUS
<1>1. CASE Tick
  BY <1>1 DEF Tick, OneLiveSessionPerLogin, Live, Pending, memory
<1>2. CASE Restart
  BY <1>2 DEF Restart, OneLiveSessionPerLogin, Live, Pending, Idle
<1>3. CASE UNCHANGED vars
  BY <1>3 DEF vars, OneLiveSessionPerLogin, Live, Pending, memory
<1> QED
  BY <1>1, <1>2, <1>3, ServeKeepsOne DEF Next

\* However many refreshes overlap, at most one session descended from a login can
\* still be refreshed.
THEOREM RefreshTokensRotate == Spec => []OneLiveSessionPerLogin
<1>1. TypeOK /\ Init => OneLiveSessionPerLogin
  BY DEF Init, OneLiveSessionPerLogin, Live, Pending
<1> QED
  BY <1>1, InitTypeOK, NextTypeOK, NextKeepsOne, PTL DEF Spec

-----------------------------------------------------------------------------
(* Both services on one database.  A step of the user service is one of the auth  *)
(* service that receives at most a request.                                       *)

LEMMA AccountsSteps ==
  ASSUME [AccountsNext]_<<vars, userVars>>
  PROVE  \/ [Next]_vars /\ UNCHANGED userVars
         \/ \E c \in Clients : UserStep(c)
  BY DEF AccountsNext, AuthStep, Next

LEMMA UserStepIsQuiet ==
  ASSUME NEW c \in Clients, UserStep(c)
  PROVE  /\ UNCHANGED <<now, users, roles, issued, minted, sessions, revoked, request, restarts,
                        loggedOut>>
         /\ started' \in {started, started + 1}
<1>1. UNCHANGED users /\ started' \in {started, started + 1}
  BY DEF UserStep, User!ServeUser, User!UpdateProfile, User!CreateAPIKey, User!DeleteAPIKey,
         User!WriteName, User!UpsertSettings, User!AnswerUpdate, User!UpdateFails,
         User!WriteAuditLog, User!Begin, User!Continue
<1> QED
  BY <1>1 DEF UserStep, memory

AuthInv == TypeOK /\ LateInv /\ OneLiveSessionPerLogin

LEMMA AccountsKeepAuthInv ==
  AuthInv /\ [AccountsNext]_<<vars, userVars>> => AuthInv'
<1> SUFFICES ASSUME AuthInv, [AccountsNext]_<<vars, userVars>> PROVE AuthInv'
  OBVIOUS
<1>1. CASE [Next]_vars
  BY <1>1, NextTypeOK, NextLateInv, NextKeepsOne DEF AuthInv
<1>2. ASSUME NEW c \in Clients, UserStep(c) PROVE AuthInv'
  <2>1. /\ UNCHANGED <<now, users, roles, issued, minted, sessions, revoked, request, restarts,
                       loggedOut>>
        /\ started' \in {started, started + 1}
    BY <1>2, UserStepIsQuiet
  <2>2. TypeOK'
    BY <2>1 DEF AuthInv, TypeOK
  <2>3. LateInv'
    BY <2>1 DEF AuthInv, LateInv, RevocationsKept, Sound, Expiry
  <2>4. OneLiveSessionPerLogin'
    BY <2>1 DEF AuthInv, OneLiveSessionPerLogin, Live, Pending
  <2> QED
    BY <2>2, <2>3, <2>4 DEF AuthInv
<1> QED
  BY <1>1, <1>2, AccountsSteps

\* The theorems of the auth service hold of it beside the user service.
THEOREM AuthStandsInAccounts ==
  AccountsSpec => [](TypeOK /\ LogoutStands /\ OneLiveSessionPerLogin)
<1>1. AccountsInit => AuthInv
  <2>1. TypeOK /\ Init => OneLiveSessionPerLogin
    BY DEF Init, OneLiveSessionPerLogin, Live, Pending
  <2> QED
    BY <2>1, InitTypeOK, InitLateInv DEF AccountsInit, AuthInv
<1>2. AuthInv => TypeOK /\ LogoutStands /\ OneLiveSessionPerLogin
  BY DEF AuthInv, LateInv, Sound, LogoutStands
<1> QED
  BY <1>1, <1>2, AccountsKeepAuthInv, PTL DEF AccountsSpec

-----------------------------------------------------------------------------
(* Type correctness of the user service. *)

Entry == {"created", "deleted"} \X Nat
Key == [id : Nat, user : Emails, content : Contents]
ProfileRow == [name : Nat, settings : Nat]
Call == [pc : {"quiet", "name", "settings", "note", "updated", "audit"},
         user : Emails \cup {NoEmail}, update : Nat, entry : Entry \cup {<<>>},
         alone : BOOLEAN]

UserTypes ==
  /\ nextID \in Nat /\ keys \subseteq Key /\ audit \in Seq(Entry)
  /\ DOMAIN profile \subseteq Emails /\ profile \in [DOMAIN profile -> ProfileRow]
  /\ call \in [Clients -> Call]
  /\ \A c \in Clients :
       /\ call[c].pc \in {"name", "settings", "note", "updated"} => call[c].user \in Emails
       /\ call[c].pc = "audit" => call[c].entry \in Entry

\* What the user service may have in hand for a client.
FitCall(r) ==
  /\ r \in Call
  /\ r.pc \in {"name", "settings", "note", "updated"} => r.user \in Emails
  /\ r.pc = "audit" => r.entry \in Entry

LEMMA QuietFits == FitCall(User!Quiet) /\ User!Quiet.pc = "quiet"
  BY DEF User!Quiet, FitCall, Call

LEMMA ProfileType ==
  ASSUME UserTypes, NEW u
  PROVE  User!Profile(u) \in ProfileRow
  BY DEF UserTypes, User!Profile, User!NoProfile, ProfileRow

\* One client's call replaced.
LEMMA CallReplaced ==
  ASSUME UserTypes, NEW c \in Clients, NEW r, FitCall(r), call' = [call EXCEPT ![c] = r]
  PROVE  /\ call' \in [Clients -> Call]
         /\ \A d \in Clients : /\ FitCall(call'[d])
                               /\ call'[d] = IF d = c THEN r ELSE call[d]
<1>1. \A d \in Clients : call'[d] = IF d = c THEN r ELSE call[d]
  BY DEF UserTypes
<1>2. \A d \in Clients : FitCall(call[d])
  BY DEF UserTypes, FitCall
<1>3. call' \in [Clients -> Call]
  BY DEF UserTypes, FitCall
<1> QED
  BY <1>1, <1>2, <1>3

\* A row of the profile written.
LEMMA ProfileStored ==
  ASSUME UserTypes, NEW u \in Emails, NEW row \in ProfileRow, User!StoreProfile(u, row)
  PROVE  /\ DOMAIN profile' \subseteq Emails /\ profile' \in [DOMAIN profile' -> ProfileRow]
         /\ u \in DOMAIN profile' /\ profile'[u] = row
         /\ DOMAIN profile \subseteq DOMAIN profile'
         /\ \A v \in DOMAIN profile : v # u => profile'[v] = profile[v]
  BY DEF UserTypes, User!StoreProfile

\* An update begins: it is alone, or it and those it overlaps are not.
LEMMA UpdateBegins ==
  ASSUME TypeOK, UserTypes, NEW c \in Clients, NEW u \in users, User!UpdateProfile(c, u)
  PROVE  /\ call' \in [Clients -> Call] /\ u \in Emails
         /\ call'[c].pc = "name" /\ call'[c].user = u
         /\ call'[c].alone => User!Updating(u) \ {c} = {}
         /\ \A d \in Clients : d # c =>
              /\ call'[d].pc = call[d].pc /\ call'[d].user = call[d].user
              /\ call'[d].update = call[d].update /\ call'[d].entry = call[d].entry
              /\ call'[d].alone => call[d].alone /\ call[d].user # u
         /\ UNCHANGED <<profile, keys, nextID, audit>>
<1> DEFINE alone == User!Updating(u) \ {c} = {}
           first == [User!Quiet EXCEPT !.pc = "name", !.user = u, !.update = started',
                                       !.alone = alone]
           Overlapped(d) == IF call[d].user = u THEN [call[d] EXCEPT !.alone = FALSE] ELSE call[d]
<1>1. u \in Emails /\ started' \in Nat
  <2>1. users \subseteq Emails /\ started \in Nat
    BY DEF TypeOK
  <2>2. started' = started + 1
    BY DEF User!UpdateProfile, User!Begin
  <2> QED
    BY <2>1, <2>2
<1>2. alone \in BOOLEAN
  OBVIOUS
<1>3. /\ call' = [d \in Clients |-> IF d = c THEN first ELSE Overlapped(d)]
      /\ UNCHANGED <<profile, keys, nextID, audit>>
  BY DEF User!UpdateProfile
<1>4. first \in Call /\ first.pc = "name" /\ first.user = u /\ first.alone = alone
  <2>1. PICK a \in BOOLEAN : a = alone
    BY <1>2
  <2>2. PICK n \in Nat : n = started'
    BY <1>1
  <2> DEFINE r == [User!Quiet EXCEPT !.pc = "name", !.user = u, !.update = n, !.alone = a]
  <2>3. r \in Call /\ r.pc = "name" /\ r.user = u /\ r.alone = a
    BY <1>1 DEF Call, User!Quiet
  <2>4. first = r
    BY <2>1, <2>2
  <2> HIDE DEF first, r
  <2> QED
    BY <2>1, <2>3, <2>4
<1>5. ASSUME NEW d \in Clients
      PROVE  /\ Overlapped(d) \in Call
             /\ Overlapped(d).pc = call[d].pc /\ Overlapped(d).user = call[d].user
             /\ Overlapped(d).update = call[d].update /\ Overlapped(d).entry = call[d].entry
             /\ Overlapped(d).alone => call[d].alone /\ call[d].user # u
  <2>1. call[d] \in Call
    BY DEF UserTypes
  <2> QED
    BY <2>1 DEF Call
<1> HIDE DEF first, Overlapped
<1>6. \A d \in Clients : call'[d] = IF d = c THEN first ELSE Overlapped(d)
  BY <1>3
<1>7. call' \in [Clients -> Call]
  BY <1>3, <1>4, <1>5
<1> QED
  BY <1>1, <1>3, <1>4, <1>5, <1>6, <1>7

\* A call goes on.
LEMMA CallGoesOn ==
  ASSUME UserTypes, NEW c \in Clients, NEW pc \in {"settings", "note", "updated"},
         call[c].user \in Emails, User!GoTo(c, pc)
  PROVE  /\ call' \in [Clients -> Call]
         /\ \A d \in Clients : FitCall(call'[d]) /\ (d # c => call'[d] = call[d])
         /\ call'[c].pc = pc /\ call'[c].user = call[c].user
         /\ call'[c].update = call[c].update /\ call'[c].alone = call[c].alone
<1> DEFINE r == [call[c] EXCEPT !.pc = pc]
<1>1. call[c] \in Call
  BY DEF UserTypes
<1>2. /\ r \in Call /\ r.pc = pc /\ r.user = call[c].user /\ r.update = call[c].update
      /\ r.alone = call[c].alone
  BY <1>1 DEF Call
<1>3. FitCall(r)
  BY <1>2 DEF FitCall
<1>4. call' = [call EXCEPT ![c] = r]
  BY DEF User!GoTo
<1> HIDE DEF r
<1> QED
  BY <1>2, <1>3, <1>4, CallReplaced

\* A call is answered.
LEMMA CallAnswered ==
  ASSUME UserTypes, NEW c \in Clients, User!Answer(c)
  PROVE  /\ call' \in [Clients -> Call]
         /\ \A d \in Clients : FitCall(call'[d]) /\ (d # c => call'[d] = call[d])
         /\ call'[c].pc = "quiet"
  BY CallReplaced, QuietFits DEF User!Answer

\* A change of the keys is to be noted.
LEMMA CallNoted ==
  ASSUME UserTypes, NEW c \in Clients, NEW action \in {"created", "deleted"}, NEW id \in Nat,
         User!Note(c, action, id)
  PROVE  /\ call' \in [Clients -> Call]
         /\ \A d \in Clients : FitCall(call'[d]) /\ (d # c => call'[d] = call[d])
         /\ call'[c].pc = "audit" /\ call'[c].entry = <<action, id>>
<1> DEFINE r == [User!Quiet EXCEPT !.pc = "audit", !.entry = <<action, id>>]
<1>1. <<action, id>> \in Entry
  BY DEF Entry
<1>2. r \in Call /\ r.pc = "audit" /\ r.entry = <<action, id>>
  BY <1>1 DEF Call, User!Quiet
<1>3. FitCall(r)
  BY <1>1, <1>2 DEF FitCall
<1>4. call' = [call EXCEPT ![c] = r]
  BY DEF User!Note
<1> HIDE DEF r
<1> QED
  BY <1>2, <1>3, <1>4, CallReplaced

\* What each step of the user service does to its variables.
LEMMA UserStepTypes ==
  ASSUME TypeOK, UserTypes, NEW c \in Clients, UserStep(c)
  PROVE  UserTypes'
<1> USE DEF User!Begin, User!Continue
<1>0. ASSUME call' \in [Clients -> Call], \A d \in Clients : FitCall(call'[d]),
             UNCHANGED <<profile, keys, nextID, audit>>
      PROVE  UserTypes'
  BY <1>0 DEF UserTypes, FitCall
<1>1. ASSUME NEW u \in users, User!UpdateProfile(c, u) PROVE UserTypes'
  <2>1. /\ call' \in [Clients -> Call] /\ u \in Emails
        /\ call'[c].pc = "name" /\ call'[c].user = u
        /\ \A d \in Clients : d # c =>
             /\ call'[d].pc = call[d].pc /\ call'[d].user = call[d].user
             /\ call'[d].entry = call[d].entry
        /\ UNCHANGED <<profile, keys, nextID, audit>>
    BY <1>1, UpdateBegins
  <2>2. \A d \in Clients : FitCall(call'[d])
    BY <2>1 DEF FitCall, UserTypes
  <2> QED
    BY <1>0, <2>1, <2>2
<1>2. ASSUME NEW u \in Emails, NEW row \in ProfileRow, User!StoreProfile(u, row),
             NEW pc \in {"settings", "note"}, u = call[c].user, User!GoTo(c, pc),
             UNCHANGED <<keys, nextID, audit>>
      PROVE  UserTypes'
  <2>1. DOMAIN profile' \subseteq Emails /\ profile' \in [DOMAIN profile' -> ProfileRow]
    BY <1>2, ProfileStored
  <2>2. call' \in [Clients -> Call] /\ \A d \in Clients : FitCall(call'[d])
    BY <1>2, CallGoesOn
  <2> QED
    BY <1>2, <2>1, <2>2 DEF UserTypes, FitCall
<1>3. CASE User!WriteName(c)
  <2> DEFINE row == [User!Profile(call[c].user) EXCEPT !.name = call[c].update]
  <2>1. call[c].user \in Emails /\ call[c].update \in Nat
    BY <1>3 DEF User!WriteName, UserTypes, Call
  <2>2. row \in ProfileRow
    BY <2>1, ProfileType DEF ProfileRow
  <2> QED
    BY <1>2, <1>3, <2>1, <2>2 DEF User!WriteName
<1>4. CASE User!UpsertSettings(c)
  <2> DEFINE row == [User!Profile(call[c].user) EXCEPT !.settings = call[c].update]
  <2>1. call[c].user \in Emails /\ call[c].update \in Nat
    BY <1>4 DEF User!UpsertSettings, UserTypes, Call
  <2>2. row \in ProfileRow
    BY <2>1, ProfileType DEF ProfileRow
  <2> QED
    BY <1>2, <1>4, <2>1, <2>2 DEF User!UpsertSettings
<1>5. CASE User!AnswerUpdate(c)
  <2>1. call[c].user \in Emails
    BY <1>5 DEF User!AnswerUpdate, UserTypes
  <2> QED
    BY <1>0, <1>5, <2>1, CallGoesOn DEF User!AnswerUpdate
<1>6. CASE User!UpdateFails(c)
  BY <1>0, <1>6, CallAnswered DEF User!UpdateFails
<1>7. ASSUME NEW u \in users, NEW x \in Contents, User!CreateAPIKey(c, u, x) PROVE UserTypes'
  <2>1. nextID' \in Nat /\ nextID' = nextID + 1 /\ u \in Emails
    BY <1>7 DEF User!CreateAPIKey, UserTypes, TypeOK
  <2>2. [id |-> nextID', user |-> u, content |-> x] \in Key
    BY <2>1 DEF Key
  <2>3. call' \in [Clients -> Call] /\ \A d \in Clients : FitCall(call'[d])
    BY <1>7, <2>1, CallNoted DEF User!CreateAPIKey
  <2> QED
    BY <1>7, <2>1, <2>2, <2>3 DEF User!CreateAPIKey, UserTypes, FitCall
<1>8. ASSUME NEW u \in users, NEW id \in 1..nextID, User!DeleteAPIKey(c, u, id)
      PROVE  UserTypes'
  <2>1. id \in Nat
    BY DEF UserTypes
  <2>2. call' \in [Clients -> Call] /\ \A d \in Clients : FitCall(call'[d])
    BY <1>8, <2>1, CallNoted DEF User!DeleteAPIKey
  <2>3. keys' \subseteq keys /\ UNCHANGED <<profile, nextID, audit>>
    BY <1>8 DEF User!DeleteAPIKey
  <2> QED
    BY <2>2, <2>3 DEF UserTypes, FitCall
<1>9. CASE User!WriteAuditLog(c)
  <2>1. call[c].entry \in Entry
    BY <1>9 DEF User!WriteAuditLog, UserTypes
  <2>2. audit' \in Seq(Entry)
    <3>1. audit \in Seq(Entry)
      BY DEF UserTypes
    <3>2. Append(audit, call[c].entry) \in Seq(Entry)
      BY ONLY <2>1, <3>1, AppendProperties
    <3> QED
      BY <1>9, <3>1, <3>2 DEF User!WriteAuditLog
  <2>3. call' \in [Clients -> Call] /\ \A d \in Clients : FitCall(call'[d])
    BY <1>9, CallAnswered DEF User!WriteAuditLog
  <2> QED
    BY <1>9, <2>2, <2>3 DEF User!WriteAuditLog, UserTypes, FitCall
<1> QED
  BY <1>1, <1>3, <1>4, <1>5, <1>6, <1>7, <1>8, <1>9 DEF UserStep, User!ServeUser

LEMMA AccountsKeepTypes ==
  TypeOK /\ UserTypes /\ [AccountsNext]_<<vars, userVars>> => UserTypes'
<1>1. UserTypes /\ UNCHANGED userVars => UserTypes'
  BY DEF userVars, UserTypes
<1> QED
  BY <1>1, AccountsSteps, UserStepTypes

LEMMA AccountsInitTypes == AccountsInit => TypeOK /\ UserTypes
<1> SUFFICES ASSUME AccountsInit PROVE UserTypes
  BY InitTypeOK DEF AccountsInit
<1>1. /\ users = {} /\ profile = [u \in users |-> User!NoProfile] /\ keys = {} /\ nextID = 0
      /\ audit = <<>> /\ call = [c \in Clients |-> User!Quiet]
  BY DEF AccountsInit, Init, User!Init
<1>2. DOMAIN profile = {} /\ profile \in [DOMAIN profile -> ProfileRow]
  BY <1>1
<1>3. \A c \in Clients : FitCall(call[c])
  BY <1>1, QuietFits
<1>4. call \in [Clients -> Call]
  BY <1>1, QuietFits DEF FitCall
<1> QED
  BY <1>1, <1>2, <1>3, <1>4 DEF UserTypes, FitCall

\* The variables of both services keep their types.
THEOREM AccountsTypeCorrect == AccountsSpec => [](TypeOK /\ UserTypes)
<1>1. TypeOK /\ [AccountsNext]_<<vars, userVars>> => TypeOK'
  <2> SUFFICES ASSUME TypeOK, [AccountsNext]_<<vars, userVars>> PROVE TypeOK'
    OBVIOUS
  <2>1. ASSUME NEW c \in Clients, UserStep(c) PROVE TypeOK'
    <3>1. /\ UNCHANGED <<now, users, roles, issued, minted, sessions, revoked, request,
                         restarts, loggedOut>>
          /\ started' \in {started, started + 1}
      BY <2>1, UserStepIsQuiet
    <3> QED
      BY <3>1 DEF TypeOK
  <2> QED
    BY <2>1, AccountsSteps, NextTypeOK
<1> QED
  BY <1>1, AccountsInitTypes, AccountsKeepTypes, PTL DEF AccountsSpec

-----------------------------------------------------------------------------
(* An answered update stands.                                              *)

\* No other update runs for the user of one that is alone.
LonelyUpdates ==
  \A c, d \in Clients :
    /\ c # d
    /\ call[c].alone /\ call[c].pc \in {"name", "settings", "note", "updated"}
    /\ call[d].pc \in {"name", "settings", "note"}
    => call[c].user # call[d].user

\* What an update that is alone has written is still there.
WrittenStands ==
  \A c \in Clients : call[c].alone =>
    /\ call[c].pc = "settings" =>
         call[c].user \in DOMAIN profile /\ profile[call[c].user].name = call[c].update
    /\ call[c].pc \in {"note", "updated"} =>
         /\ call[c].user \in DOMAIN profile
         /\ profile[call[c].user] = [name |-> call[c].update, settings |-> call[c].update]

UpdateInv == LonelyUpdates /\ WrittenStands

\* Calls that end, or go on beside an update that begins.
LEMMA UpdatesUntouched ==
  ASSUME UpdateInv, UNCHANGED profile,
         \A d \in Clients :
           \/ call'[d].pc \in {"quiet", "audit"}
           \/ /\ call'[d].pc = call[d].pc /\ call'[d].user = call[d].user
              /\ call'[d].update = call[d].update
              /\ call'[d].alone => call[d].alone
  PROVE  UpdateInv'
  BY DEF UpdateInv, LonelyUpdates, WrittenStands

LEMMA UserStepUpdateInv ==
  ASSUME TypeOK, UserTypes, UpdateInv, NEW c \in Clients, UserStep(c)
  PROVE  UpdateInv'
<1> USE DEF User!Begin, User!Continue
<1>1. ASSUME NEW u \in users, User!UpdateProfile(c, u) PROVE UpdateInv'
  <2>1. /\ call'[c].pc = "name" /\ call'[c].user = u
        /\ call'[c].alone => User!Updating(u) \ {c} = {}
        /\ \A d \in Clients : d # c =>
             /\ call'[d].pc = call[d].pc /\ call'[d].user = call[d].user
             /\ call'[d].update = call[d].update
             /\ call'[d].alone => call[d].alone /\ call[d].user # u
        /\ UNCHANGED profile
    BY <1>1, UpdateBegins
  <2>2. LonelyUpdates'
    <3> SUFFICES ASSUME NEW a \in Clients, NEW d \in Clients, a # d,
                        call'[a].alone, call'[a].pc \in {"name", "settings", "note", "updated"},
                        call'[d].pc \in {"name", "settings", "note"}
                 PROVE  call'[a].user # call'[d].user
      BY DEF LonelyUpdates
    <3>1. CASE a = c
      BY <2>1, <3>1 DEF User!Updating
    <3>2. CASE d = c
      BY <2>1, <3>2
    <3>3. CASE a # c /\ d # c
      BY <2>1, <3>3 DEF UpdateInv, LonelyUpdates
    <3> QED
      BY <3>1, <3>2, <3>3
  <2>3. WrittenStands'
    BY <2>1 DEF UpdateInv, WrittenStands
  <2> QED
    BY <2>2, <2>3 DEF UpdateInv
\* The writes of one update disturb no other that is alone.
<1>2. ASSUME NEW u \in Emails, NEW row \in ProfileRow, User!StoreProfile(u, row),
             NEW pc \in {"settings", "note"}, u = call[c].user, User!GoTo(c, pc),
             call[c].pc \in {"name", "settings"},
             call[c].alone => row.name = call[c].update,
             call[c].alone /\ pc = "note" =>
               row = [name |-> call[c].update, settings |-> call[c].update]
      PROVE  UpdateInv'
  <2>1. /\ u \in DOMAIN profile' /\ profile'[u] = row
        /\ DOMAIN profile \subseteq DOMAIN profile'
        /\ \A v \in DOMAIN profile : v # u => profile'[v] = profile[v]
    BY <1>2, ProfileStored
  <2>2. /\ \A d \in Clients : d # c => call'[d] = call[d]
        /\ call'[c].pc = pc /\ call'[c].user = u /\ call'[c].update = call[c].update
        /\ call'[c].alone = call[c].alone
    BY <1>2, CallGoesOn
  <2>3. LonelyUpdates'
    BY <1>2, <2>2 DEF UpdateInv, LonelyUpdates
  <2>4. ASSUME NEW d \in Clients, d # c, call[d].alone,
               call[d].pc \in {"settings", "note", "updated"}
        PROVE  call[d].user # u
    BY <1>2, <2>4 DEF UpdateInv, LonelyUpdates
  <2>5. WrittenStands'
    <3> SUFFICES ASSUME NEW d \in Clients, call'[d].alone
                 PROVE  /\ call'[d].pc = "settings" =>
                             /\ call'[d].user \in DOMAIN profile'
                             /\ profile'[call'[d].user].name = call'[d].update
                        /\ call'[d].pc \in {"note", "updated"} =>
                             /\ call'[d].user \in DOMAIN profile'
                             /\ profile'[call'[d].user] = [name |-> call'[d].update,
                                                           settings |-> call'[d].update]
      BY DEF WrittenStands
    <3>1. CASE d = c
      BY <1>2, <2>1, <2>2, <3>1
    <3>2. CASE d # c
      BY <2>1, <2>2, <2>4, <3>2 DEF UpdateInv, WrittenStands
    <3> QED
      BY <3>1, <3>2
  <2> QED
    BY <2>3, <2>5 DEF UpdateInv
<1>3. CASE User!WriteName(c)
  <2> DEFINE row == [User!Profile(call[c].user) EXCEPT !.name = call[c].update]
  <2>1. call[c].user \in Emails /\ call[c].update \in Nat /\ call[c].pc = "name"
    BY <1>3 DEF User!WriteName, UserTypes, Call
  <2>2. row \in ProfileRow /\ row.name = call[c].update
    BY <2>1, ProfileType DEF ProfileRow
  <2>3. User!StoreProfile(call[c].user, row) /\ User!GoTo(c, "settings")
    BY <1>3 DEF User!WriteName
  <2> HIDE DEF row
  <2> QED
    BY <1>2, <2>1, <2>2, <2>3
<1>4. CASE User!UpsertSettings(c)
  <2> DEFINE u == call[c].user
             n == call[c].update
             row == [User!Profile(u) EXCEPT !.settings = n]
  <2>1. u \in Emails /\ n \in Nat /\ call[c].pc = "settings"
    BY <1>4 DEF User!UpsertSettings, UserTypes, Call
  <2>2. User!StoreProfile(u, row) /\ User!GoTo(c, "note")
    BY <1>4 DEF User!UpsertSettings
  <2>3. call[c].alone => u \in DOMAIN profile /\ profile[u].name = n
    BY <2>1 DEF UpdateInv, WrittenStands
  <2>4. User!Profile(u) \in ProfileRow /\ (call[c].alone => User!Profile(u).name = n)
    BY <2>3, ProfileType DEF User!Profile
  <2>5. row \in ProfileRow /\ (call[c].alone => row = [name |-> n, settings |-> n])
    BY <2>1, <2>4 DEF ProfileRow
  <2>6. call[c].alone => row.name = n
    BY <2>5
  <2> HIDE DEF row
  <2> QED
    BY <1>2, <2>1, <2>2, <2>5, <2>6
<1>5. CASE User!AnswerUpdate(c)
  <2>1. call[c].pc = "note" /\ call[c].user \in Emails /\ UNCHANGED profile
    BY <1>5 DEF User!AnswerUpdate, UserTypes
  <2>2. /\ \A d \in Clients : d # c => call'[d] = call[d]
        /\ call'[c].pc = "updated" /\ call'[c].user = call[c].user
        /\ call'[c].update = call[c].update /\ call'[c].alone = call[c].alone
    BY <1>5, <2>1, CallGoesOn DEF User!AnswerUpdate
  <2> QED
    BY <2>1, <2>2 DEF UpdateInv, LonelyUpdates, WrittenStands
<1>6. ASSUME UNCHANGED profile, call'[c].pc \in {"quiet", "audit"},
             \A d \in Clients : d # c => call'[d] = call[d]
      PROVE  UpdateInv'
  BY <1>6, UpdatesUntouched
<1>7. CASE User!UpdateFails(c) \/ User!WriteAuditLog(c)
  BY <1>6, <1>7, CallAnswered DEF User!UpdateFails, User!WriteAuditLog
<1>8. ASSUME NEW u \in users, NEW x \in Contents, User!CreateAPIKey(c, u, x) PROVE UpdateInv'
  <2>1. nextID' \in Nat
    BY <1>8 DEF User!CreateAPIKey, UserTypes
  <2> QED
    BY <1>6, <1>8, <2>1, CallNoted DEF User!CreateAPIKey
<1>9. ASSUME NEW u \in users, NEW id \in 1..nextID, User!DeleteAPIKey(c, u, id)
      PROVE  UpdateInv'
  <2>1. id \in Nat
    BY DEF UserTypes
  <2> QED
    BY <1>6, <1>9, <2>1, CallNoted DEF User!DeleteAPIKey
<1> QED
  BY <1>1, <1>3, <1>4, <1>5, <1>7, <1>8, <1>9 DEF UserStep, User!ServeUser

\* An update that was answered, and that no other of its user overlapped, is what both
\* tables hold, whatever is written beside it (UpdateProfile).
THEOREM AnsweredUpdatesStand == AccountsSpec => []UpdateAnsweredStands
<1>1. AccountsInit => UpdateInv
  BY DEF AccountsInit, User!Init, User!Quiet, UpdateInv, LonelyUpdates, WrittenStands
<1>2. TypeOK /\ UserTypes /\ UpdateInv /\ [AccountsNext]_<<vars, userVars>> => UpdateInv'
  <2>1. UpdateInv /\ UNCHANGED userVars => UpdateInv'
    BY DEF userVars, UpdateInv, LonelyUpdates, WrittenStands
  <2> QED
    BY <2>1, AccountsSteps, UserStepUpdateInv
<1>3. UpdateInv => UpdateAnsweredStands
  BY DEF UpdateInv, WrittenStands, UpdateAnsweredStands, User!UpdateAnsweredStands
<1> QED
  BY <1>1, <1>2, <1>3, AccountsTypeCorrect, PTL DEF AccountsSpec

-----------------------------------------------------------------------------
(* Deletions are audited once.                                             *)

KeysAreUnique ==
  /\ \A k \in keys : k.id <= nextID
  /\ \A k, m \in keys : k.id = m.id => k = m

\* An entry that tells, or is to tell, of a deletion tells of a key that was there and
\* is not any more.
Gone(entry, rows, last) ==
  entry[1] = "deleted" => entry[2] <= last /\ \A k \in rows : k.id # entry[2]

\* No two entries tell of the same deletion, written or still to be written.
AuditInv ==
  /\ KeysAreUnique
  /\ \A i \in DOMAIN audit : Gone(audit[i], keys, nextID)
  /\ \A i, j \in DOMAIN audit : audit[i][1] = "deleted" /\ audit[j] = audit[i] => i = j
  /\ \A c \in Clients : call[c].pc = "audit" =>
       /\ Gone(call[c].entry, keys, nextID)
       /\ call[c].entry[1] = "deleted" =>
            /\ \A i \in DOMAIN audit : audit[i] # call[c].entry
            /\ \A d \in Clients : d # c /\ call[d].pc = "audit" => call[d].entry # call[c].entry

\* Steps that change neither the keys nor the entries, nor those still to be written.
LEMMA AuditUntouched ==
  ASSUME AuditInv, UNCHANGED <<keys, nextID, audit>>,
         \A d \in Clients : \/ call'[d].pc # "audit"
                            \/ call'[d].pc = call[d].pc /\ call'[d].entry = call[d].entry
  PROVE  AuditInv'
  BY DEF AuditInv, KeysAreUnique

\* A change of the keys after which the deletions told of are still true, and the one
\* to be told of is new.
LEMMA ChangeKeepsAudit ==
  ASSUME UserTypes, AuditInv, KeysAreUnique', audit' = audit, NEW c \in Clients,
         \A d \in Clients : d # c => call'[d] = call[d],
         Gone(call'[c].entry, keys', nextID'),
         \A entry \in Entry : Gone(entry, keys, nextID) => Gone(entry, keys', nextID'),
         call'[c].entry[1] = "deleted" =>
            \A entry \in Entry : Gone(entry, keys, nextID) => entry # call'[c].entry
  PROVE  AuditInv'
<1>1. \A i \in DOMAIN audit : audit[i] \in Entry /\ Gone(audit[i], keys, nextID)
  BY DEF UserTypes, AuditInv
<1>2. \A d \in Clients : call[d].pc = "audit" =>
        call[d].entry \in Entry /\ Gone(call[d].entry, keys, nextID)
  BY DEF UserTypes, AuditInv
<1>3. \A d \in Clients : call'[d].pc = "audit" => Gone(call'[d].entry, keys', nextID')
  BY <1>2
<1>4. \A i, j \in DOMAIN audit' :
        audit'[i][1] = "deleted" /\ audit'[j] = audit'[i] => i = j
  BY DEF AuditInv
<1>5. \A d \in Clients : call'[d].pc = "audit" /\ call'[d].entry[1] = "deleted" =>
        \A i \in DOMAIN audit : audit[i] # call'[d].entry
  BY <1>1, <1>2 DEF AuditInv
<1>6. \A d, f \in Clients :
        /\ call'[d].pc = "audit" /\ call'[d].entry[1] = "deleted"
        /\ f # d /\ call'[f].pc = "audit"
        => call'[f].entry # call'[d].entry
  BY <1>2 DEF AuditInv
<1>7. \A i \in DOMAIN audit' : Gone(audit'[i], keys', nextID')
  BY <1>1
<1> QED
  BY <1>3, <1>4, <1>5, <1>6, <1>7 DEF AuditInv

\* A new key takes a new id, which no entry tells of.
LEMMA CreateKeepsAudit ==
  ASSUME TypeOK, UserTypes, AuditInv, NEW c \in Clients, NEW u \in users, NEW x \in Contents,
         User!CreateAPIKey(c, u, x)
  PROVE  AuditInv'
<1> DEFINE id == nextID + 1
           key == [id |-> id, user |-> u, content |-> x]
<1>1. /\ nextID \in Nat /\ nextID' = id /\ keys' = keys \cup {key} /\ audit' = audit
      /\ User!Note(c, "created", id)
  BY DEF User!CreateAPIKey, UserTypes
<1>2. /\ \A d \in Clients : d # c => call'[d] = call[d]
      /\ call'[c].entry = <<"created", id>>
  BY <1>1, CallNoted
<1>3. \A k \in keys : k.id \in Nat /\ k.id <= nextID
  BY DEF UserTypes, Key, AuditInv, KeysAreUnique
<1>4. KeysAreUnique'
  BY <1>1, <1>3 DEF AuditInv, KeysAreUnique
<1>5. ASSUME NEW entry \in Entry, Gone(entry, keys, nextID)
      PROVE  Gone(entry, keys', nextID')
  <2>1. entry[2] \in Nat
    BY DEF Entry
  <2> QED
    BY <1>1, <1>5, <2>1 DEF Gone
<1>6. call'[c].entry[1] # "deleted"
  BY <1>2
<1>7. Gone(call'[c].entry, keys', nextID')
  BY <1>6 DEF Gone
<1> QED
  BY <1>1, <1>2, <1>4, <1>5, <1>6, <1>7, ChangeKeepsAudit

\* The row deleted was the only one of its id, and no entry told of its deletion.
LEMMA DeleteKeepsAudit ==
  ASSUME UserTypes, AuditInv, NEW c \in Clients, NEW u, NEW id \in 1..nextID,
         User!DeleteAPIKey(c, u, id)
  PROVE  AuditInv'
<1>1. id \in Nat /\ id <= nextID /\ nextID \in Nat
  BY DEF UserTypes
<1>2. PICK k \in keys : k.id = id /\ keys' = keys \ {k}
  BY DEF User!DeleteAPIKey
<1>3. nextID' = nextID /\ audit' = audit /\ User!Note(c, "deleted", id)
  BY DEF User!DeleteAPIKey
<1>4. /\ \A d \in Clients : d # c => call'[d] = call[d]
      /\ call'[c].entry = <<"deleted", id>>
  BY <1>1, <1>3, CallNoted
<1>5. KeysAreUnique' /\ \A m \in keys' : m.id # id
  BY <1>2, <1>3 DEF AuditInv, KeysAreUnique
<1>6. \A entry \in Entry :
        Gone(entry, keys, nextID) => Gone(entry, keys', nextID') /\ entry # <<"deleted", id>>
  BY <1>2, <1>3 DEF Gone
<1>7. Gone(<<"deleted", id>>, keys', nextID')
  BY <1>1, <1>3, <1>5 DEF Gone
<1> QED
  BY <1>3, <1>4, <1>5, <1>6, <1>7, ChangeKeepsAudit

\* The entry written is the one that was to be written.
LEMMA WriteKeepsAudit ==
  ASSUME UserTypes, AuditInv, NEW c \in Clients, User!WriteAuditLog(c)
  PROVE  AuditInv'
<1> DEFINE entry == call[c].entry
<1>1. /\ call[c].pc = "audit" /\ entry \in Entry /\ UNCHANGED <<keys, nextID>>
      /\ audit' = Append(audit, entry) \/ audit' = audit
      /\ User!Answer(c)
  BY DEF User!WriteAuditLog, User!Continue, UserTypes
<1>2. /\ \A d \in Clients : d # c => call'[d] = call[d]
      /\ call'[c].pc = "quiet"
  BY <1>1, CallAnswered
<1>3. CASE audit' = audit
  BY <1>1, <1>2, <1>3, AuditUntouched
<1>4. CASE audit' = Append(audit, entry)
  <2> DEFINE last == Len(audit) + 1
  <2>1. audit \in Seq(Entry) /\ entry \in Entry /\ Len(audit) \in Nat
    BY <1>1 DEF UserTypes
  <2>2. /\ Append(audit, entry) \in Seq(Entry) /\ Len(Append(audit, entry)) = last
        /\ \A i \in 1..Len(audit) : Append(audit, entry)[i] = audit[i]
        /\ Append(audit, entry)[last] = entry
    BY ONLY <2>1, AppendProperties
  <2>3. /\ DOMAIN audit' = DOMAIN audit \cup {last}
        /\ \A i \in DOMAIN audit : audit'[i] = audit[i]
        /\ audit'[last] = entry
    <3>1. DOMAIN audit' = 1..last /\ DOMAIN audit = 1..Len(audit)
      BY <1>4, <2>1, <2>2
    <3> QED
      BY <1>4, <2>1, <2>2, <3>1
  <2> HIDE DEF last, entry
  <2>4. /\ Gone(entry, keys, nextID)
        /\ entry[1] = "deleted" =>
             /\ \A i \in DOMAIN audit : audit[i] # entry
             /\ \A d \in Clients : d # c /\ call[d].pc = "audit" => call[d].entry # entry
    BY <1>1 DEF AuditInv, entry
  <2>5. \A i \in DOMAIN audit' : Gone(audit'[i], keys', nextID')
    BY <1>1, <2>3, <2>4 DEF AuditInv
  <2>6. \A i, j \in DOMAIN audit' :
          audit'[i][1] = "deleted" /\ audit'[j] = audit'[i] => i = j
    BY <2>3, <2>4 DEF AuditInv
  <2>7. ASSUME NEW d \in Clients, call'[d].pc = "audit"
        PROVE  /\ Gone(call'[d].entry, keys', nextID')
               /\ call'[d].entry[1] = "deleted" =>
                    /\ \A i \in DOMAIN audit' : audit'[i] # call'[d].entry
                    /\ \A f \in Clients : f # d /\ call'[f].pc = "audit" =>
                         call'[f].entry # call'[d].entry
    <3>1. d # c /\ call'[d] = call[d]
      BY <1>2, <2>7
    <3>2. call[d].entry[1] = "deleted" => entry # call[d].entry
      BY <2>4, <2>7, <3>1
    <3> QED
      BY <1>1, <1>2, <2>3, <2>7, <3>1, <3>2 DEF AuditInv
  <2>8. KeysAreUnique'
    BY <1>1 DEF AuditInv, KeysAreUnique
  <2> QED
    BY <2>5, <2>6, <2>7, <2>8 DEF AuditInv
<1> QED
  BY <1>1, <1>3, <1>4

LEMMA UserStepAuditInv ==
  ASSUME TypeOK, UserTypes, AuditInv, NEW c \in Clients, UserStep(c)
  PROVE  AuditInv'
<1>1. ASSUME NEW u \in users, User!UpdateProfile(c, u) PROVE AuditInv'
  BY <1>1, UpdateBegins, AuditUntouched
<1>2. ASSUME UNCHANGED <<keys, nextID, audit>>, call'[c].pc # "audit",
             \A d \in Clients : d # c => call'[d] = call[d]
      PROVE  AuditInv'
  BY <1>2, AuditUntouched
<1>3. CASE User!WriteName(c) \/ User!UpsertSettings(c) \/ User!AnswerUpdate(c)
  <2>1. PICK pc \in {"settings", "note", "updated"} : User!GoTo(c, pc)
    BY <1>3 DEF User!WriteName, User!UpsertSettings, User!AnswerUpdate
  <2>2. call[c].user \in Emails /\ UNCHANGED <<keys, nextID, audit>>
    BY <1>3 DEF User!WriteName, User!UpsertSettings, User!AnswerUpdate, User!Continue, UserTypes
  <2> QED
    BY <1>2, <2>1, <2>2, CallGoesOn
<1>4. CASE User!UpdateFails(c)
  BY <1>2, <1>4, CallAnswered DEF User!UpdateFails
<1> QED
  BY <1>1, <1>3, <1>4, CreateKeepsAudit, DeleteKeepsAudit, WriteKeepsAudit
  DEF UserStep, User!ServeUser

\* However deletions of one key race, one entry at most tells of it, and only once the
\* row is gone (DeleteAPIKey looks at the number of rows it deleted).
THEOREM DeletionsAreAuditedOnce == AccountsSpec => []DeletionsAuditedOnce
<1>1. AccountsInit => AuditInv
  BY DEF AccountsInit, User!Init, User!Quiet, AuditInv, KeysAreUnique
<1>2. TypeOK /\ UserTypes /\ AuditInv /\ [AccountsNext]_<<vars, userVars>> => AuditInv'
  <2>1. AuditInv /\ UNCHANGED userVars => AuditInv'
    BY DEF userVars, AuditInv, KeysAreUnique
  <2> QED
    BY <2>1, AccountsSteps, UserStepAuditInv
<1>3. AuditInv => DeletionsAuditedOnce
  BY DEF AuditInv, Gone, DeletionsAuditedOnce, User!DeletionsAuditedOnce
<1> QED
  BY <1>1, <1>2, <1>3, AccountsTypeCorrect, PTL DEF AccountsSpec

=============================================================================
