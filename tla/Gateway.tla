------------------------------- MODULE Gateway -------------------------------
(***************************************************************************)
(* The API gateway: the middleware chain, whose only state is the rate     *)
(* limiter (one fixed window per IP and one per user, behind a mutex) and  *)
(* two counters.  A request reads the clock before it waits for the mutex, *)
(* so that it may be judged by a time that has passed; MaxDelay bounds by  *)
(* how much.  The user of the limiter is whatever bearer token is sent.    *)
(***************************************************************************)
EXTENDS Naturals, Sequences, FiniteSets

CONSTANTS
    Clients,      \* goroutines serving requests
    IPs,
    Tokens,       \* bearer tokens sent
    NoToken,      \* no Authorization header
    JWTToken,     \* the token the gateway is configured with
    Paths,        \* "public", "profile" and "unknown"
    Window,       \* length of a window, one minute in the code
    IPLimit,      \* 100 in the code
    UserLimit,    \* 1000 in the code
    MaxDelay,     \* bound on the wait between the clock and the mutex
    MaxTime,      \* bound on the clock
    MaxRequests   \* bound on requests

ASSUME LimitsAssumption ==
    /\ Window \in Nat \ {0} /\ IPLimit \in Nat \ {0} /\ UserLimit \in Nat \ {0}
    /\ MaxDelay \in Nat /\ MaxDelay < Window
ASSUME PathsAssumption == Paths \subseteq {"public", "profile", "unknown"}
ASSUME TokenAssumption == NoToken \notin Tokens /\ JWTToken # NoToken

VARIABLES
    now,            \* the clock
    byIP, byUser,   \* key -> [windowStart, count], or NoBucket
    request,        \* goroutine -> [pc, ip, user, path, at]
    started,        \* requests that have reached the limiter
    requestCount, requestErrors,
    decided         \* every decision of the limiter: who, when, and what

vars == <<now, byIP, byUser, request, started, requestCount, requestErrors,
          decided>>

Users == Tokens \cup {NoToken}
NoBucket == [windowStart |-> 0, count |-> 0]
Idle == [pc |-> "idle", ip |-> CHOOSE i \in IPs : TRUE, user |-> NoToken,
         path |-> "public", at |-> 0]

Init ==
    /\ now = 0
    /\ byIP = [i \in IPs |-> NoBucket]
    /\ byUser = [u \in Tokens |-> NoBucket]
    /\ request = [c \in Clients |-> Idle]
    /\ started = 0
    /\ requestCount = 0 /\ requestErrors = 0
    /\ decided = <<>>

\* The clock stands still while a goroutine would wait longer than MaxDelay.
Tick ==
    /\ now < MaxTime
    /\ \A c \in Clients :
         request[c].pc = "limit" => now < request[c].at + MaxDelay
    /\ now' = now + 1
    /\ UNCHANGED <<byIP, byUser, request, started, requestCount, requestErrors,
                   decided>>

\* CORS answers an OPTIONS request before the limiter: it leaves no trace.
Arrive(c) ==
    /\ request[c].pc = "idle"
    /\ started < MaxRequests
    /\ started' = started + 1
    /\ \E i \in IPs, u \in Users, p \in Paths :
         request' = [request EXCEPT ![c] = [pc |-> "limit", ip |-> i, user |-> u,
                                            path |-> p, at |-> now]]
    /\ UNCHANGED <<now, byIP, byUser, requestCount, requestErrors, decided>>

-----------------------------------------------------------------------------
(* The limiter.  A bucket that does not exist has count 0, which no stored *)
(* one has.                                                                *)

\* Slip: a full bucket is opened anew.
OpensOrFull(bucket, at, limit) ==
    bucket.count = 0 \/ at >= bucket.windowStart + Window \/ bucket.count >= limit

\* A first request, or the first of a new window.
Opens(bucket, at, limit) ==
    bucket.count = 0 \/ at >= bucket.windowStart + Window

\* Slip: a bucket is judged by its count alone, its window by nobody.
AllowsInWindow(bucket, at, limit) == bucket.count < limit

Allows(bucket, at, limit) == Opens(bucket, at, limit) \/ bucket.count < limit

Counted(bucket, at, limit) ==
    IF Opens(bucket, at, limit) THEN [windowStart |-> at, count |-> 1]
    ELSE [bucket EXCEPT !.count = @ + 1]

Verdict(c) ==
    LET r == request[c] IN
    IF ~Allows(byIP[r.ip], r.at, IPLimit) THEN "ip"
    ELSE IF r.user # NoToken /\ ~Allows(byUser[r.user], r.at, UserLimit) THEN "user"
    ELSE "admitted"

\* The handlers: only /api/v1/profile asks for the configured token.
Served(r) ==
    \/ r.path = "public"
    \/ r.path = "profile" /\ r.user = JWTToken

\* allow, under the mutex.  The IP is counted before the user is looked at, and
\* stays counted when the user is refused.  An admitted request is then served
\* by a handler that touches nothing shared but the counter of errors.
Allow(c) ==
    LET r == request[c]
        verdict == Verdict(c) IN
    /\ r.pc = "limit"
    /\ byIP' = IF verdict = "ip" THEN byIP
               ELSE [byIP EXCEPT ![r.ip] = Counted(@, r.at, IPLimit)]
    /\ byUser' = IF verdict # "admitted" \/ r.user = NoToken THEN byUser
                 ELSE [byUser EXCEPT ![r.user] = Counted(@, r.at, UserLimit)]
    /\ decided' = Append(decided, [ip |-> r.ip, user |-> r.user, time |-> now,
                                   verdict |-> verdict])
    /\ requestCount' = requestCount + (IF verdict = "admitted" THEN 1 ELSE 0)
    /\ requestErrors' = requestErrors
                        + (IF verdict = "admitted" /\ Served(r) THEN 0 ELSE 1)
    /\ request' = [request EXCEPT ![c] = Idle]
    /\ UNCHANGED <<now, started>>

Next == Tick \/ \E c \in Clients : Arrive(c) \/ Allow(c)

Spec == Init /\ [][Next]_vars

-----------------------------------------------------------------------------

\* Decisions D made in the span of one window that begins at time t.
Within(D(_), t) ==
    {k \in DOMAIN decided : D(decided[k]) /\ decided[k].time \in t..(t + Window - 1)}

\* In no span of one window are three limits of requests admitted of one IP or
\* of one user: a window that is closing gives all but its first request, the one
\* that follows all, and, when requests that waited for the mutex have opened it
\* in the past, the next one all of its own.
SpanIsBounded ==
    \A t \in 0..MaxTime :
        /\ \A i \in IPs :
             LET Of(d) == d.ip = i /\ d.verdict = "admitted" IN
             Cardinality(Within(Of, t)) < 3 * IPLimit
        /\ \A u \in Tokens :
             LET Of(d) == d.user = u /\ d.verdict = "admitted" IN
             Cardinality(Within(Of, t)) < 3 * UserLimit

\* A request is refused for its IP, or for its user, only when as many requests
\* of that IP or user as the limit allows passed that check in the last window,
\* give or take the wait for the mutex: nobody is refused for what was done in
\* a window that is over.
RefusedOnlyWhenFull ==
    \A k \in DOMAIN decided :
        LET d == decided[k]
            Recent(e) == e.time + Window + MaxDelay > d.time IN
        /\ d.verdict = "ip" =>
             Cardinality({j \in 1..(k - 1) : /\ decided[j].ip = d.ip
                                             /\ decided[j].verdict # "ip"
                                             /\ Recent(decided[j])}) >= IPLimit
        /\ d.verdict = "user" =>
             Cardinality({j \in 1..(k - 1) : /\ decided[j].user = d.user
                                             /\ decided[j].verdict = "admitted"
                                             /\ Recent(decided[j])}) >= UserLimit
=============================================================================
