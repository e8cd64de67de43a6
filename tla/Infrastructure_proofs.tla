------------------------ MODULE Infrastructure_proofs ------------------------
(***************************************************************************)
(* Proofs about what stands before and between the services: the rate      *)
(* limiter of the gateway, and the consume loop of the broker package.     *)
(*                                                                         *)
(* How many requests of one client the limiter lets through in the span of *)
(* a window, and for what it refuses one, both rest on one invariant about *)
(* a bucket, BucketInv, which is stated and proved of any bucket before it *)
(* is used of those of the IPs and of those of the users.  The consume     *)
(* loop comes last: it implements at-least-once delivery.                  *)
(***************************************************************************)
EXTENDS Gateway, KafkaConsumer, FiniteSetTheorems, SequenceTheorems, TLAPS

Buckets == [windowStart : Nat, count : Nat]
Requests == [pc : {"idle", "limit"}, ip : IPs \cup {Idle.ip}, user : Users,
             path : Paths \cup {"public"}, at : Nat]
Decisions == [ip : IPs, user : Users, time : Nat,
              verdict : {"admitted", "ip", "user"}]

TypeOK ==
    /\ now \in Nat
    /\ byIP \in [IPs -> Buckets]
    /\ byUser \in [Tokens -> Buckets]
    /\ request \in [Clients -> Requests]
    /\ \A c \in Clients : request[c].pc = "limit" => request[c].ip \in IPs
    /\ started \in Nat
    /\ requestCount \in Nat /\ requestErrors \in Nat
    /\ decided \in Seq(Decisions)

\* No request waits for the mutex longer than MaxDelay.
WaitIsBounded ==
    \A c \in Clients :
        request[c].pc = "limit" =>
            /\ request[c].at <= now
            /\ now <= request[c].at + MaxDelay

-----------------------------------------------------------------------------
(* A bucket, and the requests S it has counted in a log of decisions.      *)

Since(seq, S, t) == {j \in S : seq[j].time >= t}
Span(seq, S, t) == {j \in S : seq[j].time \in t..(t + Window - 1)}

\* How many requests the span from t has, by where the window of the bucket lies.
SpanBound(b, limit, t, n, A) ==
    /\ b.count = 0 => A = 0
    /\ n < t => A = 0
    /\ b.windowStart + MaxDelay < t /\ b.count > 0 => A <= b.count - 1
    /\ b.windowStart <= t => A <= limit - 1 + b.count
    /\ b.windowStart < t + Window => A <= 2 * limit - 1 + b.count
    /\ A <= 3 * limit - 1

BucketInv(b, S, limit, seq, n) ==
    /\ b.count <= limit
    /\ b.windowStart <= n
    /\ b.count <= Cardinality(Since(seq, S, b.windowStart))
    /\ \A t \in Nat : SpanBound(b, limit, t, n, Cardinality(Span(seq, S, t)))

\* A set of places in a log is finite, and a new place is one more.
LEMMA PlacesAreFinite ==
    ASSUME NEW seq \in Seq(Decisions), NEW S \in SUBSET (DOMAIN seq)
    PROVE  /\ IsFiniteSet(S)
           /\ Cardinality(S) \in Nat
           /\ Cardinality(S \cup {Len(seq) + 1}) = Cardinality(S) + 1
           /\ \A T \in SUBSET S : IsFiniteSet(T) /\ Cardinality(T) \in Nat
                                  /\ Cardinality(T) <= Cardinality(S)
<1>1. DOMAIN seq = 1..Len(seq) /\ Len(seq) \in Nat
  OBVIOUS
<1>2. IsFiniteSet(1..Len(seq))
  BY <1>1, FS_Interval
<1>3. IsFiniteSet(S) /\ Cardinality(S) \in Nat
  BY <1>1, <1>2, FS_Subset, FS_CardinalityType
<1>4. Len(seq) + 1 \notin S
  BY <1>1
<1>5. Cardinality(S \cup {Len(seq) + 1}) = Cardinality(S) + 1
  BY <1>3, <1>4, FS_AddElement
<1>6. ASSUME NEW T \in SUBSET S
      PROVE  IsFiniteSet(T) /\ Cardinality(T) \in Nat /\ Cardinality(T) <= Cardinality(S)
  BY <1>3, FS_Subset, FS_CardinalityType
<1> QED
  BY <1>3, <1>5, <1>6

\* What a log says of its old places is not changed by a decision more.
LEMMA AppendKeeps ==
    ASSUME NEW seq \in Seq(Decisions), NEW d \in Decisions
    PROVE  /\ Append(seq, d) \in Seq(Decisions)
           /\ DOMAIN Append(seq, d) = DOMAIN seq \cup {Len(seq) + 1}
           /\ \A j \in DOMAIN seq : Append(seq, d)[j] = seq[j]
           /\ Append(seq, d)[Len(seq) + 1] = d
           /\ Len(seq) + 1 \notin DOMAIN seq
  OBVIOUS

\* The empty log.
LEMMA BucketInit ==
    ASSUME NEW limit \in Nat \ {0}
    PROVE  BucketInv(NoBucket, {}, limit, <<>>, 0)
<1>1. /\ Since(<<>>, {}, NoBucket.windowStart) = {}
      /\ \A t \in Nat : Span(<<>>, {}, t) = {}
  BY DEF Since, Span
<1>2. Cardinality({}) = 0
  BY FS_EmptySet
<1>3. \A t \in Nat : SpanBound(NoBucket, limit, t, 0, 0)
  BY LimitsAssumption DEF SpanBound, NoBucket
<1>4. NoBucket.count = 0 /\ NoBucket.windowStart = 0
  BY DEF NoBucket
<1>5. NoBucket.count <= limit /\ NoBucket.windowStart <= 0
  BY <1>4
<1>6. NoBucket.count <= Cardinality(Since(<<>>, {}, NoBucket.windowStart))
  BY <1>1, <1>2, <1>4
<1>7. \A t \in Nat : SpanBound(NoBucket, limit, t, 0, Cardinality(Span(<<>>, {}, t)))
  BY <1>1, <1>2, <1>3
<1> QED
  BY <1>5, <1>6, <1>7 DEF BucketInv

\* A decision that the bucket did not count.
LEMMA BucketUncounted ==
    ASSUME NEW seq \in Seq(Decisions), NEW d \in Decisions,
           NEW S \in SUBSET (DOMAIN seq), NEW b, NEW limit, NEW n,
           BucketInv(b, S, limit, seq, n)
    PROVE  BucketInv(b, S, limit, Append(seq, d), n)
<1>1. \A j \in S : Append(seq, d)[j] = seq[j]
  BY AppendKeeps
<1>2. Since(Append(seq, d), S, b.windowStart) = Since(seq, S, b.windowStart)
  BY <1>1 DEF Since
<1>3. \A t \in Nat : Span(Append(seq, d), S, t) = Span(seq, S, t)
  BY <1>1 DEF Span
<1> QED
  BY <1>2, <1>3 DEF BucketInv

\* The clock ticks.
LEMMA BucketTicked ==
    ASSUME NEW seq \in Seq(Decisions), NEW S \in SUBSET (DOMAIN seq),
           NEW b \in Buckets, NEW limit \in Nat \ {0}, NEW n \in Nat,
           BucketInv(b, S, limit, seq, n)
    PROVE  BucketInv(b, S, limit, seq, n + 1)
<1>1. ASSUME NEW t \in Nat
      PROVE  SpanBound(b, limit, t, n + 1, Cardinality(Span(seq, S, t)))
  <2> DEFINE A == Cardinality(Span(seq, S, t))
  <2>1. SpanBound(b, limit, t, n, A)
    BY DEF BucketInv
  <2>2. n + 1 < t => n < t
    OBVIOUS
  <2> HIDE DEF A
  <2>3. SpanBound(b, limit, t, n + 1, A)
    BY <2>1, <2>2 DEF SpanBound
  <2> QED
    BY <2>3 DEF A
<1>2. b.windowStart <= n + 1
  BY DEF BucketInv, Buckets
<1> QED
  BY <1>1, <1>2 DEF BucketInv

\* The arithmetic of the bounds: a bucket counts, at a time n, a request that read
\* the clock at a time at, and the span from t has A more requests than before.
LEMMA SpanArithmetic ==
    ASSUME NEW b \in Buckets, NEW limit \in Nat \ {0}, NEW n \in Nat, NEW at \in Nat,
           NEW t \in Nat, NEW A \in Nat, NEW B \in Nat,
           at <= n, n <= at + MaxDelay,
           b.count <= limit, b.windowStart <= n,
           Allows(b, at, limit),
           SpanBound(b, limit, t, n, A),
           B = IF n \in t..(t + Window - 1) THEN A + 1 ELSE A
    PROVE  SpanBound(Counted(b, at, limit), limit, t, n, B)
<1> DEFINE w == b.windowStart
           k == b.count
<1>0. /\ w \in Nat /\ k \in Nat /\ k <= limit /\ w <= n
      /\ Window \in Nat /\ MaxDelay \in Nat /\ MaxDelay < Window
  BY LimitsAssumption DEF Buckets
<1>1. n < t => B = 0
  BY <1>0 DEF SpanBound
<1>2. n >= t + Window => B = A
  BY <1>0
<1>3. B <= A + 1
  OBVIOUS
<1>a. CASE Opens(b, at, limit)
  <2>1. Counted(b, at, limit) = [windowStart |-> at, count |-> 1]
    BY <1>a DEF Counted
  <2>2. k = 0 \/ at >= w + Window
    BY <1>a DEF Opens
  <2>3. at + MaxDelay < t => B <= 0
    BY <1>0, <1>1
  <2>4. at <= t => B <= limit
    <3>1. CASE k = 0
      BY <3>1, <1>3, <1>0 DEF SpanBound
    <3>2. CASE k > 0 /\ at >= w + Window
      <4>1. at <= t => w + MaxDelay < t
        BY <3>2, <1>0
      <4> QED
        BY <3>2, <4>1, <1>0, <1>3 DEF SpanBound
    <3> QED
      BY <3>1, <3>2, <2>2, <1>0
  <2>5. at < t + Window => B <= 2 * limit
    <3>1. CASE k = 0
      BY <3>1, <1>3, <1>0 DEF SpanBound
    <3>2. CASE k > 0 /\ at >= w + Window
      <4>1. at < t + Window => w <= t
        BY <3>2, <1>0
      <4> QED
        BY <3>2, <4>1, <1>0, <1>3 DEF SpanBound
    <3> QED
      BY <3>1, <3>2, <2>2, <1>0
  <2>6. B <= 3 * limit - 1
    <3>1. CASE at < t + Window
      BY <3>1, <2>5
    <3>2. CASE at >= t + Window
      BY <3>2, <1>2, <1>0 DEF SpanBound
    <3> QED
      BY <3>1, <3>2, <1>0
  <2> QED
    BY <2>1, <2>3, <2>4, <2>5, <2>6, <1>1 DEF SpanBound
<1>b. CASE ~Opens(b, at, limit)
  <2>1. Counted(b, at, limit) = [windowStart |-> w, count |-> k + 1]
    BY <1>b DEF Counted, Buckets
  <2>2. k > 0 /\ k < limit
    BY <1>b, <1>0 DEF Opens, Allows
  <2>3. w + MaxDelay < t => B <= k
    BY <2>2, <1>0, <1>3 DEF SpanBound
  <2>4. w <= t => B <= limit + k
    BY <2>2, <1>0, <1>3 DEF SpanBound
  <2>5. w < t + Window => B <= 2 * limit + k
    BY <2>2, <1>0, <1>3 DEF SpanBound
  <2>6. B <= 3 * limit - 1
    <3>1. CASE w < t + Window
      BY <3>1, <2>2, <1>0, <1>3 DEF SpanBound
    <3>2. CASE w >= t + Window
      BY <3>2, <1>2, <1>0 DEF SpanBound
    <3> QED
      BY <3>1, <3>2, <1>0
  <2> QED
    BY <2>1, <2>2, <2>3, <2>4, <2>5, <2>6, <1>1, <1>0 DEF SpanBound
<1> QED
  BY <1>a, <1>b

\* A decision that the bucket counted.
LEMMA BucketCounted ==
    ASSUME NEW seq \in Seq(Decisions), NEW d \in Decisions,
           NEW S \in SUBSET (DOMAIN seq),
           NEW b \in Buckets, NEW limit \in Nat \ {0}, NEW at \in Nat,
           at <= d.time, d.time <= at + MaxDelay,
           Allows(b, at, limit),
           BucketInv(b, S, limit, seq, d.time)
    PROVE  BucketInv(Counted(b, at, limit), S \cup {Len(seq) + 1}, limit,
                     Append(seq, d), d.time)
<1> DEFINE n == d.time
           T == S \cup {Len(seq) + 1}
           long == Append(seq, d)
           c == Counted(b, at, limit)
<1>0. n \in Nat /\ b.windowStart \in Nat /\ b.count \in Nat /\ c \in Buckets
  BY DEF Decisions, Buckets, Counted
<1>1. /\ \A j \in S : long[j] = seq[j]
      /\ long[Len(seq) + 1] = d
      /\ long \in Seq(Decisions) /\ T \in SUBSET (DOMAIN long)
      /\ Len(seq) + 1 \notin S
  BY AppendKeeps
<1>2. ASSUME NEW t \in Nat
      PROVE  Since(seq, S, t) \in SUBSET (DOMAIN seq) /\ Span(seq, S, t) \in SUBSET (DOMAIN seq)
  BY DEF Since, Span
<1>3. ASSUME NEW t \in Nat, t <= n
      PROVE  Since(long, T, t) = Since(seq, S, t) \cup {Len(seq) + 1}
  BY <1>1, <1>3 DEF Since
<1>4. ASSUME NEW t \in Nat
      PROVE  Span(long, T, t) = IF n \in t..(t + Window - 1)
                                THEN Span(seq, S, t) \cup {Len(seq) + 1}
                                ELSE Span(seq, S, t)
  BY <1>1 DEF Span
<1>5. c.count <= limit /\ c.windowStart <= n
  <2>1. CASE Opens(b, at, limit)
    BY <2>1 DEF Counted
  <2>2. CASE ~Opens(b, at, limit)
    <3>1. c = [b EXCEPT !.count = @ + 1] /\ b.count < limit
      BY <2>2 DEF Counted, Allows
    <3> QED
      BY <3>1, <1>0 DEF BucketInv, Buckets
  <2> QED
    BY <2>1, <2>2
<1>6. c.count <= Cardinality(Since(long, T, c.windowStart))
  <2> DEFINE w == c.windowStart
  <2>1. w \in Nat /\ w <= n
    BY <1>0, <1>5 DEF Buckets
  <2>2. Cardinality(Since(long, T, w)) = Cardinality(Since(seq, S, w)) + 1
    BY <2>1, <1>2, <1>3, PlacesAreFinite
  <2>3. Cardinality(Since(seq, S, w)) \in Nat
    BY <2>1, <1>2, PlacesAreFinite
  <2>4. CASE Opens(b, at, limit)
    <3>1. c.count = 1
      BY <2>4 DEF Counted
    <3> QED
      BY <3>1, <2>2, <2>3
  <2>5. CASE ~Opens(b, at, limit)
    <3>1. w = b.windowStart /\ c.count = b.count + 1
      BY <2>5 DEF Counted, Buckets
    <3>2. b.count <= Cardinality(Since(seq, S, w))
      BY <3>1 DEF BucketInv
    <3> QED
      BY <3>1, <3>2, <2>2, <2>3, <1>0
  <2> QED
    BY <2>4, <2>5
<1>7. ASSUME NEW t \in Nat
      PROVE  SpanBound(c, limit, t, n, Cardinality(Span(long, T, t)))
  <2> DEFINE A == Cardinality(Span(seq, S, t))
             B == Cardinality(Span(long, T, t))
  <2>1. A \in Nat
    BY <1>2, PlacesAreFinite
  <2>2. B = IF n \in t..(t + Window - 1) THEN A + 1 ELSE A
    BY <1>2, <1>4, PlacesAreFinite
  <2>3. B \in Nat
    BY <2>1, <2>2
  <2>4. SpanBound(b, limit, t, n, A) /\ b.count <= limit /\ b.windowStart <= n
    BY DEF BucketInv
  <2> HIDE DEF A, B
  <2>5. SpanBound(c, limit, t, n, B)
    BY <2>1, <2>2, <2>3, <2>4, <1>0, SpanArithmetic
  <2> QED
    BY <2>5 DEF B
<1> QED
  BY <1>5, <1>6, <1>7 DEF BucketInv

\* A bucket that refuses has counted its limit in the window and the wait.
LEMMA FullBucket ==
    ASSUME NEW seq \in Seq(Decisions), NEW S \in SUBSET (DOMAIN seq),
           NEW b \in Buckets, NEW limit \in Nat \ {0}, NEW n \in Nat, NEW at \in Nat,
           n <= at + MaxDelay,
           ~Allows(b, at, limit),
           BucketInv(b, S, limit, seq, n),
           NEW Q \in SUBSET (DOMAIN seq),
           \A j \in S : seq[j].time + Window + MaxDelay > n => j \in Q
    PROVE  Cardinality(Q) >= limit
<1> DEFINE w == b.windowStart
           P == Since(seq, S, w)
<1>1. w \in Nat /\ b.count \in Nat
  BY DEF Buckets
<1>2. b.count >= limit /\ at < w + Window
  <2> HIDE DEF w
  <2>1. ~(b.count < limit) /\ ~(at >= w + Window)
    BY DEF Allows, Opens, w
  <2> QED
    BY <1>1, <2>1, LimitsAssumption
<1>3. b.count <= Cardinality(P)
  BY DEF BucketInv
<1>4. ASSUME NEW j \in S, seq[j].time >= w
      PROVE  seq[j].time + Window + MaxDelay > n
  <2> DEFINE time == seq[j].time
  <2>1. seq[j] \in Decisions
    OBVIOUS
  <2>2. time \in Nat
    BY <2>1 DEF Decisions
  <2> HIDE DEF time, w
  <2>3. time >= w
    BY <1>4 DEF time
  <2>4. time + Window + MaxDelay > n
    BY <1>1, <1>2, <2>2, <2>3, LimitsAssumption
  <2> QED
    BY <2>4 DEF time
<1>5. P \in SUBSET (DOMAIN seq) /\ P \in SUBSET Q
  BY <1>4 DEF Since
<1> HIDE DEF P
<1>6. Cardinality(P) \in Nat /\ Cardinality(Q) \in Nat /\ Cardinality(P) <= Cardinality(Q)
  BY <1>5, PlacesAreFinite
<1> QED
  BY <1>1, <1>2, <1>3, <1>6

-----------------------------------------------------------------------------
(* The limiter.                                                            *)

\* The decisions that the buckets have counted.
PassedIP(i) == {j \in DOMAIN decided : decided[j].ip = i /\ decided[j].verdict # "ip"}
PassedUser(u) ==
    {j \in DOMAIN decided : decided[j].user = u /\ decided[j].verdict = "admitted"}

LimiterInv ==
    /\ \A i \in IPs : BucketInv(byIP[i], PassedIP(i), IPLimit, decided, now)
    /\ \A u \in Tokens : BucketInv(byUser[u], PassedUser(u), UserLimit, decided, now)

LEMMA InitTypeOK == Init => TypeOK
<1> SUFFICES ASSUME Init PROVE TypeOK
  OBVIOUS
<1>1. NoBucket \in Buckets
  BY DEF NoBucket, Buckets
<1>2. Idle \in Requests /\ Idle.pc = "idle"
  BY DEF Idle, Requests, Users
<1>3. decided \in Seq(Decisions)
  BY DEF Init
<1> QED
  BY <1>1, <1>2, <1>3 DEF Init, TypeOK

\* What a decision is.
LEMMA AllowFacts ==
    ASSUME TypeOK, NEW c \in Clients, Allow(c)
    PROVE  /\ request[c] \in Requests /\ request[c].ip \in IPs
           /\ request[c].pc = "limit" /\ request[c].at \in Nat
           /\ [ip |-> request[c].ip, user |-> request[c].user, time |-> now,
               verdict |-> Verdict(c)] \in Decisions
           /\ Verdict(c) # "ip" => Allows(byIP[request[c].ip], request[c].at, IPLimit)
           /\ Verdict(c) = "admitted" /\ request[c].user # NoToken =>
                /\ request[c].user \in Tokens
                /\ Allows(byUser[request[c].user], request[c].at, UserLimit)
           /\ Verdict(c) = "ip" => ~Allows(byIP[request[c].ip], request[c].at, IPLimit)
           /\ Verdict(c) = "user" =>
                /\ request[c].user \in Tokens
                /\ ~Allows(byUser[request[c].user], request[c].at, UserLimit)
<1>1. /\ request[c] \in Requests /\ request[c].ip \in IPs
      /\ request[c].pc = "limit"
  BY DEF TypeOK, Allow
<1>2. request[c].at \in Nat /\ request[c].user \in Users
  BY <1>1 DEF Requests
<1>3. request[c].user # NoToken => request[c].user \in Tokens
  BY <1>2 DEF Users
<1>4. Verdict(c) \in {"admitted", "ip", "user"}
  BY DEF Verdict
<1>5. now \in Nat
  BY DEF TypeOK
<1>6. [ip |-> request[c].ip, user |-> request[c].user, time |-> now,
       verdict |-> Verdict(c)] \in Decisions
  BY <1>1, <1>2, <1>4, <1>5 DEF Decisions
<1> QED
  BY <1>1, <1>2, <1>3, <1>6 DEF Verdict

LEMMA CountedType ==
    ASSUME NEW b \in Buckets, NEW at \in Nat, NEW limit
    PROVE  Counted(b, at, limit) \in Buckets
  BY DEF Counted, Buckets

LEMMA NextTypeOK == TypeOK /\ [Next]_vars => TypeOK'
<1> SUFFICES ASSUME TypeOK, [Next]_vars PROVE TypeOK'
  OBVIOUS
<1>0. Idle \in Requests /\ Idle.pc = "idle"
  BY DEF Idle, Requests, Users
<1>1. CASE Tick
  BY <1>1 DEF Tick, TypeOK
<1>2. ASSUME NEW c \in Clients, Arrive(c) PROVE TypeOK'
  <2> PICK i \in IPs, u \in Users, p \in Paths :
         request' = [request EXCEPT ![c] = [pc |-> "limit", ip |-> i, user |-> u,
                                            path |-> p, at |-> now]]
    BY <1>2 DEF Arrive
  <2>1. [pc |-> "limit", ip |-> i, user |-> u, path |-> p, at |-> now] \in Requests
    BY DEF Requests, TypeOK
  <2>2. request' \in [Clients -> Requests]
    BY <2>1 DEF TypeOK
  <2>3. \A e \in Clients : request'[e].pc = "limit" => request'[e].ip \in IPs
    BY DEF TypeOK
  <2> QED
    BY <1>2, <2>2, <2>3 DEF Arrive, TypeOK
<1>3. ASSUME NEW c \in Clients, Allow(c) PROVE TypeOK'
  <2>1. decided' \in Seq(Decisions)
    BY <1>3, AllowFacts, AppendKeeps DEF TypeOK, Allow
  <2>2. request' \in [Clients -> Requests]
    BY <1>0, <1>3 DEF TypeOK, Allow
  <2>3. \A e \in Clients : request'[e].pc = "limit" => request'[e].ip \in IPs
    BY <1>0, <1>3 DEF TypeOK, Allow
  <2>4. byIP' \in [IPs -> Buckets]
    BY <1>3, AllowFacts, CountedType DEF TypeOK, Allow
  <2>5. byUser' \in [Tokens -> Buckets]
    BY <1>3, AllowFacts, CountedType DEF TypeOK, Allow
  <2>6. requestCount' \in Nat /\ requestErrors' \in Nat
    BY <1>3 DEF TypeOK, Allow
  <2> QED
    BY <1>3, <2>1, <2>2, <2>3, <2>4, <2>5, <2>6 DEF TypeOK, Allow
<1>4. CASE UNCHANGED vars
  BY <1>4 DEF vars, TypeOK
<1> QED
  BY <1>1, <1>2, <1>3, <1>4 DEF Next

LEMMA NextWaitIsBounded == TypeOK /\ WaitIsBounded /\ [Next]_vars => WaitIsBounded'
<1> SUFFICES ASSUME TypeOK, WaitIsBounded, [Next]_vars PROVE WaitIsBounded'
  OBVIOUS
<1>0. Idle.pc = "idle" /\ now \in Nat /\ MaxDelay \in Nat
  BY LimitsAssumption DEF Idle, TypeOK
<1>1. CASE Tick
  <2> SUFFICES ASSUME NEW e \in Clients, request[e].pc = "limit"
               PROVE  request[e].at <= now + 1 /\ now + 1 <= request[e].at + MaxDelay
    BY <1>1 DEF Tick, WaitIsBounded
  <2>1. request[e].at \in Nat
    BY DEF TypeOK, Requests
  <2>2. request[e].at <= now /\ now < request[e].at + MaxDelay
    BY <1>1 DEF Tick, WaitIsBounded
  <2> QED
    BY <1>0, <2>1, <2>2
<1>2. ASSUME NEW c \in Clients, Arrive(c) PROVE WaitIsBounded'
  BY <1>0, <1>2 DEF Arrive, WaitIsBounded, TypeOK
<1>3. ASSUME NEW c \in Clients, Allow(c) PROVE WaitIsBounded'
  BY <1>0, <1>3 DEF Allow, WaitIsBounded, TypeOK
<1>4. CASE UNCHANGED vars
  BY <1>4 DEF vars, WaitIsBounded
<1> QED
  BY <1>1, <1>2, <1>3, <1>4 DEF Next

\* A decision adds its place to what the IP, and the user, of its request passed.
LEMMA PassedAppend ==
    ASSUME TypeOK, NEW d \in Decisions, decided' = Append(decided, d)
    PROVE  /\ \A i \in IPs :
                PassedIP(i)' = IF d.ip = i /\ d.verdict # "ip"
                               THEN PassedIP(i) \cup {Len(decided) + 1} ELSE PassedIP(i)
           /\ \A u \in Tokens :
                PassedUser(u)' = IF d.user = u /\ d.verdict = "admitted"
                                 THEN PassedUser(u) \cup {Len(decided) + 1}
                                 ELSE PassedUser(u)
<1>1. /\ DOMAIN decided' = DOMAIN decided \cup {Len(decided) + 1}
      /\ \A j \in DOMAIN decided : decided'[j] = decided[j]
      /\ decided'[Len(decided) + 1] = d
      /\ Len(decided) + 1 \notin DOMAIN decided
  BY AppendKeeps DEF TypeOK
<1> QED
  BY <1>1 DEF PassedIP, PassedUser

LEMMA NextLimiterInv ==
    TypeOK /\ WaitIsBounded /\ LimiterInv /\ [Next]_vars => LimiterInv'
<1> SUFFICES ASSUME TypeOK, WaitIsBounded, LimiterInv, [Next]_vars PROVE LimiterInv'
  OBVIOUS
<1>0. /\ decided \in Seq(Decisions) /\ now \in Nat
      /\ \A i \in IPs : byIP[i] \in Buckets /\ PassedIP(i) \in SUBSET (DOMAIN decided)
      /\ \A u \in Tokens : byUser[u] \in Buckets /\ PassedUser(u) \in SUBSET (DOMAIN decided)
      /\ IPLimit \in Nat \ {0} /\ UserLimit \in Nat \ {0}
  BY LimitsAssumption DEF TypeOK, PassedIP, PassedUser
<1>1. CASE Tick
  <2>1. /\ \A i \in IPs : byIP'[i] = byIP[i] /\ PassedIP(i)' = PassedIP(i)
        /\ \A u \in Tokens : byUser'[u] = byUser[u] /\ PassedUser(u)' = PassedUser(u)
        /\ decided' = decided /\ now' = now + 1
    BY <1>1 DEF Tick, PassedIP, PassedUser
  <2>2. \A i \in IPs : BucketInv(byIP[i], PassedIP(i), IPLimit, decided, now + 1)
    BY <1>0, BucketTicked DEF LimiterInv
  <2>3. \A u \in Tokens : BucketInv(byUser[u], PassedUser(u), UserLimit, decided, now + 1)
    BY <1>0, BucketTicked DEF LimiterInv
  <2> QED
    BY <2>1, <2>2, <2>3 DEF LimiterInv
<1>2. ASSUME NEW c \in Clients, Arrive(c) PROVE LimiterInv'
  BY <1>2 DEF Arrive, LimiterInv, PassedIP, PassedUser
<1>3. ASSUME NEW c \in Clients, Allow(c) PROVE LimiterInv'
  <2> DEFINE r == request[c]
             d == [ip |-> r.ip, user |-> r.user, time |-> now, verdict |-> Verdict(c)]
  <2>1. /\ r.ip \in IPs /\ r.at \in Nat /\ d \in Decisions
        /\ r.at <= now /\ now <= r.at + MaxDelay
    BY <1>3, AllowFacts DEF WaitIsBounded
  <2>2. decided' = Append(decided, d) /\ now' = now
    BY <1>3 DEF Allow
  <2>3. ASSUME NEW i \in IPs
        PROVE  BucketInv(byIP[i], PassedIP(i), IPLimit, decided, now)'
    <3>1. BucketInv(byIP[i], PassedIP(i), IPLimit, decided, now)
      BY DEF LimiterInv
    <3>2. CASE i = r.ip /\ Verdict(c) # "ip"
      <4>1. byIP'[i] = Counted(byIP[i], r.at, IPLimit)
        BY <1>3, <3>2 DEF Allow, TypeOK
      <4>2. PassedIP(i)' = PassedIP(i) \cup {Len(decided) + 1}
        BY <2>1, <2>2, <3>2, PassedAppend
      <4>3. Allows(byIP[i], r.at, IPLimit)
        BY <1>3, <3>2, AllowFacts
      <4>4. d.time = now
        OBVIOUS
      <4> HIDE DEF d
      <4>5. BucketInv(Counted(byIP[i], r.at, IPLimit), PassedIP(i) \cup {Len(decided) + 1},
                      IPLimit, Append(decided, d), now)
        BY <1>0, <2>1, <3>1, <4>3, <4>4, BucketCounted
      <4> QED
        BY <2>2, <4>1, <4>2, <4>5
    <3>3. CASE ~(i = r.ip /\ Verdict(c) # "ip")
      <4>1. byIP'[i] = byIP[i]
        BY <1>3, <3>3 DEF Allow, TypeOK
      <4>2. PassedIP(i)' = PassedIP(i)
        BY <2>1, <2>2, <3>3, PassedAppend
      <4> HIDE DEF d
      <4>3. BucketInv(byIP[i], PassedIP(i), IPLimit, Append(decided, d), now)
        BY <1>0, <2>1, <3>1, BucketUncounted
      <4> QED
        BY <2>2, <4>1, <4>2, <4>3
    <3> QED
      BY <3>2, <3>3
  <2>4. ASSUME NEW u \in Tokens
        PROVE  BucketInv(byUser[u], PassedUser(u), UserLimit, decided, now)'
    <3>0. u # NoToken
      BY TokenAssumption
    <3>1. BucketInv(byUser[u], PassedUser(u), UserLimit, decided, now)
      BY DEF LimiterInv
    <3>2. CASE u = r.user /\ Verdict(c) = "admitted"
      <4>1. byUser'[u] = Counted(byUser[u], r.at, UserLimit)
        BY <1>3, <3>0, <3>2 DEF Allow, TypeOK
      <4>2. PassedUser(u)' = PassedUser(u) \cup {Len(decided) + 1}
        BY <2>1, <2>2, <3>2, PassedAppend
      <4>3. Allows(byUser[u], r.at, UserLimit)
        BY <1>3, <3>0, <3>2, AllowFacts
      <4>4. d.time = now
        OBVIOUS
      <4> HIDE DEF d
      <4>5. BucketInv(Counted(byUser[u], r.at, UserLimit),
                      PassedUser(u) \cup {Len(decided) + 1},
                      UserLimit, Append(decided, d), now)
        BY <1>0, <2>1, <3>1, <4>3, <4>4, BucketCounted
      <4> QED
        BY <2>2, <4>1, <4>2, <4>5
    <3>3. CASE ~(u = r.user /\ Verdict(c) = "admitted")
      <4>1. byUser'[u] = byUser[u]
        BY <1>3, <3>3 DEF Allow, TypeOK
      <4>2. PassedUser(u)' = PassedUser(u)
        BY <2>1, <2>2, <3>3, PassedAppend
      <4> HIDE DEF d
      <4>3. BucketInv(byUser[u], PassedUser(u), UserLimit, Append(decided, d), now)
        BY <1>0, <2>1, <3>1, BucketUncounted
      <4> QED
        BY <2>2, <4>1, <4>2, <4>3
    <3> QED
      BY <3>2, <3>3
  <2> QED
    BY <2>3, <2>4 DEF LimiterInv
<1>4. CASE UNCHANGED vars
  BY <1>4 DEF vars, LimiterInv, PassedIP, PassedUser
<1> QED
  BY <1>1, <1>2, <1>3, <1>4 DEF Next

-----------------------------------------------------------------------------

\* The state of the gateway and its decisions have their types, and no request is
\* judged by a time that is more than MaxDelay past (ratelimiter.go).
THEOREM TypeCorrect == Spec => [](TypeOK /\ WaitIsBounded)
<1> DEFINE Inv == TypeOK /\ WaitIsBounded
<1>1. Init => Inv
  <2>1. Init => WaitIsBounded
    BY DEF Init, WaitIsBounded, Idle
  <2> QED
    BY <2>1, InitTypeOK
<1>2. Inv /\ [Next]_vars => Inv'
  BY NextTypeOK, NextWaitIsBounded
<1> QED
  BY <1>1, <1>2, PTL DEF Spec

\* Every bucket has counted no more than passed since its window began, and no
\* span of a window has more of what it counted than its place allows: the
\* invariant from which the two properties of the limiter follow.
THEOREM LimiterInvHolds == Spec => []LimiterInv
<1>1. Init => LimiterInv
  <2> SUFFICES ASSUME Init PROVE LimiterInv
    OBVIOUS
  <2>1. decided = <<>> /\ now = 0
    BY DEF Init
  <2>2. ASSUME NEW i \in IPs PROVE byIP[i] = NoBucket /\ PassedIP(i) = {}
    BY DEF Init, PassedIP
  <2>3. ASSUME NEW u \in Tokens PROVE byUser[u] = NoBucket /\ PassedUser(u) = {}
    BY DEF Init, PassedUser
  <2> QED
    BY <2>1, <2>2, <2>3, BucketInit, LimitsAssumption DEF LimiterInv
<1>2. TypeOK /\ WaitIsBounded /\ LimiterInv /\ [Next]_vars => LimiterInv'
  BY NextLimiterInv
<1> QED
  BY <1>1, <1>2, TypeCorrect, PTL DEF Spec

\* In no span of one window are three limits of requests admitted of one IP or of
\* one user: what a fixed window lets through where it changes, and when requests
\* that waited for the mutex have opened one in the past (ratelimiter.go).
THEOREM SpansAreBounded == Spec => []SpanIsBounded
<1>1. TypeOK /\ LimiterInv => SpanIsBounded
  <2> SUFFICES ASSUME TypeOK, LimiterInv, NEW t \in 0..MaxTime
               PROVE  /\ \A i \in IPs :
                           Cardinality({k \in DOMAIN decided :
                             /\ decided[k].ip = i /\ decided[k].verdict = "admitted"
                             /\ decided[k].time \in t..(t + Window - 1)}) < 3 * IPLimit
                      /\ \A u \in Tokens :
                           Cardinality({k \in DOMAIN decided :
                             /\ decided[k].user = u /\ decided[k].verdict = "admitted"
                             /\ decided[k].time \in t..(t + Window - 1)}) < 3 * UserLimit
    BY DEF SpanIsBounded, Within
  <2>0. t \in Nat /\ IPLimit \in Nat /\ UserLimit \in Nat /\ decided \in Seq(Decisions)
    BY LimitsAssumption DEF TypeOK
  <2>1. ASSUME NEW i \in IPs
        PROVE  Cardinality({k \in DOMAIN decided :
                 /\ decided[k].ip = i /\ decided[k].verdict = "admitted"
                 /\ decided[k].time \in t..(t + Window - 1)}) < 3 * IPLimit
    <3> DEFINE P == Span(decided, PassedIP(i), t)
               Q == {k \in DOMAIN decided :
                      /\ decided[k].ip = i /\ decided[k].verdict = "admitted"
                      /\ decided[k].time \in t..(t + Window - 1)}
    <3>1. P \in SUBSET (DOMAIN decided) /\ Q \in SUBSET P
      BY DEF Span, PassedIP
    <3>2. Cardinality(P) <= 3 * IPLimit - 1
      BY <2>0 DEF LimiterInv, BucketInv, SpanBound
    <3> HIDE DEF P, Q
    <3>3. Cardinality(P) \in Nat /\ Cardinality(Q) \in Nat /\ Cardinality(Q) <= Cardinality(P)
      BY <2>0, <3>1, PlacesAreFinite
    <3>4. Cardinality(Q) < 3 * IPLimit
      BY <2>0, <3>2, <3>3
    <3> QED
      BY <3>4 DEF Q
  <2>2. ASSUME NEW u \in Tokens
        PROVE  Cardinality({k \in DOMAIN decided :
                 /\ decided[k].user = u /\ decided[k].verdict = "admitted"
                 /\ decided[k].time \in t..(t + Window - 1)}) < 3 * UserLimit
    <3> DEFINE P == Span(decided, PassedUser(u), t)
               Q == {k \in DOMAIN decided :
                      /\ decided[k].user = u /\ decided[k].verdict = "admitted"
                      /\ decided[k].time \in t..(t + Window - 1)}
    <3>1. P \in SUBSET (DOMAIN decided) /\ Q \in SUBSET P
      BY DEF Span, PassedUser
    <3>2. Cardinality(P) <= 3 * UserLimit - 1
      BY <2>0 DEF LimiterInv, BucketInv, SpanBound
    <3> HIDE DEF P, Q
    <3>3. Cardinality(P) \in Nat /\ Cardinality(Q) \in Nat /\ Cardinality(Q) <= Cardinality(P)
      BY <2>0, <3>1, PlacesAreFinite
    <3>4. Cardinality(Q) < 3 * UserLimit
      BY <2>0, <3>2, <3>3
    <3> QED
      BY <3>4 DEF Q
  <2> QED
    BY <2>1, <2>2
<1> QED
  BY <1>1, TypeCorrect, LimiterInvHolds, PTL

\* A refusal for an IP, or for a user, comes after as many requests that passed as
\* the limit allows, none older than the window and the wait: nobody is refused for
\* what was done in a window that is over (ratelimiter.go).
THEOREM RefusalsAreDue == Spec => []RefusedOnlyWhenFull
<1> DEFINE ByIP(seq, k) == {j \in 1..(k - 1) : /\ seq[j].ip = seq[k].ip
                                               /\ seq[j].verdict # "ip"
                                               /\ seq[j].time + Window + MaxDelay > seq[k].time}
           ByUser(seq, k) == {j \in 1..(k - 1) : /\ seq[j].user = seq[k].user
                                                 /\ seq[j].verdict = "admitted"
                                                 /\ seq[j].time + Window + MaxDelay > seq[k].time}
           Due(seq, k) == /\ seq[k].verdict = "ip" => Cardinality(ByIP(seq, k)) >= IPLimit
                          /\ seq[k].verdict = "user" => Cardinality(ByUser(seq, k)) >= UserLimit
<1>0. RefusedOnlyWhenFull <=> \A k \in DOMAIN decided : Due(decided, k)
  BY DEF RefusedOnlyWhenFull
<1>1. Init => RefusedOnlyWhenFull
  BY DEF Init, RefusedOnlyWhenFull
<1>2. TypeOK /\ WaitIsBounded /\ LimiterInv /\ RefusedOnlyWhenFull /\ [Next]_vars
        => RefusedOnlyWhenFull'
  <2> SUFFICES ASSUME TypeOK, WaitIsBounded, LimiterInv, RefusedOnlyWhenFull, [Next]_vars
               PROVE  RefusedOnlyWhenFull'
    OBVIOUS
  <2>1. CASE UNCHANGED decided
    BY <2>1 DEF RefusedOnlyWhenFull
  <2>2. ASSUME NEW c \in Clients, Allow(c) PROVE RefusedOnlyWhenFull'
    <3> DEFINE r == request[c]
               d == [ip |-> r.ip, user |-> r.user, time |-> now, verdict |-> Verdict(c)]
               m == Len(decided) + 1
    <3>1. /\ r.ip \in IPs /\ r.at \in Nat /\ d \in Decisions /\ now \in Nat
          /\ r.at <= now /\ now <= r.at + MaxDelay
          /\ decided \in Seq(Decisions) /\ decided' = Append(decided, d)
      BY <2>2, AllowFacts DEF WaitIsBounded, TypeOK, Allow
    <3>2. /\ DOMAIN decided' = DOMAIN decided \cup {m}
          /\ DOMAIN decided = 1..Len(decided) /\ Len(decided) \in Nat
          /\ \A j \in DOMAIN decided : decided'[j] = decided[j]
          /\ decided'[m] = d
      BY <3>1, AppendKeeps
    <3>3. ASSUME NEW k \in DOMAIN decided PROVE Due(decided', k)
      <4>1. \A j \in 1..(k - 1) : j \in DOMAIN decided
        BY <3>2
      <4>2. ByIP(decided', k) = ByIP(decided, k) /\ ByUser(decided', k) = ByUser(decided, k)
        BY <3>2, <4>1
      <4>3. Due(decided, k)
        BY <1>0
      <4> QED
        BY <3>2, <4>2, <4>3
    <3>4. ASSUME d.verdict = "ip" PROVE Cardinality(ByIP(decided', m)) >= IPLimit
      <4>1. ~Allows(byIP[r.ip], r.at, IPLimit) /\ byIP[r.ip] \in Buckets
        BY <2>2, <3>1, <3>4, AllowFacts DEF TypeOK
      <4>2. BucketInv(byIP[r.ip], PassedIP(r.ip), IPLimit, decided, now)
        BY <3>1 DEF LimiterInv
      <4>3. /\ PassedIP(r.ip) \in SUBSET (DOMAIN decided)
            /\ ByIP(decided', m) \in SUBSET (DOMAIN decided)
            /\ \A j \in PassedIP(r.ip) :
                 decided[j].time + Window + MaxDelay > now => j \in ByIP(decided', m)
        BY <3>2 DEF PassedIP
      <4> HIDE DEF d, ByIP
      <4> QED
        BY <3>1, <4>1, <4>2, <4>3, FullBucket, LimitsAssumption
    <3>5. ASSUME d.verdict = "user" PROVE Cardinality(ByUser(decided', m)) >= UserLimit
      <4>1. /\ ~Allows(byUser[r.user], r.at, UserLimit) /\ byUser[r.user] \in Buckets
            /\ r.user \in Tokens
        BY <2>2, <3>1, <3>5, AllowFacts DEF TypeOK
      <4>2. BucketInv(byUser[r.user], PassedUser(r.user), UserLimit, decided, now)
        BY <4>1 DEF LimiterInv
      <4>3. /\ PassedUser(r.user) \in SUBSET (DOMAIN decided)
            /\ ByUser(decided', m) \in SUBSET (DOMAIN decided)
            /\ \A j \in PassedUser(r.user) :
                 decided[j].time + Window + MaxDelay > now => j \in ByUser(decided', m)
        BY <3>2 DEF PassedUser
      <4> HIDE DEF d, ByUser
      <4> QED
        BY <3>1, <4>1, <4>2, <4>3, FullBucket, LimitsAssumption
    <3>6. Due(decided', m)
      BY <3>2, <3>4, <3>5
    <3>7. \A k \in DOMAIN decided' : Due(decided', k)
      BY <3>2, <3>3, <3>6
    <3> QED
      BY <3>7 DEF RefusedOnlyWhenFull
  <2> QED
    BY <2>1, <2>2 DEF Next, vars, Tick, Arrive
<1> QED
  BY <1>1, <1>2, TypeCorrect, LimiterInvHolds, PTL DEF Spec

-----------------------------------------------------------------------------
(* The consume loop, for any messages. *)

USE PoisonAssumption, BoundsAssumption

LEMMA LoopInitTypeOK == LoopInit => LoopTypeOK
  BY DEF LoopInit, LoopTypeOK

\* Every action keeps LoopTypeOK.
LEMMA LoopNextTypeOK == LoopTypeOK /\ [LoopNext]_loopVars => LoopTypeOK'
<1> SUFFICES ASSUME LoopTypeOK, [LoopNext]_loopVars PROVE LoopTypeOK'
  OBVIOUS
<1> USE DEF LoopTypeOK
<1>1. ASSUME NEW m \in Messages, Send(m) PROVE LoopTypeOK'
  <2>1. log' \in Seq(Messages) /\ Len(log') = Len(log) + 1
    BY <1>1 DEF Send
  <2> QED
    BY <1>1, <2>1 DEF Send
<1>2. CASE FetchMessage
  BY <1>2 DEF FetchMessage
<1>3. CASE FetchFails
  BY <1>3 DEF FetchFails
<1>4. CASE ParseFails
  BY <1>4 DEF ParseFails, Returns
<1>5. CASE SkipProcessed
  BY <1>5 DEF SkipProcessed, Returns
<1>6. CASE MarkProcessed
  <2>1. Message \in Messages
    BY <1>6 DEF MarkProcessed, Message
  <2> QED
    BY <1>6, <2>1 DEF MarkProcessed
<1>7. CASE Work
  <2>1. effects' \in [Messages -> Nat]
    <3>1. Message \in Messages /\ effects[Message] + 1 \in Nat
      BY <1>7 DEF Work, Message
    <3> QED
      BY <1>7, <3>1 DEF Work
  <2> QED
    BY <1>7, <2>1 DEF Work, Returns
<1>8. CASE PublishToDLQ
  BY <1>8 DEF PublishToDLQ
<1>9. CASE CommitMessages
  BY <1>9 DEF CommitMessages
<1>10. CASE Restart
  BY <1>10 DEF Restart
<1>11. CASE UNCHANGED loopVars
  BY <1>11 DEF loopVars
<1> QED
  BY <1>1, <1>2, <1>3, <1>4, <1>5, <1>6, <1>7, <1>8, <1>9, <1>10, <1>11 DEF LoopNext, Consumer

\* The variables of the consumer keep their types.
THEOREM LoopTypeCorrect == LoopSpec => []LoopTypeOK
  BY LoopInitTypeOK, LoopNextTypeOK, PTL DEF LoopSpec

LEMMA LoopInitOffsetsInStep == LoopInit => OffsetsInStep
  BY DEF LoopInit, OffsetsInStep

\* Every action keeps the loop in step with what was handled.
LEMMA LoopNextOffsetsInStep == LoopTypeOK /\ OffsetsInStep /\ [LoopNext]_loopVars => OffsetsInStep'
<1> SUFFICES ASSUME LoopTypeOK, OffsetsInStep, [LoopNext]_loopVars PROVE OffsetsInStep'
  OBVIOUS
<1> USE DEF LoopTypeOK, OffsetsInStep
<1>1. ASSUME NEW m \in Messages, Send(m) PROVE OffsetsInStep'
  BY <1>1 DEF Send
<1>2. CASE FetchMessage
  BY <1>2 DEF FetchMessage
<1>3. CASE FetchFails
  BY <1>3 DEF FetchFails
<1>4. CASE ParseFails
  BY <1>4 DEF ParseFails, Returns
<1>5. CASE SkipProcessed
  BY <1>5 DEF SkipProcessed, Returns
<1>6. CASE MarkProcessed
  BY <1>6 DEF MarkProcessed
<1>7. CASE Work
  BY <1>7 DEF Work, Returns
<1>8. CASE PublishToDLQ
  BY <1>8 DEF PublishToDLQ
<1>9. CASE CommitMessages
  BY <1>9 DEF CommitMessages
<1>10. CASE Restart
  BY <1>10 DEF Restart
<1>11. CASE UNCHANGED loopVars
  BY <1>11 DEF loopVars
<1> QED
  BY <1>1, <1>2, <1>3, <1>4, <1>5, <1>6, <1>7, <1>8, <1>9, <1>10, <1>11 DEF LoopNext, Consumer

\* The loop never gets ahead of what its handler returned from.
THEOREM StaysInStep == LoopSpec => []OffsetsInStep
<1>1. LoopTypeOK /\ OffsetsInStep /\ [LoopNext]_loopVars => (LoopTypeOK /\ OffsetsInStep)'
  BY LoopNextTypeOK, LoopNextOffsetsInStep
<1> QED
  BY <1>1, LoopInitTypeOK, LoopInitOffsetsInStep, PTL DEF LoopSpec

-----------------------------------------------------------------------------
(* Marks and effects. *)

LEMMA LoopInitMarks == LoopInit => MarksInv /\ EffectOrFailure
  BY DEF LoopInit, MarksInv, MarkHasReason, EffectsHaveMarks, InWork, EffectOrFailure

\* The topic keeps its messages when another one is sent.
LEMMA SendKeepsLog ==
  ASSUME LoopTypeOK, NEW m \in Messages, Send(m)
  PROVE  /\ Len(log') = Len(log) + 1
         /\ \A k \in 1..Len(log) : log'[k] = log[k]
  BY DEF Send, LoopTypeOK

\* Every action keeps the marks honest.
LEMMA LoopNextMarks == LoopTypeOK /\ LoopTypeOK' /\ MarksInv /\ [LoopNext]_loopVars => MarksInv'
<1> SUFFICES ASSUME LoopTypeOK, LoopTypeOK', MarksInv, [LoopNext]_loopVars, NEW x \in Messages
             PROVE  (MarkHasReason(x) /\ EffectsHaveMarks(x) /\ (InWork(x) => x \in processed))'
  BY DEF MarksInv
<1> DEFINE Goal == MarkHasReason(x) /\ EffectsHaveMarks(x) /\ (InWork(x) => x \in processed)
<1> USE DEF MarkHasReason, EffectsHaveMarks, InWork, Message
<1>a. Goal
  BY DEF MarksInv
<1>b. /\ effects[x] \in Nat /\ effects'[x] \in Nat /\ restarts \in Nat /\ next \in 0..Len(log)
      /\ failed \subseteq 1..Len(log)
      /\ pc \in {"handle", "work", "deadletter", "commit"} => next \in 1..Len(log)
  BY DEF LoopTypeOK
<1>1. ASSUME NEW m \in Messages, Send(m) PROVE Goal'
  BY <1>1, <1>a, <1>b, SendKeepsLog DEF Send
<1>2. CASE FetchMessage
  BY <1>2, <1>a, <1>b DEF FetchMessage
<1>3. CASE FetchFails
  BY <1>3, <1>a DEF FetchFails
<1>4. CASE ParseFails
  BY <1>4, <1>a DEF ParseFails, Returns
<1>5. CASE SkipProcessed
  BY <1>5, <1>a DEF SkipProcessed, Returns
<1>6. CASE MarkProcessed
  BY <1>6, <1>a, <1>b DEF MarkProcessed
\* A success adds the one effect the mark stands for, an error its failed offset.
<1>7. CASE Work
  <2>1. Message \in Messages /\ effects[Message] \in Nat
    BY <1>7, <1>b DEF Work, LoopTypeOK
  <2>2. CASE x = Message /\ effects' = [effects EXCEPT ![Message] = @ + 1]
    <3>1. effects'[x] = effects[x] + 1 /\ x \in processed' /\ pc' # "work"
      BY <1>7, <1>a, <2>1, <2>2 DEF Work, Returns, LoopTypeOK
    <3> QED
      BY <1>7, <1>a, <1>b, <2>2, <3>1 DEF Work
  <2>3. CASE x = Message /\ UNCHANGED effects /\ Returns(FALSE)
    BY <1>7, <1>a, <1>b, <2>3 DEF Work, Returns
  <2>4. CASE x # Message
    <3>1. effects'[x] = effects[x] /\ failed \subseteq failed' /\ pc' # "work"
      BY <1>7, <2>1, <2>4 DEF Work, Returns, LoopTypeOK
    <3> QED
      BY <1>7, <1>a, <2>4, <3>1 DEF Work
  <2> QED
    BY <1>7, <2>2, <2>3, <2>4 DEF Work
<1>8. CASE PublishToDLQ
  BY <1>8, <1>a DEF PublishToDLQ
<1>9. CASE CommitMessages
  BY <1>9, <1>a DEF CommitMessages
<1>10. CASE Restart
  BY <1>10, <1>a, <1>b DEF Restart
<1>11. CASE UNCHANGED loopVars
  BY <1>11, <1>a DEF loopVars
<1>12. Goal'
  BY <1>1, <1>2, <1>3, <1>4, <1>5, <1>6, <1>7, <1>8, <1>9, <1>10, <1>11 DEF LoopNext, Consumer
<1> QED
  BY <1>12

\* The handler returns from the message fetched last; for the others what made
\* them handled stays.
LEMMA ReturnsEffectOrFailure ==
  ASSUME LoopTypeOK, LoopTypeOK', OffsetsInStep, EffectOrFailure, NEW ok \in BOOLEAN, Returns(ok),
         pc \in {"handle", "work"}, UNCHANGED <<log, next>>,
         \A m \in Messages : effects[m] > 0 => effects'[m] > 0,
         effects'[Message] > 0 \/ \E k \in failed' : k <= next /\ log[k] = Message
  PROVE  EffectOrFailure'
<1> SUFFICES ASSUME NEW n \in 1..handled'
             PROVE  effects'[log[n]] > 0 \/ \E k \in failed' : k <= n /\ log[k] = log[n]
  BY DEF EffectOrFailure
<1>1. /\ next \in 1..Len(log) /\ next <= handled + 1 /\ handled \in 0..Len(log)
      /\ handled' \in 0..Len(log) /\ log \in Seq(Messages)
  BY DEF LoopTypeOK, OffsetsInStep
<1>2. log[n] \in Messages /\ failed \subseteq failed'
  BY <1>1 DEF Returns
<1>3. CASE n <= handled
  BY <1>1, <1>2, <1>3 DEF EffectOrFailure
<1>4. CASE n > handled
  <2>1. n = next
    BY <1>1, <1>4 DEF Returns
  <2> QED
    BY <2>1 DEF Message
<1> QED
  BY <1>1, <1>3, <1>4

\* Every action keeps EffectOrFailure.
LEMMA LoopNextEffectOrFailure ==
  LoopTypeOK /\ LoopTypeOK' /\ OffsetsInStep /\ MarksInv /\ EffectOrFailure /\ [LoopNext]_loopVars
    => EffectOrFailure'
<1> SUFFICES ASSUME LoopTypeOK, LoopTypeOK', OffsetsInStep, MarksInv, EffectOrFailure,
                    [LoopNext]_loopVars
             PROVE  EffectOrFailure'
  OBVIOUS
<1>a. ASSUME UNCHANGED <<log, handled, effects, failed>> PROVE EffectOrFailure'
  BY <1>a DEF EffectOrFailure
<1>b. pc \in {"handle", "work"} => next \in 1..Len(log) /\ Message \in Messages
  BY DEF LoopTypeOK, Message
<1>1. ASSUME NEW m \in Messages, Send(m) PROVE EffectOrFailure'
  <2>1. handled \in 0..Len(log) /\ failed \subseteq 1..Len(log)
    BY DEF LoopTypeOK
  <2> QED
    BY <1>1, <2>1, SendKeepsLog DEF Send, EffectOrFailure
<1>2. CASE FetchMessage
  BY <1>2, <1>a DEF FetchMessage
<1>3. CASE FetchFails
  BY <1>3, <1>a DEF FetchFails
<1>4. CASE ParseFails
  <2>1. \E k \in failed' : k <= next /\ log[k] = Message
    BY <1>4, <1>b DEF ParseFails, Returns, Message
  <2> QED
    BY <1>4, <2>1, ReturnsEffectOrFailure DEF ParseFails
\* A marked id is skipped: the mark has a reason.
<1>5. CASE SkipProcessed
  <2>1. MarkHasReason(Message) /\ ~InWork(Message)
    BY <1>5, <1>b DEF SkipProcessed, MarksInv, InWork
  <2>2. failed' = failed /\ effects' = effects
    BY <1>5 DEF SkipProcessed, Returns
  <2>3. effects'[Message] > 0 \/ \E k \in failed' : k <= next /\ log[k] = Message
    BY <1>5, <2>1, <2>2 DEF SkipProcessed, MarkHasReason
  <2> QED
    BY <1>5, <2>2, <2>3, ReturnsEffectOrFailure DEF SkipProcessed
<1>6. CASE MarkProcessed
  BY <1>6, <1>a DEF MarkProcessed
<1>7. CASE Work
  <2>1. Message \in Messages /\ effects \in [Messages -> Nat]
    BY <1>7, <1>b DEF Work, LoopTypeOK
  <2>2. CASE effects' = [effects EXCEPT ![Message] = @ + 1] /\ Returns(TRUE)
    <3>1. effects'[Message] > 0 /\ \A m \in Messages : effects[m] > 0 => effects'[m] > 0
      BY <2>1, <2>2
    <3> QED
      BY <1>7, <2>2, <3>1, ReturnsEffectOrFailure DEF Work
  <2>3. CASE UNCHANGED effects /\ Returns(FALSE)
    <3>1. \E k \in failed' : k <= next /\ log[k] = Message
      BY <1>7, <1>b, <2>3 DEF Work, Returns, Message
    <3> QED
      BY <1>7, <2>3, <3>1, ReturnsEffectOrFailure DEF Work
  <2> QED
    BY <1>7, <2>2, <2>3 DEF Work
<1>8. CASE PublishToDLQ
  BY <1>8, <1>a DEF PublishToDLQ
<1>9. CASE CommitMessages
  BY <1>9, <1>a DEF CommitMessages
<1>10. CASE Restart
  BY <1>10, <1>a DEF Restart
<1>11. CASE UNCHANGED loopVars
  BY <1>11, <1>a DEF loopVars
<1> QED
  BY <1>1, <1>2, <1>3, <1>4, <1>5, <1>6, <1>7, <1>8, <1>9, <1>10, <1>11 DEF LoopNext, Consumer

LEMMA MarksHold == LoopSpec => [](MarksInv /\ EffectOrFailure)
<1>1. LoopTypeOK /\ OffsetsInStep /\ MarksInv /\ EffectOrFailure /\ [LoopNext]_loopVars
        => (LoopTypeOK /\ OffsetsInStep /\ MarksInv /\ EffectOrFailure)'
  BY LoopNextTypeOK, LoopNextOffsetsInStep, LoopNextMarks, LoopNextEffectOrFailure
<1> QED
  BY <1>1, LoopInitTypeOK, LoopInitOffsetsInStep, LoopInitMarks, PTL DEF LoopSpec

\* However often a message is repeated and whatever fails, the work for an id is
\* done at most once in each run of the process.
THEOREM AtMostOncePerRun == LoopSpec => []OneEffectPerRun
<1>1. LoopTypeOK /\ MarksInv => OneEffectPerRun
  <2> SUFFICES ASSUME LoopTypeOK, MarksInv, NEW m \in Messages PROVE effects[m] <= restarts + 1
    BY DEF OneEffectPerRun
  <2>1. effects[m] \in Nat /\ restarts \in Nat
    BY DEF LoopTypeOK
  <2>2. effects[m] <= restarts \/ effects[m] <= restarts + 1
    BY <2>1 DEF MarksInv, EffectsHaveMarks
  <2> QED
    BY <2>1, <2>2
<1> QED
  BY <1>1, LoopTypeCorrect, MarksHold, PTL

\* A message is left without effect only after an error of its handler.
THEOREM NothingIsDropped == LoopSpec => []EffectOrFailure
  BY MarksHold, PTL

-----------------------------------------------------------------------------
(* The refinement. *)

\* The handler returned from the message fetched last: the first message that was
\* not handled before, or one that is delivered again.
LEMMA ReturnsHandles ==
  ASSUME LoopTypeOK, OffsetsInStep, NEW ok \in BOOLEAN, Returns(ok),
         pc \in {"handle", "work"}, UNCHANGED <<log, committed>>
  PROVE  [DeliveryPromise!Next]_(DeliveryPromise!vars)
<1>1. next \in 1..Len(log) /\ next <= handled + 1 /\ handled \in 0..Len(log)
  BY DEF LoopTypeOK, OffsetsInStep
<1>2. CASE next > handled
  BY <1>1, <1>2 DEF Returns, DeliveryPromise!Next, DeliveryPromise!Handle
<1>3. CASE ~(next > handled)
  BY <1>1, <1>3 DEF Returns, DeliveryPromise!vars
<1> QED
  BY <1>2, <1>3

\* Every step of the loop is a step of AtLeastOnce or leaves its state alone.
LEMMA LoopNextImplements ==
  LoopTypeOK /\ OffsetsInStep /\ [LoopNext]_loopVars
    => [DeliveryPromise!Next]_(DeliveryPromise!vars)
<1> SUFFICES ASSUME LoopTypeOK, OffsetsInStep, [LoopNext]_loopVars
             PROVE  [DeliveryPromise!Next]_(DeliveryPromise!vars)
  OBVIOUS
<1>1. ASSUME NEW m \in Messages, Send(m) PROVE DeliveryPromise!Send
  <2>1. Len(log') = Len(log) + 1
    BY <1>1 DEF Send, LoopTypeOK
  <2> QED
    BY <1>1, <2>1 DEF Send, DeliveryPromise!Send
<1>2. CASE FetchMessage
  BY <1>2 DEF FetchMessage, DeliveryPromise!vars
<1>3. CASE FetchFails
  BY <1>3 DEF FetchFails, DeliveryPromise!vars
<1>4. CASE ParseFails
  BY <1>4, ReturnsHandles DEF ParseFails
<1>5. CASE SkipProcessed
  BY <1>5, ReturnsHandles DEF SkipProcessed
<1>6. CASE MarkProcessed
  BY <1>6 DEF MarkProcessed, DeliveryPromise!vars
<1>7. CASE Work
  BY <1>7, ReturnsHandles DEF Work
<1>8. CASE PublishToDLQ
  BY <1>8 DEF PublishToDLQ, DeliveryPromise!vars
\* Only what was handled is committed, and never less than before.
<1>9. CASE CommitMessages
  <2>1. committed' \in committed..handled /\ UNCHANGED <<log, handled>>
    BY <1>9 DEF CommitMessages, LoopTypeOK, OffsetsInStep
  <2> QED
    BY <2>1 DEF DeliveryPromise!Next, DeliveryPromise!Settle
<1>10. CASE Restart
  BY <1>10 DEF Restart, DeliveryPromise!vars
<1>11. CASE UNCHANGED loopVars
  BY <1>11 DEF loopVars, DeliveryPromise!vars
<1> QED
  BY <1>1, <1>2, <1>3, <1>4, <1>5, <1>6, <1>7, <1>8, <1>9, <1>10, <1>11
     DEF LoopNext, Consumer, DeliveryPromise!Next

\* The consume loop implements the delivery promise: no message is passed over and
\* none is given up before its handler returned, for any topic, any failure of the
\* handler or of a commit, and any number of restarts.
THEOREM ImplementsDelivery == LoopSpec => DeliversAtLeastOnce
<1>1. LoopInit => DeliveryPromise!Init
  BY DEF LoopInit, DeliveryPromise!Init
<1> QED
  BY <1>1, LoopTypeCorrect, StaysInStep, LoopNextImplements, PTL
     DEF LoopSpec, DeliversAtLeastOnce, DeliveryPromise!Spec

=============================================================================
