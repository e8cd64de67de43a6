----------------------------- MODULE MarketData -----------------------------
(***************************************************************************)
(* The market data service: the poller that fetches a ticker every second, *)
(* stores, publishes and broadcasts it; the HTTP reads, which go through   *)
(* the cache and fetch, store and publish on a miss; the websocket         *)
(* handlers, each with a buffered channel; and the two locks they meet at. *)
(* A price is the number of the fetch that brought it, so a smaller one is *)
(* older.  One symbol, the polled one: the others have no poller and share *)
(* nothing with it.  A restart starts again from Init, for all is in       *)
(* memory.                                                                 *)
(***************************************************************************)
EXTENDS Naturals, Sequences, FiniteSets

CONSTANTS
    Readers,      \* HTTP requests
    Conns,        \* websocket connections
    Kinds,        \* what is read over HTTP: "price", "candles", "book"
    Buffer,       \* capacity of a subscriber's channel (64 in the code)
    MaxFetches    \* bound on the answers of the exchange

Cached == Kinds \ {"book"}

ASSUME KindsAssumption == Kinds \subseteq {"price", "candles", "book"}
ASSUME BufferAssumption == Buffer \in Nat \ {0}
ASSUME FetchesAssumption == MaxFetches \in Nat

VARIABLES
    fetches,   \* answers the exchange has given
    cache,     \* kind -> the price stored, or Nothing
    topic,     \* market.price.updated: the prices published
    reader,    \* request -> [pc, kind, price]
    poller,    \* [pc, price]
    aired,     \* the latest price whose broadcast has begun
    targets,   \* subscribers the current broadcast has still to offer it to
    conn       \* connection -> [pc, frames, buffer]

vars == <<fetches, cache, topic, reader, poller, aired, targets,
          conn>>

Nothing == 0

Init ==
    /\ fetches = 0
    /\ cache = [k \in Cached |-> Nothing]
    /\ topic = <<>>
    /\ reader = [r \in Readers |->
                   [pc |-> "idle", kind |-> "price", price |-> Nothing]]
    /\ poller = [pc |-> "waiting", price |-> Nothing]
    /\ aired = Nothing
    /\ targets = {}
    /\ conn = [c \in Conns |-> [pc |-> "new", frames |-> <<>>, buffer |-> <<>>]]

-----------------------------------------------------------------------------
(* The exchange's answers, the cache and the topic.                        *)

Answered == fetches < MaxFetches /\ fetches' = fetches + 1

SetEntry(k, p) == cache' = [cache EXCEPT ![k] = p]

\* The error of a publication is dropped.
publishPriceUpdated(p) == topic' \in {Append(topic, p), topic}

-----------------------------------------------------------------------------
(* HTTP reads.  The cache copies an entry under its read lock, judges its  *)
(* age without a lock and deletes the key, whatever it holds by then,      *)
(* under its write lock.  The clock is left out: an entry may be judged    *)
(* either way, which allows every lifetime.                                *)

GoTo(r, pc) == reader' = [reader EXCEPT ![r].pc = pc]
Done == [pc |-> "done", kind |-> "price", price |-> Nothing]
Finish(r) == reader' = [reader EXCEPT ![r] = Done]

LookUp(r) ==
    /\ reader[r].pc = "idle"
    /\ \E k \in Kinds :
         LET item == IF k \in Cached THEN cache[k] ELSE Nothing IN
         reader' = [reader EXCEPT ![r] =
                      [pc |-> IF item = Nothing THEN "fetch" ELSE "judge",
                       kind |-> k, price |-> item]]
    /\ UNCHANGED <<fetches, cache, topic, poller, aired, targets, conn>>

\* Slip: the answer from the cache is published like a fetched one.
HitAndPublish(r) ==
    /\ reader[r].pc = "judge"
    /\ GoTo(r, "publish")
    /\ UNCHANGED <<fetches, cache, topic, poller, aired, targets, conn>>

\* The copied entry is within its lifetime.
Hit(r) ==
    /\ reader[r].pc = "judge"
    /\ Finish(r)
    /\ UNCHANGED <<fetches, cache, topic, poller, aired, targets, conn>>

\* It is not.
Expired(r) ==
    /\ reader[r].pc = "judge"
    /\ GoTo(r, "evict")
    /\ UNCHANGED <<fetches, cache, topic, poller, aired, targets, conn>>

Evict(r) ==
    /\ reader[r].pc = "evict"
    /\ cache' = [cache EXCEPT ![reader[r].kind] = Nothing]
    /\ GoTo(r, "fetch")
    /\ UNCHANGED <<fetches, topic, poller, aired, targets, conn>>

Fetch(r) ==
    /\ reader[r].pc = "fetch"
    /\ Answered
    /\ IF reader[r].kind \in Cached
         THEN reader' = [reader EXCEPT ![r] =
                           [pc |-> "store", kind |-> @.kind, price |-> fetches']]
         ELSE Finish(r)
    /\ UNCHANGED <<cache, topic, poller, aired, targets, conn>>

FetchFails(r) ==
    /\ reader[r].pc = "fetch"
    /\ Finish(r)
    /\ UNCHANGED <<fetches, cache, topic, poller, aired, targets, conn>>

Store(r) ==
    /\ reader[r].pc = "store"
    /\ SetEntry(reader[r].kind, reader[r].price)
    /\ IF reader[r].kind = "price" THEN GoTo(r, "publish") ELSE Finish(r)
    /\ UNCHANGED <<fetches, topic, poller, aired, targets, conn>>

Publish(r) ==
    /\ reader[r].pc = "publish"
    /\ publishPriceUpdated(reader[r].price)
    /\ Finish(r)
    /\ UNCHANGED <<fetches, cache, poller, aired, targets, conn>>

Read(r) ==
    \/ LookUp(r) \/ Hit(r) \/ Expired(r) \/ Evict(r)
    \/ Fetch(r) \/ FetchFails(r) \/ Store(r) \/ Publish(r)

-----------------------------------------------------------------------------
(* The subscribers.  Subscribe and unsubscribe hold the write lock, a      *)
(* broadcast the read lock from BeginBroadcast to EndBroadcast.            *)

LockFree == poller.pc # "sending"
Registered == {c \in Conns : conn[c].pc \in {"waiting", "writing", "leaving"}}

Subscribe(c) ==
    /\ conn[c].pc = "new"
    /\ LockFree
    /\ conn' = [conn EXCEPT ![c].pc = "waiting"]
    /\ UNCHANGED <<fetches, cache, topic, reader, poller, aired, targets>>

Receive(c) ==
    /\ conn[c].pc = "waiting"
    /\ conn[c].buffer # <<>>
    /\ conn' = [conn EXCEPT ![c] = [pc |-> "writing",
                                    frames |-> Append(@.frames, Head(@.buffer)),
                                    buffer |-> Tail(@.buffer)]]
    /\ UNCHANGED <<fetches, cache, topic, reader, poller, aired, targets>>

\* WriteJSON succeeds, or fails within its deadline.
Write(c) ==
    /\ conn[c].pc = "writing"
    /\ \E pc \in {"waiting", "leaving"} : conn' = [conn EXCEPT ![c].pc = pc]
    /\ UNCHANGED <<fetches, cache, topic, reader, poller, aired, targets>>

ContextDone(c) ==
    /\ conn[c].pc = "waiting"
    /\ conn' = [conn EXCEPT ![c].pc = "leaving"]
    /\ UNCHANGED <<fetches, cache, topic, reader, poller, aired, targets>>

\* Slip: the channel is closed without taking the lock.
UnsubscribeUnlocked(c) ==
    /\ conn[c].pc = "leaving"
    /\ conn' = [conn EXCEPT ![c].pc = "gone"]
    /\ UNCHANGED <<fetches, cache, topic, reader, poller, aired, targets>>

Unsubscribe(c) ==
    /\ conn[c].pc = "leaving"
    /\ LockFree
    /\ conn' = [conn EXCEPT ![c].pc = "gone"]
    /\ UNCHANGED <<fetches, cache, topic, reader, poller, aired, targets>>

Connection(c) ==
    Subscribe(c) \/ Receive(c) \/ Write(c) \/ ContextDone(c) \/ Unsubscribe(c)

-----------------------------------------------------------------------------
(* The poller.                                                             *)

\* A refusal of the exchange leaves everything as it is until the next tick.  A
\* SIGTERM stops the poller here: Poll has no fairness and may never come again.
Poll ==
    /\ poller.pc = "waiting"
    /\ Answered
    /\ poller' = [pc |-> "store", price |-> fetches']
    /\ UNCHANGED <<cache, topic, reader, aired, targets, conn>>

PollStore ==
    /\ poller.pc = "store"
    /\ SetEntry("price", poller.price)
    /\ poller' = [poller EXCEPT !.pc = "publish"]
    /\ UNCHANGED <<fetches, topic, reader, aired, targets, conn>>

PollPublish ==
    /\ poller.pc = "publish"
    /\ publishPriceUpdated(poller.price)
    /\ poller' = [poller EXCEPT !.pc = "broadcast"]
    /\ UNCHANGED <<fetches, cache, reader, aired, targets, conn>>

BeginBroadcast ==
    /\ poller.pc = "broadcast"
    /\ aired' = poller.price
    /\ targets' = Registered
    /\ poller' = [poller EXCEPT !.pc = "sending"]
    /\ UNCHANGED <<fetches, cache, topic, reader, conn>>

\* Slip: the send has no default and waits for room in the channel.
OfferBlocking(c) ==
    /\ poller.pc = "sending"
    /\ c \in targets
    /\ Len(conn[c].buffer) < Buffer
    /\ targets' = targets \ {c}
    /\ conn' = [conn EXCEPT ![c].buffer = Append(@, aired)]
    /\ UNCHANGED <<fetches, cache, topic, reader, poller, aired>>

\* The map of subscribers is walked in any order; a full channel is skipped.
Offer(c) ==
    /\ poller.pc = "sending"
    /\ c \in targets
    /\ targets' = targets \ {c}
    /\ conn' = [conn EXCEPT ![c].buffer =
                   IF Len(@) < Buffer THEN Append(@, aired) ELSE @]
    /\ UNCHANGED <<fetches, cache, topic, reader, poller, aired>>

EndBroadcast ==
    /\ poller.pc = "sending"
    /\ targets = {}
    /\ poller' = [poller EXCEPT !.pc = "waiting"]
    /\ UNCHANGED <<fetches, cache, topic, reader, aired, targets, conn>>

\* Once a ticker is fetched the round goes on without waiting for anybody.
Round ==
    \/ PollStore \/ PollPublish \/ BeginBroadcast \/ EndBroadcast
    \/ \E c \in Conns : Offer(c)

Next ==
    \/ \E r \in Readers : Read(r)
    \/ \E c \in Conns : Connection(c)
    \/ Poll \/ Round

\* The goroutine of the poller is scheduled; the clients promise nothing.
Spec == Init /\ [][Next]_vars /\ WF_vars(Round)

-----------------------------------------------------------------------------

\* The type of every variable.
TypeOK ==
    /\ fetches \in 0..MaxFetches
    /\ \A k \in Cached : cache[k] \in 0..fetches
    /\ topic \in Seq(1..fetches)
    /\ poller.pc \in {"waiting", "store", "publish", "broadcast", "sending"}
    /\ poller.price \in 0..fetches /\ aired \in 0..fetches
    /\ targets \subseteq Registered
    /\ \A c \in Conns : Len(conn[c].buffer) <= Buffer

\* A fetched price is published at most once, by whoever fetched it: an answer
\* from the cache tells the strategies nothing new, whichever way the lookups,
\* the evictions and the stores of the requests and of the poller overlap.
EachPricePublishedOnce ==
    \A i, j \in DOMAIN topic : topic[i] = topic[j] => i = j

\* What a websocket client is sent is a subsequence of the broadcasts, in their
\* order and without repetition, and nothing is sent on a channel that
\* unsubscribe has closed (which would stop the process), in spite of
\* broadcasts, arrivals and departures that overlap.
Stream ==
    INSTANCE LossyStream WITH
        Clients <- Conns,
        status <- [c \in Conns |->
                     CASE conn[c].pc = "new" -> "out"
                       [] conn[c].pc = "gone" -> "left"
                       [] OTHER -> "in"],
        given <- [c \in Conns |-> conn[c].frames \o conn[c].buffer],
        heard <- [c \in Conns |-> Len(conn[c].frames)]

StreamsAreLossy == Stream!Spec

\* A round of the poller that has fetched a price ends, however slow the
\* clients are and whoever is waiting to leave: no client holds up the polling
\* or, through the lock, the other clients.
RoundsEnd == (poller.pc = "store") ~> (poller.pc = "waiting")
=============================================================================
