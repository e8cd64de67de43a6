--------------------------- MODULE MarketData_proofs ---------------------------
(***************************************************************************)
(* Proofs about the market data service: a price that was fetched is       *)
(* published at most once, and what a websocket client is sent is a        *)
(* LossyStream of the broadcasts.                                          *)
(***************************************************************************)
EXTENDS MarketData, SequenceTheorems, TLAPS

ReaderStates == [pc : {"idle", "judge", "evict", "fetch", "store", "publish", "done"},
                 kind : {"price", "candles", "book"}, price : Nat]
PollerStates == [pc : {"waiting", "store", "publish", "broadcast", "sending"},
                 price : Nat]
ConnStates == [pc : {"new", "waiting", "writing", "leaving", "gone"},
               frames : Seq(Nat), buffer : Seq(Nat)]

Shapes ==
    /\ cache \in [Cached -> Nat]
    /\ reader \in [Readers -> ReaderStates]
    /\ poller \in PollerStates
    /\ conn \in [Conns -> ConnStates]

\* A goroutine in one of these states has fetched a price that it may publish.
Holds(state) == state.pc \in {"store", "publish"}

HeldWasFetched ==
    /\ \A r \in Readers : /\ reader[r].price <= fetches
                          /\ Holds(reader[r]) => reader[r].price > 0
    /\ Holds(poller) => poller.price > 0

\* The poller has targets only while it holds the read lock.
TargetsUnderLock == targets # {} => ~LockFree

Typing == TypeOK /\ Shapes /\ HeldWasFetched /\ TargetsUnderLock

-----------------------------------------------------------------------------
(* Types.                                                                  *)

LEMMA InitTyping == Init => Typing
<1> SUFFICES ASSUME Init PROVE Typing
  OBVIOUS
<1>1. Shapes
  BY DEF Init, Shapes, ReaderStates, PollerStates, ConnStates, Nothing
<1>2. fetches \in 0..MaxFetches /\ topic \in Seq(1..fetches)
  BY FetchesAssumption DEF Init
<1>3. \A c \in Conns : Len(conn[c].buffer) <= Buffer
  BY BufferAssumption DEF Init
<1>4. TypeOK
  BY <1>2, <1>3 DEF Init, TypeOK, Nothing
<1>5. HeldWasFetched /\ TargetsUnderLock
  BY DEF Init, HeldWasFetched, Holds, Nothing, TargetsUnderLock
<1> QED
  BY <1>1, <1>4, <1>5 DEF Typing

\* Publishing a price that was fetched keeps the type of the topic.
LEMMA PublishedTopic ==
    ASSUME NEW f \in Nat, NEW g \in Nat, f <= g,
           NEW log \in Seq(1..f), NEW p \in 1..g
    PROVE  log \in Seq(1..g) /\ Append(log, p) \in Seq(1..g)
<1>1. 1..f \subseteq 1..g
  OBVIOUS
<1>2. log \in Seq(1..g)
  BY <1>1, SeqMonotonic
<1> QED
  BY <1>2

\* Writing an entry keeps the type of the cache, whether or not the kind is cached.
LEMMA EntryType ==
    ASSUME NEW f \in Nat, NEW entries \in [Cached -> Nat],
           \A k \in Cached : entries[k] <= f,
           NEW kind, NEW p \in Nat, p <= f
    PROVE  /\ [entries EXCEPT ![kind] = p] \in [Cached -> Nat]
           /\ \A k \in Cached : [entries EXCEPT ![kind] = p][k] <= f
<1>1. \A k \in Cached : [entries EXCEPT ![kind] = p][k] = IF k = kind THEN p ELSE entries[k]
  OBVIOUS
<1>2. \A k \in Cached : [entries EXCEPT ![kind] = p][k] <= f
  BY <1>1
<1> QED
  BY <1>2

\* The steps of a request.
LEMMA ReadTyping ==
    ASSUME Typing, NEW r \in Readers, Read(r)
    PROVE  Typing'
<1>0. /\ reader \in [Readers -> ReaderStates] /\ reader[r] \in ReaderStates
      /\ reader[r].price \in Nat /\ reader[r].price <= fetches
      /\ fetches \in Nat /\ fetches <= MaxFetches
      /\ cache \in [Cached -> Nat] /\ \A k \in Cached : cache[k] <= fetches
  BY FetchesAssumption DEF Typing, TypeOK, Shapes, HeldWasFetched, ReaderStates
<1>a. UNCHANGED <<poller, aired, targets, conn>>
  BY DEF Read, LookUp, Hit, Expired, Evict, Fetch, FetchFails, Store, Publish
<1>b. /\ fetches' \in Nat /\ fetches <= fetches' /\ fetches' \in 0..MaxFetches
  <2>1. \/ fetches' = fetches
        \/ fetches < MaxFetches /\ fetches' = fetches + 1
    BY DEF Read, LookUp, Hit, Expired, Evict, Fetch, FetchFails, Store, Publish, Answered
  <2> QED
    BY <1>0, <2>1, FetchesAssumption
\* It is enough to look at the request, the cache and the topic.
<1>c. SUFFICES /\ reader' \in [Readers -> ReaderStates]
               /\ \A q \in Readers : /\ reader'[q].price <= fetches'
                                     /\ Holds(reader'[q]) => reader'[q].price > 0
               /\ cache' \in [Cached -> Nat]
               /\ \A k \in Cached : cache'[k] <= fetches'
               /\ topic' \in Seq(1..(fetches'))
  <2> SUFFICES ASSUME reader' \in [Readers -> ReaderStates],
                      \A q \in Readers : /\ reader'[q].price <= fetches'
                                         /\ Holds(reader'[q]) => reader'[q].price > 0,
                      cache' \in [Cached -> Nat],
                      \A k \in Cached : cache'[k] <= fetches',
                      topic' \in Seq(1..(fetches'))
               PROVE  Typing'
    OBVIOUS
  <2>1. Shapes'
    BY <1>a DEF Typing, Shapes
  <2>2. HeldWasFetched' /\ TargetsUnderLock'
    BY <1>a DEF Typing, HeldWasFetched, TargetsUnderLock, Holds, LockFree
  <2>3. poller.price \in 0..(fetches') /\ aired \in 0..(fetches')
    BY <1>0, <1>b DEF Typing, TypeOK
  <2>4. TypeOK'
    BY <1>a, <1>b, <2>3 DEF Typing, TypeOK, Registered
  <2> QED
    BY <2>1, <2>2, <2>4 DEF Typing
<1>d. \A q \in Readers : /\ reader[q] \in ReaderStates /\ reader[q].price \in Nat
                         /\ reader[q].price <= fetches'
                         /\ Holds(reader[q]) => reader[q].price > 0
  BY <1>0, <1>b DEF Typing, HeldWasFetched, ReaderStates
<1>e. topic \in Seq(1..(fetches')) /\ \A k \in Cached : cache[k] <= fetches'
  BY <1>0, <1>b, SeqMonotonic DEF Typing, TypeOK
<1>f. \A pc \in {"judge", "evict", "fetch", "store", "publish", "done"} :
        [reader[r] EXCEPT !.pc = pc] \in ReaderStates
  BY <1>0 DEF ReaderStates
<1>g. Done \in ReaderStates /\ Done.price = 0 /\ ~Holds(Done)
  BY DEF Done, ReaderStates, Nothing, Holds
<1>1. CASE LookUp(r)
  <2> PICK k \in Kinds :
        LET item == IF k \in Cached THEN cache[k] ELSE Nothing IN
        reader' = [reader EXCEPT ![r] =
                     [pc |-> IF item = Nothing THEN "fetch" ELSE "judge",
                      kind |-> k, price |-> item]]
    BY <1>1 DEF LookUp
  <2> DEFINE item == IF k \in Cached THEN cache[k] ELSE Nothing
             new == [pc |-> IF item = Nothing THEN "fetch" ELSE "judge",
                     kind |-> k, price |-> item]
  <2>1. item \in Nat /\ item <= fetches /\ k \in {"price", "candles", "book"}
    BY <1>0, KindsAssumption DEF Nothing
  <2>2. reader' = [reader EXCEPT ![r] = new]
    OBVIOUS
  <2> HIDE DEF item
  <2>3. new \in ReaderStates /\ new.price <= fetches /\ ~Holds(new)
    BY <2>1 DEF ReaderStates, Holds
  <2> HIDE DEF new
  <2>4. UNCHANGED <<fetches, cache, topic>>
    BY <1>1 DEF LookUp
  <2> QED
    BY <1>0, <1>d, <1>e, <2>2, <2>3, <2>4
<1>2. CASE Hit(r)
  BY <1>0, <1>2, <1>d, <1>e, <1>g DEF Hit, Finish
<1>3. CASE Expired(r)
  <2>1. reader' = [reader EXCEPT ![r] = [@ EXCEPT !.pc = "evict"]]
    BY <1>0, <1>3 DEF Expired, GoTo
  <2> QED
    BY <1>0, <1>3, <1>d, <1>e, <1>f, <2>1 DEF Expired, Holds, ReaderStates
<1>4. CASE Evict(r)
  <2>1. reader' = [reader EXCEPT ![r] = [@ EXCEPT !.pc = "fetch"]]
    BY <1>0, <1>4 DEF Evict, GoTo
  <2>2. cache' \in [Cached -> Nat] /\ \A k \in Cached : cache'[k] <= fetches'
    <3>1. fetches' = fetches /\ cache' = [cache EXCEPT ![reader[r].kind] = 0]
      BY <1>4 DEF Evict, Nothing
    <3>2. 0 <= fetches
      BY <1>0
    <3> QED
      BY <1>0, <3>1, <3>2, EntryType
  <2> QED
    BY <1>0, <1>4, <1>d, <1>e, <1>f, <2>1, <2>2 DEF Evict, Holds, ReaderStates
<1>5. CASE Fetch(r)
  <2>1. CASE reader' = [reader EXCEPT ![r] = Done]
    BY <1>0, <1>5, <1>b, <1>d, <1>e, <1>g, <2>1 DEF Fetch
  <2> DEFINE new == [pc |-> "store", kind |-> reader[r].kind, price |-> fetches']
  <2>2. CASE reader' = [reader EXCEPT ![r] = new]
    <3>1. new \in ReaderStates /\ new.price <= fetches' /\ new.price > 0
      <4>1. reader[r].kind \in {"price", "candles", "book"}
        BY <1>0 DEF ReaderStates
      <4>2. fetches' \in Nat /\ fetches' > 0
        BY <1>0, <1>5 DEF Fetch, Answered
      <4> QED
        BY <4>1, <4>2 DEF ReaderStates
    <3> HIDE DEF new
    <3> QED
      BY <1>0, <1>5, <1>d, <1>e, <2>2, <3>1 DEF Fetch
  <2> QED
    BY <1>5, <2>1, <2>2 DEF Fetch, Finish
<1>6. CASE FetchFails(r)
  BY <1>0, <1>6, <1>d, <1>e, <1>g DEF FetchFails, Finish
<1>7. CASE Store(r)
  <2>1. cache' \in [Cached -> Nat] /\ \A k \in Cached : cache'[k] <= fetches'
    <3>1. cache' = [cache EXCEPT ![reader[r].kind] = reader[r].price] /\ fetches' = fetches
      BY <1>7 DEF Store, SetEntry
    <3> QED
      BY <1>0, <3>1, EntryType
  <2>2. CASE reader' = [reader EXCEPT ![r].pc = "publish"]
    <3>1. reader' = [reader EXCEPT ![r] = [@ EXCEPT !.pc = "publish"]]
      BY <1>0, <2>2
    <3>2. reader[r].price > 0
      BY <1>7, <1>d DEF Store, Holds
    <3> QED
      BY <1>0, <1>7, <1>d, <1>e, <1>f, <2>1, <3>1, <3>2 DEF Store, Holds, ReaderStates
  <2>3. CASE reader' = [reader EXCEPT ![r] = Done]
    BY <1>0, <1>7, <1>d, <1>e, <1>g, <2>1, <2>3 DEF Store
  <2> QED
    BY <1>7, <2>2, <2>3 DEF Store, GoTo, Finish
<1>8. CASE Publish(r)
  <2>1. reader[r].price \in 1..fetches
    BY <1>0, <1>8, <1>d DEF Publish, Holds
  <2>2. topic' \in Seq(1..(fetches'))
    <3>1. fetches' = fetches /\ topic' \in {Append(topic, reader[r].price), topic}
      BY <1>8 DEF Publish, publishPriceUpdated
    <3>2. fetches \in Nat /\ topic \in Seq(1..fetches)
      BY <1>0 DEF Typing, TypeOK
    <3>3. Append(topic, reader[r].price) \in Seq(1..fetches)
      BY <2>1, <3>2, PublishedTopic
    <3> QED
      BY <3>1, <3>2, <3>3
  <2> QED
    BY <1>0, <1>8, <1>d, <1>e, <1>g, <2>2 DEF Publish, Finish
<1> QED
  BY <1>1, <1>2, <1>3, <1>4, <1>5, <1>6, <1>7, <1>8 DEF Read

\* The steps of a connection.
LEMMA ConnectionTyping ==
    ASSUME Typing, NEW c \in Conns, Connection(c)
    PROVE  Typing'
<1>0. /\ conn \in [Conns -> ConnStates] /\ conn[c] \in ConnStates
      /\ UNCHANGED <<fetches, cache, topic, reader, poller, aired, targets>>
  BY DEF Typing, Shapes, Connection, Subscribe, Receive, Write, ContextDone, Unsubscribe
\* The connection leaves the registered ones only when it is no target.
<1>1. ASSUME NEW new \in ConnStates,
             conn' = [conn EXCEPT ![c] = new],
             Len(new.buffer) <= Buffer,
             c \in targets => new.pc \in {"waiting", "writing", "leaving"}
      PROVE  Typing'
  <2>1. Shapes'
    BY <1>0, <1>1 DEF Typing, Shapes
  <2>2. targets' \subseteq Registered'
    BY <1>0, <1>1 DEF Typing, TypeOK, Registered
  <2>3. \A d \in Conns : Len(conn'[d].buffer) <= Buffer
    BY <1>0, <1>1 DEF Typing, TypeOK
  <2>4. TypeOK'
    BY <1>0, <2>2, <2>3 DEF Typing, TypeOK
  <2>5. HeldWasFetched' /\ TargetsUnderLock'
    BY <1>0 DEF Typing, HeldWasFetched, TargetsUnderLock, Holds, LockFree
  <2> QED
    BY <2>1, <2>4, <2>5 DEF Typing
<1>2. \A pc \in {"waiting", "leaving", "gone"} :
        /\ [conn[c] EXCEPT !.pc = pc] \in ConnStates
        /\ [conn[c] EXCEPT !.pc = pc].buffer = conn[c].buffer
        /\ [conn[c] EXCEPT !.pc = pc].pc = pc
  BY <1>0 DEF ConnStates
<1>3. Len(conn[c].buffer) <= Buffer
  BY DEF Typing, TypeOK
<1>4. ASSUME NEW pc \in {"waiting", "leaving", "gone"},
             conn' = [conn EXCEPT ![c].pc = pc],
             pc = "gone" => c \notin targets
      PROVE  Typing'
  <2>1. conn' = [conn EXCEPT ![c] = [conn[c] EXCEPT !.pc = pc]]
    BY <1>0, <1>4
  <2> QED
    BY <1>1, <1>2, <1>3, <1>4, <2>1
<1>5. CASE Subscribe(c)
  BY <1>4, <1>5 DEF Subscribe
<1>6. CASE Receive(c)
  <2> DEFINE new == [pc |-> "writing",
                     frames |-> Append(conn[c].frames, Head(conn[c].buffer)),
                     buffer |-> Tail(conn[c].buffer)]
  <2>1. /\ conn[c].frames \in Seq(Nat) /\ conn[c].buffer \in Seq(Nat)
        /\ conn[c].buffer # <<>> /\ conn' = [conn EXCEPT ![c] = new]
    BY <1>0, <1>6 DEF Receive, ConnStates
  <2>2. /\ Head(conn[c].buffer) \in Nat /\ Tail(conn[c].buffer) \in Seq(Nat)
        /\ Len(Tail(conn[c].buffer)) <= Len(conn[c].buffer)
    BY <2>1, HeadTailProperties
  <2>3. new \in ConnStates
    BY <2>1, <2>2 DEF ConnStates
  <2>4. Len(new.buffer) <= Buffer
    BY <1>3, <2>1, <2>2, BufferAssumption
  <2> QED
    BY <1>1, <2>1, <2>3, <2>4
<1>7. CASE Write(c)
  BY <1>4, <1>7 DEF Write
<1>8. CASE ContextDone(c)
  BY <1>4, <1>8 DEF ContextDone
<1>9. CASE Unsubscribe(c)
  <2>1. c \notin targets
    BY <1>9 DEF Unsubscribe, Typing, TargetsUnderLock
  <2> QED
    BY <1>4, <1>9, <2>1 DEF Unsubscribe
<1> QED
  BY <1>5, <1>6, <1>7, <1>8, <1>9 DEF Connection

\* The steps of the poller.
LEMMA PollerTyping ==
    ASSUME Typing, Poll \/ Round
    PROVE  Typing'
<1>0. /\ poller \in PollerStates /\ poller.price \in 0..fetches
      /\ fetches \in Nat /\ fetches <= MaxFetches /\ aired \in 0..fetches
      /\ cache \in [Cached -> Nat] /\ \A k \in Cached : cache[k] \in 0..fetches
      /\ conn \in [Conns -> ConnStates] /\ topic \in Seq(1..fetches)
  BY FetchesAssumption DEF Typing, TypeOK, Shapes
<1>1. CASE Poll
  <2>1. /\ fetches' = fetches + 1 /\ fetches < MaxFetches
        /\ poller' = [pc |-> "store", price |-> fetches']
        /\ UNCHANGED <<cache, topic, reader, aired, targets, conn>>
        /\ poller.pc = "waiting"
    BY <1>1 DEF Poll, Answered
  <2>2. fetches' \in Nat /\ fetches' \in 0..MaxFetches /\ fetches <= fetches' /\ fetches' > 0
    BY <1>0, <2>1, FetchesAssumption
  <2>3. poller' \in PollerStates /\ poller'.pc = "store" /\ poller'.price = fetches'
    BY <2>1, <2>2 DEF PollerStates
  <2>4. Shapes'
    BY <2>1, <2>3 DEF Typing, Shapes
  <2>5. topic' \in Seq(1..(fetches'))
    BY <1>0, <2>1, <2>2, SeqMonotonic
  <2>6. /\ \A k \in Cached : cache'[k] \in 0..(fetches')
        /\ poller'.price \in 0..(fetches') /\ aired' \in 0..(fetches')
    BY <1>0, <2>1, <2>2, <2>3
  <2>7. targets' \subseteq Registered'
    BY <2>1 DEF Typing, TypeOK, Registered
  <2>8. \A d \in Conns : Len(conn'[d].buffer) <= Buffer
    BY <2>1 DEF Typing, TypeOK
  <2>9. TypeOK'
    BY <2>2, <2>3, <2>5, <2>6, <2>7, <2>8 DEF TypeOK
  <2>10. \A r \in Readers : /\ reader'[r].price <= fetches'
                            /\ Holds(reader'[r]) => reader'[r].price > 0
    <3>1. \A r \in Readers : reader[r].price \in Nat /\ reader[r].price <= fetches
      BY DEF Typing, Shapes, ReaderStates, HeldWasFetched
    <3>2. \A r \in Readers : reader'[r].price <= fetches'
      BY <1>0, <2>1, <2>2, <3>1
    <3> QED
      BY <2>1, <3>2 DEF Typing, HeldWasFetched
  <2>11. HeldWasFetched' /\ TargetsUnderLock'
    BY <2>1, <2>2, <2>3, <2>10 DEF Typing, HeldWasFetched, TargetsUnderLock, LockFree
  <2> QED
    BY <2>4, <2>9, <2>11 DEF Typing
\* Only a fetch changes the number of fetches or a request.
<1>2. ASSUME UNCHANGED <<fetches, reader>>,
             cache' \in [Cached -> Nat], \A k \in Cached : cache'[k] \in 0..fetches,
             topic' \in Seq(1..fetches),
             poller' \in PollerStates, poller'.price = poller.price,
             Holds(poller') => Holds(poller),
             aired' \in 0..fetches,
             conn' \in [Conns -> ConnStates],
             \A d \in Conns : Len(conn'[d].buffer) <= Buffer,
             targets' \subseteq Registered',
             targets' # {} => poller'.pc = "sending"
      PROVE  Typing'
  <2>1. Shapes'
    BY <1>2 DEF Typing, Shapes
  <2>2. TypeOK'
    BY <1>0, <1>2 DEF Typing, TypeOK, PollerStates
  <2>3. HeldWasFetched'
    BY <1>2 DEF Typing, HeldWasFetched, Holds
  <2>4. TargetsUnderLock'
    BY <1>2 DEF TargetsUnderLock, LockFree
  <2> QED
    BY <2>1, <2>2, <2>3, <2>4 DEF Typing
<1>3. /\ targets \subseteq Registered
      /\ targets # {} => poller.pc = "sending"
      /\ \A d \in Conns : Len(conn[d].buffer) <= Buffer
  BY DEF Typing, TypeOK, TargetsUnderLock, LockFree
<1>4. \A pc \in {"publish", "broadcast", "sending", "waiting"} :
        /\ [poller EXCEPT !.pc = pc] \in PollerStates
        /\ [poller EXCEPT !.pc = pc].price = poller.price
        /\ [poller EXCEPT !.pc = pc].pc = pc
  BY <1>0 DEF PollerStates
<1>5. CASE PollStore
  <2>1. /\ poller.pc = "store" /\ poller' = [poller EXCEPT !.pc = "publish"]
        /\ UNCHANGED <<fetches, topic, reader, aired, targets, conn>>
    BY <1>5 DEF PollStore
  <2>2. cache' \in [Cached -> Nat] /\ \A k \in Cached : cache'[k] \in 0..fetches
    <3>1. cache' = [cache EXCEPT !["price"] = poller.price]
      BY <1>5 DEF PollStore, SetEntry
    <3>2. /\ poller.price \in Nat /\ poller.price <= fetches
          /\ \A k \in Cached : cache[k] <= fetches
      BY <1>0
    <3>3. cache' \in [Cached -> Nat] /\ \A k \in Cached : cache'[k] <= fetches
      BY <1>0, <3>1, <3>2, EntryType
    <3> QED
      BY <1>0, <3>3
  <2>3. targets = {}
    BY <1>3, <2>1
  <2>4. Registered' = Registered
    BY <2>1 DEF Registered
  <2> QED
    BY <1>0, <1>2, <1>3, <1>4, <2>1, <2>2, <2>3, <2>4 DEF Holds
<1>6. CASE PollPublish
  <2>1. /\ poller.pc = "publish" /\ poller' = [poller EXCEPT !.pc = "broadcast"]
        /\ UNCHANGED <<fetches, cache, reader, aired, targets, conn>>
    BY <1>6 DEF PollPublish
  <2>2. poller.price \in 1..fetches
    BY <1>0, <2>1 DEF Typing, HeldWasFetched, Holds
  <2>3. topic' \in Seq(1..fetches)
    <3>1. topic' \in {Append(topic, poller.price), topic}
      BY <1>6 DEF PollPublish, publishPriceUpdated
    <3>2. Append(topic, poller.price) \in Seq(1..fetches)
      BY <1>0, <2>2
    <3> QED
      BY <1>0, <3>1, <3>2
  <2>4. targets = {} /\ Registered' = Registered
    BY <1>3, <2>1 DEF Registered
  <2> QED
    BY <1>0, <1>2, <1>3, <1>4, <2>1, <2>3, <2>4 DEF Holds
<1>7. CASE BeginBroadcast
  <2>1. /\ poller.pc = "broadcast" /\ poller' = [poller EXCEPT !.pc = "sending"]
        /\ aired' = poller.price /\ targets' = Registered
        /\ UNCHANGED <<fetches, cache, topic, reader, conn>>
    BY <1>7 DEF BeginBroadcast
  <2>2. Registered' = Registered
    BY <2>1 DEF Registered
  <2> QED
    BY <1>0, <1>2, <1>3, <1>4, <2>1, <2>2 DEF Holds
<1>8. CASE EndBroadcast
  <2>1. /\ poller' = [poller EXCEPT !.pc = "waiting"] /\ targets = {}
        /\ UNCHANGED <<fetches, cache, topic, reader, aired, targets, conn>>
    BY <1>8 DEF EndBroadcast
  <2>2. Registered' = Registered
    BY <2>1 DEF Registered
  <2> QED
    BY <1>0, <1>2, <1>3, <1>4, <2>1, <2>2 DEF Holds
<1>9. ASSUME NEW c \in Conns, Offer(c) PROVE Typing'
  <2> DEFINE new == IF Len(conn[c].buffer) < Buffer
                    THEN Append(conn[c].buffer, aired) ELSE conn[c].buffer
  <2>1. /\ poller.pc = "sending" /\ targets' = targets \ {c}
        /\ conn' = [conn EXCEPT ![c].buffer = new]
        /\ UNCHANGED <<fetches, cache, topic, reader, poller, aired>>
    BY <1>0, <1>9 DEF Offer
  <2>2. conn[c].buffer \in Seq(Nat) /\ aired \in Nat
    BY <1>0 DEF ConnStates
  <2>3. new \in Seq(Nat) /\ Len(new) <= Buffer
    BY <1>3, <2>2, BufferAssumption
  <2> HIDE DEF new
  <2>4. conn' \in [Conns -> ConnStates]
    BY <1>0, <2>1, <2>3 DEF ConnStates
  <2>5. \A d \in Conns : Len(conn'[d].buffer) <= Buffer /\ conn'[d].pc = conn[d].pc
    BY <1>0, <1>3, <2>1, <2>3 DEF ConnStates
  <2>6. targets' \subseteq Registered'
    BY <1>3, <2>1, <2>5 DEF Registered
  <2> QED
    BY <1>0, <1>2, <2>1, <2>4, <2>5, <2>6
<1> QED
  BY <1>1, <1>5, <1>6, <1>7, <1>8, <1>9 DEF Round

LEMMA NextTyping == Typing /\ [Next]_vars => Typing'
<1> SUFFICES ASSUME Typing, [Next]_vars PROVE Typing'
  OBVIOUS
<1>1. CASE UNCHANGED vars
  BY <1>1 DEF vars, Typing, TypeOK, Shapes, HeldWasFetched, TargetsUnderLock,
              Registered, LockFree, Holds
<1> QED
  BY <1>1, ReadTyping, ConnectionTyping, PollerTyping DEF Next

\* Every variable has its type; what is held to be published was fetched; and the
\* poller walks the subscribers only under the read lock, so that none that it has
\* still to visit can have left (service.go, wsclient.go).
THEOREM TypeCorrect == Spec => []Typing
<1> QED
  BY InitTyping, NextTyping, PTL DEF Spec

-----------------------------------------------------------------------------
(* The topic.                                                              *)

Published(p) == \E i \in DOMAIN topic : topic[i] = p

\* What is held to be published is not published yet and is held by nobody else.
HeldOnce ==
    /\ \A r \in Readers : Holds(reader[r]) => ~Published(reader[r].price)
    /\ Holds(poller) => ~Published(poller.price)
    /\ \A r, q \in Readers :
         Holds(reader[r]) /\ Holds(reader[q]) /\ r # q => reader[r].price # reader[q].price
    /\ \A r \in Readers :
         Holds(reader[r]) /\ Holds(poller) => reader[r].price # poller.price

TopicInv == EachPricePublishedOnce /\ HeldOnce

\* What is published after a publication.
LEMMA PublishedNext ==
    ASSUME Typing, NEW p \in Nat, publishPriceUpdated(p)
    PROVE  /\ \A x : Published(x)' => Published(x) \/ x = p
           /\ EachPricePublishedOnce /\ ~Published(p) => EachPricePublishedOnce'
<1>1. CASE topic' = topic
  BY <1>1 DEF Published, EachPricePublishedOnce
<1>2. CASE topic' = Append(topic, p)
  <2>1. topic \in Seq(1..fetches)
    BY DEF Typing, TypeOK
  <2>2. /\ DOMAIN topic' = DOMAIN topic \cup {Len(topic) + 1}
        /\ \A i \in DOMAIN topic : topic'[i] = topic[i]
        /\ topic'[Len(topic) + 1] = p
    BY <1>2, <2>1
  <2> QED
    BY <2>2 DEF Published, EachPricePublishedOnce
<1> QED
  BY <1>1, <1>2 DEF publishPriceUpdated

\* The price of a new fetch is nobody's.
LEMMA NewPrice ==
    ASSUME Typing, fetches' = fetches + 1
    PROVE  /\ ~Published(fetches')
           /\ \A r \in Readers : reader[r].price # fetches'
           /\ poller.price # fetches'
<1>1. fetches \in Nat /\ topic \in Seq(1..fetches)
  BY FetchesAssumption DEF Typing, TypeOK
<1>2. \A i \in DOMAIN topic : topic[i] \in 1..fetches
  BY <1>1
<1>3. ~Published(fetches')
  BY <1>1, <1>2 DEF Published
<1>4. \A r \in Readers : reader[r].price \in Nat /\ reader[r].price <= fetches
  BY DEF Typing, Shapes, ReaderStates, HeldWasFetched
<1>5. poller.price \in 0..fetches
  BY DEF Typing, TypeOK
<1> QED
  BY <1>1, <1>3, <1>4, <1>5

LEMMA ReadTopic ==
    ASSUME Typing, TopicInv, NEW r \in Readers, Read(r)
    PROVE  TopicInv'
<1>0. /\ reader \in [Readers -> ReaderStates] /\ poller' = poller
      /\ reader[r].price \in Nat
  BY DEF Typing, Shapes, ReaderStates, Read, LookUp, Hit, Expired, Evict, Fetch,
         FetchFails, Store, Publish
\* A request that holds nothing afterwards, or what it held, and published nothing.
<1>1. ASSUME topic' = topic, NEW new \in ReaderStates,
             reader' = [reader EXCEPT ![r] = new],
             Holds(new) => Holds(reader[r]) /\ new.price = reader[r].price
      PROVE  TopicInv'
  <2>1. \A q \in Readers : Holds(reader'[q]) =>
          Holds(reader[q]) /\ reader'[q].price = reader[q].price
    BY <1>0, <1>1
  <2> QED
    BY <1>0, <1>1, <2>1 DEF TopicInv, EachPricePublishedOnce, HeldOnce, Published
<1>2. Done \in ReaderStates /\ ~Holds(Done)
  BY DEF Done, Holds, ReaderStates, Nothing
<1>3. \A pc \in {"evict", "fetch", "publish"} :
        /\ [reader[r] EXCEPT !.pc = pc] \in ReaderStates
        /\ [reader[r] EXCEPT !.pc = pc].pc = pc
        /\ [reader[r] EXCEPT !.pc = pc].price = reader[r].price
  BY <1>0 DEF ReaderStates
<1>4. ASSUME NEW pc \in {"evict", "fetch", "publish"}, GoTo(r, pc), topic' = topic,
             pc = "publish" => Holds(reader[r])
      PROVE  TopicInv'
  <2>1. reader' = [reader EXCEPT ![r] = [reader[r] EXCEPT !.pc = pc]]
    BY <1>0, <1>4 DEF GoTo
  <2> QED
    BY <1>1, <1>3, <1>4, <2>1 DEF Holds
<1>5. CASE LookUp(r)
  <2> PICK k \in Kinds :
        LET item == IF k \in Cached THEN cache[k] ELSE Nothing IN
        reader' = [reader EXCEPT ![r] =
                     [pc |-> IF item = Nothing THEN "fetch" ELSE "judge",
                      kind |-> k, price |-> item]]
    BY <1>5 DEF LookUp
  <2> DEFINE item == IF k \in Cached THEN cache[k] ELSE Nothing
             new == [pc |-> IF item = Nothing THEN "fetch" ELSE "judge",
                     kind |-> k, price |-> item]
  <2>1. item \in Nat /\ k \in {"price", "candles", "book"}
    BY KindsAssumption DEF Nothing, Typing, Shapes
  <2>2. reader' = [reader EXCEPT ![r] = new]
    OBVIOUS
  <2> HIDE DEF item
  <2>3. new \in ReaderStates /\ ~Holds(new)
    BY <2>1 DEF ReaderStates, Holds
  <2> HIDE DEF new
  <2> QED
    BY <1>1, <1>5, <2>2, <2>3 DEF LookUp
<1>6. CASE Hit(r) \/ FetchFails(r)
  BY <1>1, <1>2, <1>6 DEF Hit, FetchFails, Finish
<1>7. CASE Expired(r)
  BY <1>4, <1>7 DEF Expired
<1>8. CASE Evict(r)
  BY <1>4, <1>8 DEF Evict
<1>9. CASE Fetch(r)
  <2>1. CASE Finish(r)
    BY <1>1, <1>2, <1>9, <2>1 DEF Fetch, Finish
  <2> DEFINE new == [pc |-> "store", kind |-> reader[r].kind, price |-> fetches']
  <2>2. CASE reader' = [reader EXCEPT ![r] = new]
    <3>1. topic' = topic /\ fetches' = fetches + 1
      BY <1>9 DEF Fetch, Answered
    <3>2. /\ ~Published(fetches')
          /\ \A q \in Readers : reader[q].price # fetches'
          /\ poller.price # fetches'
      BY <3>1, NewPrice
    <3>3. \A q \in Readers : reader'[q] = IF q = r THEN new ELSE reader[q]
      BY <1>0, <2>2
    <3> QED
      BY <1>0, <3>1, <3>2, <3>3 DEF TopicInv, EachPricePublishedOnce, HeldOnce, Published
  <2> QED
    BY <1>9, <2>1, <2>2 DEF Fetch
<1>10. CASE Store(r)
  <2>1. Holds(reader[r]) /\ topic' = topic
    BY <1>10 DEF Store, Holds
  <2> QED
    BY <1>1, <1>2, <1>4, <1>10, <2>1 DEF Store, Finish
<1>11. CASE Publish(r)
  <2>1. /\ Holds(reader[r]) /\ publishPriceUpdated(reader[r].price)
        /\ reader' = [reader EXCEPT ![r] = Done]
    BY <1>11 DEF Publish, Holds, Finish
  <2>2. ~Published(reader[r].price)
    BY <2>1 DEF TopicInv, HeldOnce
  <2>3. /\ \A x : Published(x)' => Published(x) \/ x = reader[r].price
        /\ EachPricePublishedOnce'
    BY <1>0, <2>1, <2>2, PublishedNext DEF TopicInv
  <2>4. \A q \in Readers : Holds(reader'[q]) => /\ q # r /\ Holds(reader[q])
                                                /\ reader'[q].price = reader[q].price
    BY <1>0, <1>2, <2>1
  <2>5. \A q \in Readers : Holds(reader'[q]) => ~Published(reader[q].price)'
    <3> SUFFICES ASSUME NEW q \in Readers, Holds(reader'[q]), Published(reader[q].price)'
                 PROVE  FALSE
      OBVIOUS
    <3>1. \E i \in DOMAIN topic' : topic'[i] = reader[q].price
      BY <2>4 DEF Published
    <3>2. Published(reader[q].price) \/ reader[q].price = reader[r].price
      BY <2>3, <3>1 DEF Published
    <3> QED
      BY <2>1, <2>4, <3>2 DEF TopicInv, HeldOnce
  <2> QED
    BY <1>0, <2>1, <2>3, <2>4, <2>5 DEF TopicInv, HeldOnce
<1> QED
  BY <1>5, <1>6, <1>7, <1>8, <1>9, <1>10, <1>11 DEF Read

LEMMA PollerTopic ==
    ASSUME Typing, TopicInv, Poll \/ Round
    PROVE  TopicInv'
<1>0. /\ poller \in PollerStates /\ poller.price \in Nat /\ reader' = reader
  BY DEF Typing, Shapes, PollerStates, Poll, Round, PollStore, PollPublish,
         BeginBroadcast, EndBroadcast, Offer
<1>1. ASSUME topic' = topic,
             Holds(poller') => Holds(poller) /\ poller'.price = poller.price
      PROVE  TopicInv'
  BY <1>0, <1>1 DEF TopicInv, EachPricePublishedOnce, HeldOnce, Published
<1>2. CASE Poll
  <2>1. /\ topic' = topic /\ fetches' = fetches + 1
        /\ poller'.price = fetches'
    BY <1>2 DEF Poll, Answered
  <2>2. ~Published(fetches') /\ \A r \in Readers : reader[r].price # fetches'
    BY <2>1, NewPrice
  <2> QED
    BY <1>0, <2>1, <2>2 DEF TopicInv, EachPricePublishedOnce, HeldOnce, Published
<1>3. CASE PollStore
  <2>1. topic' = topic /\ Holds(poller) /\ poller' = [poller EXCEPT !.pc = "publish"]
    BY <1>3 DEF PollStore, Holds
  <2> QED
    BY <1>0, <1>1, <2>1 DEF PollerStates
<1>4. CASE PollPublish
  <2>1. /\ Holds(poller) /\ publishPriceUpdated(poller.price)
        /\ poller' = [poller EXCEPT !.pc = "broadcast"]
    BY <1>4 DEF PollPublish, Holds
  <2>2. ~Holds(poller')
    BY <1>0, <2>1 DEF Holds, PollerStates
  <2>3. /\ \A x : Published(x)' => Published(x) \/ x = poller.price
        /\ EachPricePublishedOnce'
    BY <1>0, <2>1, PublishedNext DEF TopicInv, HeldOnce
  <2>4. ASSUME NEW r \in Readers, Holds(reader[r]), Published(reader[r].price)'
        PROVE  FALSE
    <3>1. \E i \in DOMAIN topic' : topic'[i] = reader[r].price
      BY <1>0, <2>4 DEF Published
    <3>2. Published(reader[r].price) \/ reader[r].price = poller.price
      BY <2>3, <3>1 DEF Published
    <3> QED
      BY <2>1, <2>4, <3>2 DEF TopicInv, HeldOnce
  <2> QED
    BY <1>0, <2>2, <2>3, <2>4 DEF TopicInv, HeldOnce
<1>5. CASE BeginBroadcast
  <2>1. topic' = topic /\ poller' = [poller EXCEPT !.pc = "sending"]
    BY <1>5 DEF BeginBroadcast
  <2> QED
    BY <1>0, <1>1, <2>1 DEF Holds, PollerStates
<1>6. CASE EndBroadcast
  <2>1. topic' = topic /\ poller' = [poller EXCEPT !.pc = "waiting"]
    BY <1>6 DEF EndBroadcast
  <2> QED
    BY <1>0, <1>1, <2>1 DEF Holds, PollerStates
<1>7. ASSUME NEW c \in Conns, Offer(c) PROVE TopicInv'
  BY <1>1, <1>7 DEF Offer
<1> QED
  BY <1>2, <1>3, <1>4, <1>5, <1>6, <1>7 DEF Round

LEMMA NextTopicInv == Typing /\ TopicInv /\ [Next]_vars => TopicInv'
<1> SUFFICES ASSUME Typing, TopicInv, [Next]_vars PROVE TopicInv'
  OBVIOUS
<1>1. ASSUME UNCHANGED <<topic, reader, poller>> PROVE TopicInv'
  BY <1>1 DEF TopicInv, EachPricePublishedOnce, HeldOnce, Published, Holds
<1>2. ASSUME NEW c \in Conns, Connection(c) PROVE TopicInv'
  BY <1>1, <1>2 DEF Connection, Subscribe, Receive, Write, ContextDone, Unsubscribe
<1> QED
  BY <1>1, <1>2, ReadTopic, PollerTopic DEF Next, vars

\* A price that was fetched is published at most once: whoever fetched it is the
\* only one that will publish it, and an answer from the cache is not published
\* (service.go: GetPrice and pollAndBroadcast).
THEOREM PricesPublishedOnce == Spec => []EachPricePublishedOnce
<1>1. Init => TopicInv
  BY DEF Init, TopicInv, EachPricePublishedOnce, HeldOnce, Holds
<1>2. TopicInv => EachPricePublishedOnce
  BY DEF TopicInv
<1> QED
  BY <1>1, <1>2, NextTopicInv, TypeCorrect, PTL DEF Spec

-----------------------------------------------------------------------------
(* The streams.                                                            *)

Given(c) == conn[c].frames \o conn[c].buffer
LastGiven(c) == IF Given(c) = <<>> THEN 0 ELSE Given(c)[Len(Given(c))]

\* The price on its way to be broadcast is newer than all that were, and a
\* subscriber still to be visited has not got the current one.
StreamInv ==
    /\ poller.pc \in {"store", "publish", "broadcast"} => poller.price > aired
    /\ \A c \in Conns : LastGiven(c) <= aired
    /\ \A c \in targets : LastGiven(c) < aired

\* The order in which streams are put together does not matter.
LEMMA Associative == \A S : \A s, u, v \in Seq(S) : (s \o u) \o v = s \o (u \o v)
  BY ConcatAssociative

\* The same of streams of prices.
LEMMA PricesAssociative ==
    ASSUME NEW s \in Seq(Nat), NEW u \in Seq(Nat), NEW v \in Seq(Nat)
    PROVE  (s \o u) \o v = s \o (u \o v)
  BY Associative, SMTT(40)

\* A price moves from the buffer to the frames: what was given stays the same.
LEMMA MoveOne ==
    ASSUME NEW f \in Seq(Nat), NEW b \in Seq(Nat), b # <<>>
    PROVE  /\ Append(f, Head(b)) \o Tail(b) = f \o b
           /\ Len(Append(f, Head(b))) = Len(f) + 1
           /\ Len(f) < Len(f \o b)
<1>1. /\ Head(b) \in Nat /\ Head(b) = b[1]
      /\ Tail(b) \in Seq(Nat) /\ Len(Tail(b)) = Len(b) - 1
      /\ \A i \in 1..Len(Tail(b)) : Tail(b)[i] = b[i + 1]
      /\ Len(b) \in Nat /\ Len(b) > 0 /\ Len(f) \in Nat
  BY HeadTailProperties
<1> DEFINE h == <<Head(b)>>
           t == Tail(b)
<1>2. h \in Seq(Nat) /\ Len(h) = 1 /\ h[1] = Head(b)
  BY <1>1
<1>3. h \o t = b
  <2> HIDE DEF h, t
  <2>1. t \in Seq(Nat) /\ Len(t) = Len(b) - 1 /\ \A i \in 1..Len(t) : t[i] = b[i + 1]
    BY <1>1 DEF t
  <2>2. /\ h \o t \in Seq(Nat) /\ Len(h \o t) = 1 + Len(t)
        /\ \A i \in 1..(1 + Len(t)) : (h \o t)[i] = IF i <= 1 THEN h[1] ELSE t[i - 1]
    <3>1. /\ h \o t \in Seq(Nat) /\ Len(h \o t) = Len(h) + Len(t)
          /\ \A i \in 1..(Len(h) + Len(t)) :
               (h \o t)[i] = IF i <= Len(h) THEN h[i] ELSE t[i - Len(h)]
      <4>1. h \in Seq(Nat) /\ t \in Seq(Nat)
        BY <1>2, <2>1
      <4> QED
        BY ONLY <4>1, ConcatProperties
    <3>2. Len(t) \in Nat /\ \A i \in 1..(1 + Len(t)) : i \in Nat /\ (i <= 1 => i = 1)
      BY <2>1
    <3> QED
      BY <1>2, <3>1, <3>2
  <2>3. ASSUME NEW i \in 1..Len(b) PROVE (h \o t)[i] = b[i]
    <3>1. CASE i = 1
      BY <1>1, <1>2, <2>1, <2>2, <3>1
    <3>2. CASE i # 1
      <4>1. i - 1 \in 1..Len(t) /\ (i - 1) + 1 = i /\ ~(i <= 1) /\ i \in 1..(1 + Len(t))
        BY <1>1, <2>1, <3>2
      <4>2. (h \o t)[i] = t[i - 1] /\ t[i - 1] = b[(i - 1) + 1]
        BY <2>1, <2>2, <4>1
      <4> QED
        BY <4>1, <4>2
    <3> QED
      BY <3>1, <3>2
  <2>4. Len(h \o t) = Len(b)
    BY <1>1, <2>1, <2>2
  <2>5. \A i \in 1..Len(h \o t) : (h \o t)[i] = b[i]
    BY <2>3, <2>4
  <2> QED
    BY <2>2, <2>4, <2>5, SeqEqual
<1>4. Append(f, Head(b)) = f \o h
  BY <1>1, AppendIsConcat
<1>5. (f \o h) \o t = f \o (h \o t)
  <2> HIDE DEF h, t
  <2>1. f \in Seq(Nat) /\ h \in Seq(Nat) /\ t \in Seq(Nat)
    BY <1>1, <1>2 DEF t
  <2> QED
    BY ONLY <2>1, PricesAssociative
<1>6. Len(Append(f, Head(b))) = Len(f) + 1
  BY <1>1, AppendProperties
<1>7. Len(f) < Len(f \o b)
  <2>1. Len(f \o b) = Len(f) + Len(b)
    BY ConcatProperties
  <2> QED
    BY <1>1, <2>1
<1> QED
  BY <1>3, <1>4, <1>5, <1>6, <1>7

LEMMA LastOfAppend ==
    ASSUME NEW s \in Seq(Nat), NEW p \in Nat
    PROVE  Append(s, p) # <<>> /\ Append(s, p)[Len(Append(s, p))] = p
<1>1. Append(s, p) # <<>>
  BY AppendProperties
<1>2. Len(Append(s, p)) = Len(s) + 1
  BY AppendProperties
<1>3. Append(s, p)[Len(s) + 1] = p
  BY AppendProperties
<1> QED
  BY <1>1, <1>2, <1>3

\* A price appended to the buffer is appended to what was given.
LEMMA GiveOne ==
    ASSUME NEW f \in Seq(Nat), NEW b \in Seq(Nat), NEW p \in Nat
    PROVE  /\ f \o Append(b, p) = Append(f \o b, p)
           /\ f \o b \in Seq(Nat)
           /\ Append(f \o b, p) # <<>>
           /\ Append(f \o b, p)[Len(Append(f \o b, p))] = p
<1>1. Append(b, p) = b \o <<p>> /\ <<p>> \in Seq(Nat)
  BY AppendIsConcat
<1>2. f \o b \in Seq(Nat)
  BY ConcatProperties
<1>3. Append(f \o b, p) = (f \o b) \o <<p>>
  BY <1>2, AppendIsConcat
<1>4. f \o (b \o <<p>>) = (f \o b) \o <<p>>
  BY <1>1, PricesAssociative
<1> QED
  BY <1>1, <1>2, <1>3, <1>4, LastOfAppend

\* The state of the abstract stream.
StatusOf(pc) == CASE pc = "new" -> "out" [] pc = "gone" -> "left" [] OTHER -> "in"
Status == [c \in Conns |-> StatusOf(conn[c].pc)]
Givens == [c \in Conns |-> conn[c].frames \o conn[c].buffer]
Heards == [c \in Conns |-> Len(conn[c].frames)]

LEMMA GivenType ==
    ASSUME Typing, NEW c \in Conns
    PROVE  /\ conn[c].frames \in Seq(Nat) /\ conn[c].buffer \in Seq(Nat)
           /\ Given(c) \in Seq(Nat) /\ LastGiven(c) \in Nat
<1>1. conn[c].frames \in Seq(Nat) /\ conn[c].buffer \in Seq(Nat)
  BY DEF Typing, Shapes, ConnStates
<1>2. Given(c) \in Seq(Nat)
  BY <1>1, ConcatProperties DEF Given
<1>3. LastGiven(c) \in Nat
  BY <1>2 DEF LastGiven
<1> QED
  BY <1>1, <1>2, <1>3

\* What a connection does changes nothing of what any was given, and is one step
\* of the abstract stream.
LEMMA ConnectionStreams ==
    ASSUME Typing, NEW c \in Conns, Connection(c)
    PROVE  /\ \A d \in Conns : Given(d)' = Given(d)
           /\ Stream!Hear(c) \/ Stream!Join(c) \/ Stream!Leave(c)
                \/ UNCHANGED <<aired, Status, Givens, Heards>>
<1>0. /\ conn \in [Conns -> ConnStates] /\ conn[c] \in ConnStates
      /\ UNCHANGED <<poller, aired, targets>>
      /\ conn[c].frames \in Seq(Nat) /\ conn[c].buffer \in Seq(Nat)
  BY DEF Typing, Shapes, ConnStates,
         Connection, Subscribe, Receive, Write, ContextDone, Unsubscribe
<1>1. ASSUME NEW pc, conn' = [conn EXCEPT ![c].pc = pc]
      PROVE  /\ \A d \in Conns : Given(d)' = Given(d)
             /\ Givens' = Givens /\ Heards' = Heards
             /\ Status' = [Status EXCEPT ![c] = StatusOf(pc)]
  <2>1. \A d \in Conns : /\ conn'[d].frames = conn[d].frames
                         /\ conn'[d].buffer = conn[d].buffer
                         /\ conn'[d].pc = IF d = c THEN pc ELSE conn[d].pc
    BY <1>0, <1>1 DEF ConnStates
  <2>2. \A d \in Conns : Given(d)' = Given(d)
    BY <2>1 DEF Given
  <2>3. Givens' = Givens /\ Heards' = Heards
    BY <2>1 DEF Givens, Heards
  <2>4. Status' = [Status EXCEPT ![c] = StatusOf(pc)]
    BY <2>1 DEF Status
  <2> QED
    BY <2>2, <2>3, <2>4
<1>2. CASE Subscribe(c)
  <2>1. /\ conn[c].pc = "new" /\ conn' = [conn EXCEPT ![c].pc = "waiting"]
    BY <1>2 DEF Subscribe
  <2>2. Status[c] = "out" /\ Status' = [Status EXCEPT ![c] = "in"]
    <3>1. Status' = [Status EXCEPT ![c] = StatusOf("waiting")]
      BY <1>1, <2>1
    <3>2. Status[c] = "out" /\ StatusOf("waiting") = "in"
      BY <2>1 DEF Status, StatusOf
    <3> QED
      BY <3>1, <3>2
  <2>3. Stream!Join(c)
    BY <1>0, <1>1, <2>1, <2>2 DEF Stream!Join, Status, StatusOf, Givens, Heards
  <2> QED
    BY <1>1, <2>1, <2>3
<1>3. CASE Write(c) \/ ContextDone(c)
  <2>1. PICK pc \in {"waiting", "leaving"} : conn' = [conn EXCEPT ![c].pc = pc]
    BY <1>3 DEF Write, ContextDone
  <2>2. conn[c].pc \in {"waiting", "writing"}
    BY <1>3 DEF Write, ContextDone
  <2>3. Status' = Status
    <3>1. Status[c] = "in" /\ Status' = [Status EXCEPT ![c] = "in"]
      BY <1>1, <2>1, <2>2 DEF Status, StatusOf
    <3> QED
      BY <3>1 DEF Status
  <2> QED
    BY <1>0, <1>1, <2>1, <2>3
<1>4. CASE Unsubscribe(c)
  <2>1. /\ conn[c].pc = "leaving" /\ conn' = [conn EXCEPT ![c].pc = "gone"]
    BY <1>4 DEF Unsubscribe
  <2>2. Status[c] = "in" /\ Status' = [Status EXCEPT ![c] = "left"]
    BY <1>1, <2>1 DEF Status, StatusOf
  <2>3. Stream!Leave(c)
    BY <1>0, <1>1, <2>1, <2>2 DEF Stream!Leave, Status, StatusOf, Givens, Heards
  <2> QED
    BY <1>1, <2>1, <2>3
<1>5. CASE Receive(c)
  <2> DEFINE f == conn[c].frames
             b == conn[c].buffer
             new == [pc |-> "writing", frames |-> Append(f, Head(b)), buffer |-> Tail(b)]
  <2>1. conn[c].pc = "waiting" /\ b # <<>> /\ conn' = [conn EXCEPT ![c] = new]
    BY <1>5 DEF Receive
  <2>2. /\ Append(f, Head(b)) \o Tail(b) = f \o b
        /\ Len(Append(f, Head(b))) = Len(f) + 1
        /\ Len(f) < Len(f \o b)
    BY <1>0, <2>1, MoveOne
  <2>3. new.pc = "writing" /\ new.frames = Append(f, Head(b)) /\ new.buffer = Tail(b)
    OBVIOUS
  <2> HIDE DEF new
  <2>4. \A d \in Conns : conn'[d] = IF d = c THEN new ELSE conn[d]
    BY <1>0, <2>1
  <2>5. ASSUME NEW d \in Conns
        PROVE  conn'[d].frames \o conn'[d].buffer = conn[d].frames \o conn[d].buffer
    BY <2>2, <2>3, <2>4
  <2>6. \A d \in Conns : Given(d)' = Given(d)
    BY <2>5 DEF Given
  <2>7. Givens' = Givens
    BY <2>5 DEF Givens
  <2>8. Status' = Status /\ Status[c] = "in"
    BY <2>1, <2>3, <2>4 DEF Status, StatusOf
  <2>9. Heards' = [Heards EXCEPT ![c] = @ + 1]
    BY <2>2, <2>3, <2>4 DEF Heards
  <2>10. Heards[c] < Len(Givens[c])
    BY <2>2 DEF Heards, Givens
  <2>11. Stream!Hear(c)
    BY <1>0, <2>7, <2>8, <2>9, <2>10 DEF Stream!Hear, Status, StatusOf, Givens, Heards
  <2> QED
    BY <2>6, <2>11
<1> QED
  BY <1>2, <1>3, <1>4, <1>5 DEF Connection

\* An offer gives one subscriber the current price, or nothing.
LEMMA OfferStreams ==
    ASSUME Typing, StreamInv, NEW c \in Conns, Offer(c)
    PROVE  /\ \A d \in Conns \ {c} : Given(d)' = Given(d)
           /\ LastGiven(c)' \in {LastGiven(c), aired}
           /\ Stream!Accept(c) \/ UNCHANGED <<aired, Status, Givens, Heards>>
<1> DEFINE f == conn[c].frames
           b == conn[c].buffer
<1>0. /\ conn \in [Conns -> ConnStates] /\ conn[c] \in ConnStates
      /\ f \in Seq(Nat) /\ b \in Seq(Nat)
      /\ aired \in Nat /\ c \in targets /\ c \in Registered /\ aired' = aired
  BY DEF Typing, TypeOK, Shapes, ConnStates, Offer
<1>1. CASE Len(b) < Buffer
  <2>1. conn' = [conn EXCEPT ![c].buffer = Append(b, aired)]
    BY <1>0, <1>1 DEF Offer
  <2>2. \A d \in Conns : /\ conn'[d].frames = conn[d].frames
                         /\ conn'[d].pc = conn[d].pc
                         /\ conn'[d].buffer = IF d = c THEN Append(b, aired)
                                              ELSE conn[d].buffer
    BY <1>0, <2>1 DEF ConnStates
  <2>3. /\ f \o Append(b, aired) = Append(f \o b, aired)
        /\ Append(f \o b, aired) # <<>>
        /\ Append(f \o b, aired)[Len(Append(f \o b, aired))] = aired
    BY <1>0, GiveOne
  <2>4. \A d \in Conns \ {c} : Given(d)' = Given(d)
    BY <2>2 DEF Given
  <2>5. Given(c)' = Append(f \o b, aired)
    BY <2>2, <2>3 DEF Given
  <2>6. LastGiven(c)' = aired
    BY <2>3, <2>5 DEF LastGiven
  <2>7. Status' = Status /\ Status[c] = "in" /\ Heards' = Heards
    BY <1>0, <2>2 DEF Status, StatusOf, Heards, Registered
  <2>8. Givens' = [Givens EXCEPT ![c] = Append(@, aired)]
    BY <2>2, <2>3 DEF Givens
  <2>9. LastGiven(c) < aired
    BY <1>0 DEF StreamInv
  <2>10. Stream!Newest(c) < aired
    BY <2>9 DEF Stream!Newest, LastGiven, Given
  <2>11. Stream!Accept(c)
    BY <1>0, <2>7, <2>8, <2>10 DEF Stream!Accept, Status, StatusOf, Givens, Heards
  <2> QED
    BY <2>4, <2>6, <2>11
<1>2. CASE ~(Len(b) < Buffer)
  <2>1. conn' = conn
    <3>1. conn' = [conn EXCEPT ![c] = [conn[c] EXCEPT !.buffer = conn[c].buffer]]
      BY <1>2 DEF Offer
    <3>2. [conn[c] EXCEPT !.buffer = conn[c].buffer] = conn[c]
      BY <1>0 DEF ConnStates
    <3> QED
      BY <1>0, <3>1, <3>2
  <2> QED
    BY <1>0, <2>1 DEF Given, LastGiven, Status, Givens, Heards
<1> QED
  BY <1>1, <1>2

LEMMA NextStreamInv == Typing /\ StreamInv /\ [Next]_vars => StreamInv'
<1> SUFFICES ASSUME Typing, StreamInv, [Next]_vars PROVE StreamInv'
  OBVIOUS
<1>0. /\ fetches \in Nat /\ aired \in Nat /\ aired <= fetches /\ poller \in PollerStates
      /\ poller.price \in Nat /\ targets \subseteq Conns
      /\ \A c \in Conns : LastGiven(c) \in Nat
  BY FetchesAssumption, GivenType DEF Typing, TypeOK, Shapes, PollerStates, Registered
\* Steps that give nothing to anybody and broadcast nothing.
<1>1. ASSUME \A c \in Conns : Given(c)' = Given(c), aired' = aired,
             targets' \subseteq targets,
             poller'.pc \in {"store", "publish", "broadcast"} => poller'.price > aired
      PROVE  StreamInv'
  <2>1. \A c \in Conns : LastGiven(c)' = LastGiven(c)
    BY <1>1 DEF LastGiven
  <2> QED
    BY <1>0, <1>1, <2>1 DEF StreamInv
<1>2. ASSUME UNCHANGED <<conn, aired, targets>>,
             poller'.pc \in {"store", "publish", "broadcast"} => poller'.price > aired
      PROVE  StreamInv'
  BY <1>1, <1>2 DEF Given
<1>3. ASSUME NEW r \in Readers, Read(r) PROVE StreamInv'
  BY <1>2, <1>3 DEF StreamInv, Read, LookUp, Hit, Expired, Evict, Fetch, FetchFails,
                    Store, Publish
<1>4. ASSUME NEW c \in Conns, Connection(c) PROVE StreamInv'
  <2>1. UNCHANGED <<poller, aired, targets>>
    BY <1>4 DEF Connection, Subscribe, Receive, Write, ContextDone, Unsubscribe
  <2> QED
    BY <1>1, <1>4, <2>1, ConnectionStreams DEF StreamInv
<1>5. CASE Poll
  <2>1. poller'.price = fetches + 1 /\ UNCHANGED <<conn, aired, targets>>
    BY <1>5 DEF Poll, Answered
  <2>2. poller'.price > aired
    BY <1>0, <2>1
  <2> QED
    BY <1>2, <2>1, <2>2
<1>6. CASE PollStore \/ PollPublish \/ EndBroadcast
  <2>1. /\ UNCHANGED <<conn, aired, targets>>
        /\ \/ poller.pc \in {"store", "publish"} /\ poller'.price = poller.price
           \/ poller'.pc = "waiting"
    BY <1>0, <1>6 DEF PollStore, PollPublish, EndBroadcast, PollerStates
  <2> QED
    BY <1>2, <2>1 DEF StreamInv
<1>7. CASE BeginBroadcast
  <2>1. /\ poller.pc = "broadcast" /\ aired' = poller.price /\ conn' = conn
        /\ poller'.pc = "sending" /\ targets' = Registered
    BY <1>0, <1>7 DEF BeginBroadcast, PollerStates
  <2>2. aired < aired'
    BY <1>0, <2>1 DEF StreamInv
  <2>3. \A c \in Conns : LastGiven(c)' = LastGiven(c)
    BY <2>1 DEF LastGiven, Given
  <2>4. \A c \in Conns : LastGiven(c) < poller.price
    BY <1>0, <2>1, <2>2 DEF StreamInv
  <2> QED
    BY <1>0, <2>1, <2>3, <2>4 DEF StreamInv, Registered
<1>8. ASSUME NEW c \in Conns, Offer(c) PROVE StreamInv'
  <2>1. /\ targets' = targets \ {c} /\ UNCHANGED <<poller, aired>>
    BY <1>8 DEF Offer
  <2>2. \A d \in Conns \ {c} : LastGiven(d)' = LastGiven(d)
    BY <1>8, OfferStreams DEF LastGiven
  <2>3. LastGiven(c)' <= aired
    BY <1>0, <1>8, OfferStreams DEF StreamInv
  <2> QED
    BY <1>0, <2>1, <2>2, <2>3 DEF StreamInv
<1>9. CASE UNCHANGED vars
  BY <1>2, <1>9 DEF vars, StreamInv
<1> QED
  BY <1>3, <1>4, <1>5, <1>6, <1>7, <1>8, <1>9 DEF Next, Round

\* Every step of the service is a step of LossyStream or leaves its state alone.
LEMMA NextImplements ==
    Typing /\ StreamInv /\ [Next]_vars => [Stream!Next]_(Stream!vars)
<1> SUFFICES ASSUME Typing, StreamInv, [Next]_vars PROVE [Stream!Next]_(Stream!vars)
  OBVIOUS
<1>1. UNCHANGED <<aired, Status, Givens, Heards>> => UNCHANGED Stream!vars
  BY DEF Stream!vars, Status, StatusOf, Givens, Heards
<1>2. UNCHANGED <<conn, aired>> => UNCHANGED <<aired, Status, Givens, Heards>>
  BY DEF Status, Givens, Heards
<1>3. ASSUME NEW r \in Readers, Read(r) PROVE UNCHANGED <<conn, aired>>
  BY <1>3 DEF Read, LookUp, Hit, Expired, Evict, Fetch, FetchFails, Store, Publish
<1>4. ASSUME NEW c \in Conns, Connection(c) PROVE [Stream!Next]_(Stream!vars)
  BY <1>1, <1>4, ConnectionStreams DEF Stream!Next
<1>5. CASE BeginBroadcast
  <2>1. /\ poller.pc = "broadcast" /\ aired' = poller.price /\ conn' = conn
        /\ poller.price > aired
    BY <1>5 DEF BeginBroadcast, StreamInv
  <2>2. aired' \in Nat /\ aired' > aired
    BY <2>1 DEF Typing, Shapes, PollerStates
  <2>3. Stream!Air
    BY <2>1, <2>2 DEF Stream!Air
  <2> QED
    BY <2>3 DEF Stream!Next
<1>6. ASSUME NEW c \in Conns, Offer(c) PROVE [Stream!Next]_(Stream!vars)
  BY <1>1, <1>6, OfferStreams DEF Stream!Next
<1>7. CASE Poll \/ PollStore \/ PollPublish \/ EndBroadcast
  BY <1>1, <1>2, <1>7 DEF Poll, PollStore, PollPublish, EndBroadcast
<1>8. CASE UNCHANGED vars
  BY <1>1, <1>2, <1>8 DEF vars
<1> QED
  BY <1>1, <1>2, <1>3, <1>4, <1>5, <1>6, <1>7, <1>8 DEF Next, Round

\* What a websocket client is sent is a subsequence of the broadcasts, in their
\* order and without repetition, and nothing is put into a channel that was closed:
\* the service implements LossyStream (service.go: broadcast, subscribe, unsubscribe).
THEOREM ImplementsLossyStream == Spec => StreamsAreLossy
<1>1. Init => StreamInv
  <2> SUFFICES ASSUME Init PROVE StreamInv
    OBVIOUS
  <2>1. \A c \in Conns : Given(c) = <<>>
    BY DEF Init, Given
  <2> QED
    BY <2>1 DEF Init, StreamInv, LastGiven, Nothing
<1>2. Init => Stream!Init
  BY DEF Init, Stream!Init, Nothing
<1> QED
  BY <1>1, <1>2, NextStreamInv, NextImplements, TypeCorrect, PTL
     DEF Spec, StreamsAreLossy, Stream!Spec
===============================================================================
