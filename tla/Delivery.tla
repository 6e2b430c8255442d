------------------------------ MODULE Delivery ------------------------------
(***************************************************************************)
(* The outbound pipeline of a managed client (client_publishing.go,        *)
(* client_queue.go, client_offline.go, client_connectivity.go, and Tether  *)
(* and Stop of client.go): Publish puts a message in a bounded queue, in   *)
(* the offline store or straight on the wire; the queue processor batches, *)
(* sends and, on failure, stores; the retrier replays the store; the       *)
(* monitor and the poller keep the online flag; Stop closes `done`, waits  *)
(* for the goroutines and closes the store.  The process may crash and     *)
(* restart on the same store.                                              *)
(*                                                                         *)
(* Abstractions.  The bodies of messages are model values.  The clock      *)
(* counts seconds, the granularity of an RFC3339 key and of a TTL; keys    *)
(* from UnixNano are unique.  Tickers may fire whenever their goroutine    *)
(* waits for them.  The dynamic batch size is any of the values the clamps *)
(* leave (calculateDynamicBatchSize reads CPU and memory load).            *)
(***************************************************************************)
EXTENDS Storage, Sequences

CONSTANTS
    Sync,             \* published with waitResponse, or a cross-account message
    Tethered,         \* produced by the tethered function
    Addressed,        \* published with a destination entity
    Unserializable,   \* json.Marshal of the data fails
    MaxQueueSize, MinBatchSize, MaxBatchSize,
    OfflineStorage, OfflineRetryEnabled, ConnectivityCheckEnabled,
    SendHeartbeat,
    Inbound,          \* a message handler is registered, so the poller polls
    RetryBatchSize,   \* maxBatchSize of retryOfflineMessages, 50
    RetryBatches,     \* maxRetryBatches of retryOfflineMessages, 5
    Faults,           \* how the network may fail, of {"down", "erring"}
    Refused,          \* the backend answers a request with one of these 4xx
    AppStops,         \* the application calls Stop
    MaxClock,         \* bound on the clock
    MaxReboots        \* bound on crashes and restarts

ASSUME DeliveryAssumption ==
    /\ Sync \subseteq Msg
    /\ Tethered \subseteq Msg \ Sync
    /\ Addressed \subseteq Msg \ Tethered
    /\ Unserializable \subseteq Msg
    /\ MaxQueueSize \in Nat \ {0}
    /\ MinBatchSize \in Nat \ {0}
    /\ MaxBatchSize \in Nat \ {0}
    /\ OfflineStorage \in BOOLEAN
    /\ OfflineRetryEnabled \in BOOLEAN
    /\ ConnectivityCheckEnabled \in BOOLEAN
    /\ SendHeartbeat \in BOOLEAN
    /\ Inbound \in BOOLEAN
    /\ RetryBatchSize \in Nat \ {0}
    /\ RetryBatches \in Nat \ {0}
    /\ Faults \subseteq {"down", "erring"}
    /\ Refused \subseteq Msg
    /\ AppStops \in BOOLEAN
    /\ MaxClock \in Nat
    /\ MaxReboots \in Nat
    /\ Msg \cap {"proc", "ret"} = {}

VARIABLES
    pub,        \* per message, how far its Publish call is
    queue,      \* the channel c.queue
    batch,      \* the batch of processQueue, or what is left of it to store
    proc,       \* where processQueue is
    why,        \* which branch of its select processQueue is in
    bucket,     \* the messages bucket of the BoltDB file
    nano,       \* number of "msg_<UnixNano>" keys handed out
    ret,        \* where retryOfflineMessages is
    held,       \* the entries it read and is resending
    rounds,     \* batchesProcessed
    http,       \* per sender, how far its call of sendMessages is
    running,    \* the goroutines c.wg counts
    stop,       \* how far Stop is
    online,     \* c.connectivity.Online
    net,        \* the network and the backend: up, down or erring
    clock,      \* seconds
    reboots,
    received,   \* the backend: what arrived in a request it answered with 2xx
    lost,       \* history: <<m, r>>, a copy of m was destroyed for reason r
    atStop      \* history: the messages accepted when Stop closed `done`

appVars  == <<pub>>
procVars == <<queue, batch, proc, why>>
retVars  == <<ret, held, rounds>>
dbVars   == <<bucket, nano>>
lifeVars == <<running, stop, atStop>>
envVars  == <<net, clock, reboots>>
vars == <<appVars, procVars, retVars, dbVars, http, lifeVars, online, envVars,
          received, lost>>

Sender == {"proc", "ret"} \cup Sync

Goroutine ==
    {"proc"}
    \cup (IF OfflineStorage /\ OfflineRetryEnabled THEN {"ret"} ELSE {})
    \cup (IF ConnectivityCheckEnabled THEN {"mon"} ELSE {})
    \cup (IF Inbound THEN {"poll"} ELSE {})
    \cup (IF Tethered # {} THEN {"teth"} ELSE {})

InProgress == {"enqueue", "store", "direct"}

HttpState == {"idle", "unread", "accepted", "read", "ok", "failed"}

\* calculateDynamicBatchSize: max(MinBatchSize, min(n, MaxBatchSize)) for an n
\* that depends on the load.
DynamicBatchSizes == {MinBatchSize} \cup (MinBatchSize..MaxBatchSize)

Elements(s) == {s[i] : i \in DOMAIN s}

Accepted == {m \in Msg : pub[m] = "ok"}

\* What the backend sees of a message.  A replay is rebuilt from the stored
\* JSON text alone: its destination is gone and its data is a string.
Wire(m, replayed) ==
    [msg  |-> m,
     dest |-> m \in Addressed /\ ~replayed,
     data |-> IF replayed THEN "text" ELSE "object"]

Arrived == {w.msg : w \in received}

\* The messages the client has a copy of.
Kept == Elements(queue) \cup Elements(batch) \cup Stored(bucket)

LostMsgs == {l[1] : l \in lost}

Reason == {"expired", "overwritten", "dropped", "unencodable", "closed",
           "wiped", "volatile"}

\* Copies of the messages ms are destroyed.
Lose(ms, reason) == lost' = lost \cup (ms \X {reason})

TypeOK ==
    /\ pub \in [Msg -> InProgress \cup {"idle", "ok", "error"}]
    /\ queue \in Seq(Msg)
    /\ batch \in Seq(Msg)
    /\ proc \in {"select", "send", "store", "tidy", "beat", "drain", "exited"}
    /\ why \in {"full", "tick", "done"}
    /\ IsBucket(bucket)
    /\ nano \in Nat
    /\ ret \in {"idle", "fetch", "send"}
    /\ IsBucket(held)
    /\ rounds \in 0..(RetryBatches - 1)
    /\ http \in [Sender -> HttpState]
    /\ running \subseteq Goroutine
    /\ stop \in {"running", "closed", "stopped"}
    /\ online \in BOOLEAN
    /\ net \in {"up", "down", "erring"}
    /\ clock \in 0..MaxClock
    /\ reboots \in 0..MaxReboots
    /\ received \subseteq [msg : Msg, dest : BOOLEAN, data : {"object", "text"}]
    /\ lost \subseteq Msg \X Reason
    /\ atStop \subseteq Msg

Init ==
    /\ pub = [m \in Msg |-> "idle"]
    /\ queue = <<>>
    /\ batch = <<>>
    /\ proc = "select"
    /\ why = "tick"
    /\ bucket = EmptyBucket
    /\ nano = 0
    /\ ret = "idle"
    /\ held = EmptyBucket
    /\ rounds = 0
    /\ http = [s \in Sender |-> "idle"]
    /\ running = Goroutine
    /\ stop = "running"
    /\ online = TRUE
    /\ net = "up"
    /\ clock = 0
    /\ reboots = 0
    /\ received = {}
    /\ lost = {}
    /\ atStop = {}
-----------------------------------------------------------------------------
(***************************************************************************)
(* sendMessages, one call of it per sender.  The marshalled request is     *)
(* built once; the loop then performs it up to MaxRetries + 1 times.  A    *)
(* call in "unread" has a request no server has read yet, in "accepted"    *)
(* one whose 2xx answer is on its way, in "read" one that was answered     *)
(* with an error or whose answer was lost.  SendMessages.tla has the loop  *)
(* itself, with its attempts, and implements these steps.                  *)
(***************************************************************************)
Payload(s) ==
    IF s = "proc" THEN Elements(batch)
    ELSE IF s = "ret" THEN Stored(held)
    ELSE {s}

\* The state a call begins in: a batch that json.Marshal refuses fails at
\* once, before any request.
Begin(ms) == IF ms \cap Unserializable = {} THEN "unread" ELSE "failed"

\* The server takes the request and will answer 2xx.
Arrive(s) ==
    /\ http[s] \in {"unread", "read"}
    /\ net = "up"
    /\ Payload(s) \cap Refused = {}
    /\ http' = [http EXCEPT ![s] = "accepted"]
    /\ received' = received \cup {Wire(m, s = "ret") : m \in Payload(s)}
    /\ UNCHANGED <<appVars, procVars, retVars, dbVars, lifeVars, online,
                   envVars, lost>>

\* The 2xx answer is read: the client is online and the call returns nil.
Succeed(s) ==
    /\ http[s] = "accepted"
    /\ http' = [http EXCEPT ![s] = "ok"]
    /\ online' = TRUE
    /\ UNCHANGED <<appVars, procVars, retVars, dbVars, lifeVars, envVars,
                   received, lost>>

\* An error of http.Client.Do, and another attempt to come: a network error,
\* before the request was read or after the server took it, or the refusal of
\* a request whose body an earlier attempt has consumed.
NetworkError(s) ==
    /\ \/ http[s] \in {"unread", "accepted"} /\ net = "down"
       \/ http[s] = "read"
    /\ http' = [http EXCEPT ![s] = IF @ = "unread" THEN "unread" ELSE "read"]
    /\ online' = FALSE
    /\ UNCHANGED <<appVars, procVars, retVars, dbVars, lifeVars, envVars,
                   received, lost>>

\* A 5xx or 429 answer, and another attempt to come.
ServerError(s) ==
    /\ http[s] \in {"unread", "read"}
    /\ net = "erring"
    /\ http' = [http EXCEPT ![s] = "read"]
    /\ UNCHANGED <<appVars, procVars, retVars, dbVars, lifeVars, online,
                   envVars, received, lost>>

\* A 4xx answer, to a request with something in it the backend will not take:
\* the call returns an error at once, and the flag stays as it is.
Refuse(s) ==
    /\ http[s] \in {"unread", "read"}
    /\ net = "up"
    /\ Payload(s) \cap Refused # {}
    /\ http' = [http EXCEPT ![s] = "failed"]
    /\ UNCHANGED <<appVars, procVars, retVars, dbVars, lifeVars, online,
                   envVars, received, lost>>

\* The call returns an error: the attempts are used up.  In "read" the last
\* attempt failed, in either way.
GiveUp(s) ==
    /\ \/ /\ http[s] \in {"unread", "accepted"}
          /\ net = "down"
          /\ online' = FALSE
       \/ /\ http[s] = "unread"
          /\ net = "erring"
          /\ online' = online
       \/ /\ http[s] = "read"
          /\ online' \in {FALSE, online}
    /\ http' = [http EXCEPT ![s] = "failed"]
    /\ UNCHANGED <<appVars, procVars, retVars, dbVars, lifeVars, envVars,
                   received, lost>>

SendMessages(s) ==
    \/ Arrive(s) \/ Succeed(s) \/ Refuse(s)
    \/ NetworkError(s) \/ ServerError(s) \/ GiveUp(s)
-----------------------------------------------------------------------------
(***************************************************************************)
(* Publish.  The application calls it once per message, from any goroutine *)
(* of its own, and only before it calls Stop; the tethered function's      *)
(* goroutine calls it whenever its select picks the ticker.                *)
(***************************************************************************)
TetherBusy == \E m \in Tethered : pub[m] \in InProgress

Publish(m) ==
    /\ pub[m] = "idle"
    /\ IF m \in Tethered
       THEN "teth" \in running /\ ~TetherBusy
       ELSE stop = "running"
    /\ pub' = [pub EXCEPT ![m] =
                  IF m \in Sync THEN "direct"
                  ELSE IF ~online /\ OfflineStorage THEN "store"
                  ELSE "enqueue"]
    /\ http' = IF m \in Sync THEN [http EXCEPT ![m] = Begin({m})] ELSE http
    /\ UNCHANGED <<procVars, retVars, dbVars, lifeVars, online, envVars,
                   received, lost>>

\* The non-blocking send on c.queue, and its default branch.
Enqueue(m) ==
    /\ pub[m] = "enqueue"
    /\ IF Len(queue) < MaxQueueSize
       THEN /\ queue' = Append(queue, m)
            /\ pub' = [pub EXCEPT ![m] = "ok"]
       ELSE /\ pub' = [pub EXCEPT ![m] =
                          IF OfflineStorage THEN "store" ELSE "error"]
            /\ UNCHANGED queue
    /\ UNCHANGED <<batch, proc, why, retVars, dbVars, http, lifeVars, online,
                   envVars, received, lost>>

\* Mutant: the offline branch of Publish falls through to the queue.
StorePublishedAndEnqueue(m) ==
    /\ pub[m] = "store"
    /\ pub' = [pub EXCEPT ![m] = "enqueue"]
    /\ bucket' = Put(bucket, NanoKey(nano), m, clock)
    /\ nano' = nano + 1
    /\ UNCHANGED <<procVars, retVars, http, lifeVars, online, envVars,
                   received, lost>>

\* Mutant: the key does not tell two messages apart.
StorePublishedSameKey(m) ==
    /\ pub[m] = "store"
    /\ pub' = [pub EXCEPT ![m] = "ok"]
    /\ bucket' = Put(bucket, NanoKey(nano), m, clock)
    /\ UNCHANGED <<procVars, retVars, nano, http, lifeVars, online, envVars,
                   received, lost>>

\* storage.Store under a nanosecond key; a closed database refuses it.
StorePublished(m) ==
    /\ pub[m] = "store"
    /\ IF m \in Unserializable \/ stop = "stopped"
       THEN /\ pub' = [pub EXCEPT ![m] = "error"]
            /\ UNCHANGED dbVars
       ELSE /\ pub' = [pub EXCEPT ![m] = "ok"]
            /\ bucket' = Put(bucket, NanoKey(nano), m, clock)
            /\ nano' = nano + 1
    /\ UNCHANGED <<procVars, retVars, http, lifeVars, online, envVars,
                   received, lost>>

\* Mutant: the error of the direct call is dropped.
SentDirectlyUnchecked(m) ==
    /\ pub[m] = "direct"
    /\ http[m] \in {"ok", "failed"}
    /\ pub' = [pub EXCEPT ![m] = "ok"]
    /\ http' = [http EXCEPT ![m] = "idle"]
    /\ UNCHANGED <<procVars, retVars, dbVars, lifeVars, online, envVars,
                   received, lost>>

\* The direct call of sendMessages returns to the caller of Publish.
SentDirectly(m) ==
    /\ pub[m] = "direct"
    /\ http[m] \in {"ok", "failed"}
    /\ pub' = [pub EXCEPT ![m] = IF http[m] = "ok" THEN "ok" ELSE "error"]
    /\ http' = [http EXCEPT ![m] = "idle"]
    /\ UNCHANGED <<procVars, retVars, dbVars, lifeVars, online, envVars,
                   received, lost>>
-----------------------------------------------------------------------------
(***************************************************************************)
(* processQueue.                                                           *)
(***************************************************************************)
\* flushBatch and the tick's send: call sendMessages with the batch b.
ProcSend(b, w) ==
    /\ batch' = b
    /\ proc' = "send"
    /\ why' = w
    /\ http' = [http EXCEPT !["proc"] = Begin(Elements(b))]

\* Mutant: the batch is flushed one message late.
ProcReceiveLate ==
    /\ proc = "select"
    /\ queue # <<>>
    /\ queue' = Tail(queue)
    /\ LET b == Append(batch, Head(queue)) IN
       \E size \in DynamicBatchSizes :
          IF Len(b) > size
          THEN ProcSend(b, "full")
          ELSE batch' = b /\ UNCHANGED <<proc, why, http>>
    /\ UNCHANGED <<appVars, retVars, dbVars, lifeVars, online, envVars,
                   received, lost>>

\* case msg := <-c.queue.  The batch is flushed once it reaches the dynamic
\* batch size.
ProcReceive ==
    /\ proc = "select"
    /\ queue # <<>>
    /\ queue' = Tail(queue)
    /\ LET b == Append(batch, Head(queue)) IN
       \E size \in DynamicBatchSizes :
          IF Len(b) >= size
          THEN ProcSend(b, "full")
          ELSE batch' = b /\ UNCHANGED <<proc, why, http>>
    /\ UNCHANGED <<appVars, retVars, dbVars, lifeVars, online, envVars,
                   received, lost>>

\* Mutant: a tick that finds no batch does nothing.
ProcTickIdle ==
    /\ proc = "select"
    /\ batch # <<>>
    /\ ProcSend(batch, "tick")
    /\ UNCHANGED <<appVars, queue, retVars, dbVars, lifeVars, online, envVars,
                   received, lost>>

\* case <-ticker.C.
ProcTick ==
    /\ proc = "select"
    /\ IF batch # <<>>
       THEN ProcSend(batch, "tick")
       ELSE proc' = "tidy" /\ UNCHANGED <<batch, why, http>>
    /\ UNCHANGED <<appVars, queue, retVars, dbVars, lifeVars, online, envVars,
                   received, lost>>

\* Mutant: on `done` the processor flushes the assembled batch only.
ProcDoneWithoutDrain ==
    /\ proc = "select"
    /\ stop # "running"
    /\ IF batch # <<>>
       THEN ProcSend(batch, "done") /\ UNCHANGED running
       ELSE /\ proc' = "exited"
            /\ running' = running \ {"proc"}
            /\ UNCHANGED <<batch, why, http>>
    /\ UNCHANGED <<appVars, queue, retVars, dbVars, stop, atStop, online,
                   envVars, received, lost>>

\* case <-c.done.
ProcDone ==
    /\ proc = "select"
    /\ stop # "running"
    /\ proc' = "drain"
    /\ UNCHANGED <<appVars, queue, batch, why, retVars, dbVars, http, lifeVars,
                   online, envVars, received, lost>>

\* One turn of the drain loop that finds a message.
ProcDrain ==
    /\ proc = "drain"
    /\ queue # <<>>
    /\ batch' = Append(batch, Head(queue))
    /\ queue' = Tail(queue)
    /\ UNCHANGED <<appVars, proc, why, retVars, dbVars, http, lifeVars, online,
                   envVars, received, lost>>

ProcExit ==
    /\ proc' = "exited"
    /\ running' = running \ {"proc"}

\* The turn of the drain loop that finds the queue empty.
ProcDrained ==
    /\ proc = "drain"
    /\ queue = <<>>
    /\ IF batch # <<>>
       THEN ProcSend(batch, "done") /\ UNCHANGED running
       ELSE ProcExit /\ UNCHANGED <<batch, why, http>>
    /\ UNCHANGED <<appVars, queue, retVars, dbVars, stop, atStop, online,
                   envVars, received, lost>>

\* Where the processor goes when a batch is dealt with.
ProcNext ==
    /\ why' = "tick"
    /\ \/ why = "full" /\ proc' = "select" /\ UNCHANGED running
       \/ why = "tick" /\ proc' = "tidy" /\ UNCHANGED running
       \/ why = "done" /\ ProcExit

\* sendMessages returns nil: batch = batch[:0].
ProcSent ==
    /\ proc = "send"
    /\ http["proc"] = "ok"
    /\ http' = [http EXCEPT !["proc"] = "idle"]
    /\ batch' = <<>>
    /\ ProcNext
    /\ UNCHANGED <<appVars, queue, retVars, dbVars, stop, atStop, online,
                   envVars, received, lost>>

\* Mutant: the error of sendMessages is discarded, and the batch with it.
ProcFailedDiscards ==
    /\ proc = "send"
    /\ http["proc"] = "failed"
    /\ http' = [http EXCEPT !["proc"] = "idle"]
    /\ batch' = <<>>
    /\ ProcNext
    /\ UNCHANGED <<appVars, queue, retVars, dbVars, stop, atStop, online,
                   envVars, received, lost>>

\* Mutant: the last batch is sent again and again until it succeeds.
ProcFailedInsists ==
    /\ proc = "send"
    /\ http["proc"] = "failed"
    /\ IF why = "done"
       THEN /\ http' = [http EXCEPT !["proc"] = "unread"]
            /\ UNCHANGED <<proc, why, batch, lost, running>>
       ELSE /\ http' = [http EXCEPT !["proc"] = "idle"]
            /\ proc' = "store" /\ UNCHANGED <<batch, why, lost, running>>
    /\ UNCHANGED <<appVars, queue, retVars, dbVars, stop, atStop, online,
                   envVars, received>>

\* sendMessages returns an error: the batch is stored, or dropped if there is
\* no storage.
ProcFailed ==
    /\ proc = "send"
    /\ http["proc"] = "failed"
    /\ http' = [http EXCEPT !["proc"] = "idle"]
    /\ IF OfflineStorage
       THEN proc' = "store" /\ UNCHANGED <<batch, why, lost, running>>
       ELSE /\ batch' = <<>>
            /\ Lose(Elements(batch), "dropped")
            /\ ProcNext
    /\ UNCHANGED <<appVars, queue, retVars, dbVars, stop, atStop, online,
                   envVars, received>>

\* One turn of the loop of storeFailedBatch, or of its twin in the tick
\* branch: data that does not marshal is skipped, a Store that fails is
\* ignored, and the key is the current second.
ProcStore ==
    /\ proc = "store"
    /\ LET m == Head(batch)
           k == SecondKey(clock)
       IN  IF m \in Unserializable \/ stop = "stopped"
           THEN /\ Lose({m}, IF m \in Unserializable THEN "unencodable"
                             ELSE "closed")
                /\ UNCHANGED bucket
           ELSE /\ Lose(MessagesAt(bucket, {k} \cap DOMAIN bucket),
                        "overwritten")
                /\ bucket' = Put(bucket, k, m, clock)
    /\ batch' = Tail(batch)
    /\ IF Tail(batch) = <<>> THEN ProcNext ELSE UNCHANGED <<proc, why, running>>
    /\ UNCHANGED <<appVars, queue, retVars, nano, http, stop, atStop,
                   online, envVars, received>>

\* The rest of the tick branch: CleanupExpired, then a heartbeat if one is due
\* (when one is due is left open).
ProcTidy ==
    /\ proc = "tidy"
    /\ IF OfflineStorage
       THEN /\ bucket' \in CleanupExpired(bucket, clock)
            /\ Lose(MessagesAt(bucket, DOMAIN bucket \ DOMAIN bucket'),
                    "expired")
       ELSE UNCHANGED <<bucket, lost>>
    /\ \/ /\ SendHeartbeat /\ online
          /\ proc' = "beat"
          /\ http' = [http EXCEPT !["proc"] = Begin({})]
       \/ /\ proc' = "select"
          /\ UNCHANGED http
    /\ UNCHANGED <<appVars, queue, batch, why, retVars, nano, lifeVars, online,
                   envVars, received>>

\* sendHeartbeat returns; its error is ignored.
ProcBeaten ==
    /\ proc = "beat"
    /\ http["proc"] \in {"ok", "failed"}
    /\ http' = [http EXCEPT !["proc"] = "idle"]
    /\ proc' = "select"
    /\ UNCHANGED <<appVars, queue, batch, why, retVars, dbVars, lifeVars,
                   online, envVars, received, lost>>
-----------------------------------------------------------------------------
(***************************************************************************)
(* processOfflineRetries and retryOfflineMessages.                         *)
(***************************************************************************)
RetTick ==
    /\ "ret" \in running
    /\ ret = "idle"
    /\ online
    /\ ret' = "fetch"
    /\ UNCHANGED <<appVars, procVars, held, rounds, dbVars, http, lifeVars, online,
                   envVars, received, lost>>

\* retryOfflineMessages returns; its counter is local.
RetReturn ==
    /\ ret' = "idle"
    /\ rounds' = 0

\* batchesProcessed++, and the test of the loop.
NextRound ==
    IF rounds + 1 < RetryBatches
    THEN rounds' = rounds + 1 /\ ret' = "fetch"
    ELSE RetReturn

\* GetBatch, the expiry test and the deletion of the expired ids.  They are
\* one step: an expired key is at least TTL seconds old, so no Put can reuse
\* it before it is deleted.
RetFetch ==
    /\ ret = "fetch"
    /\ LET read == GetBatch(bucket, RetryBatchSize)
           old  == ExpiredKeys(read, clock)
           live == DeleteBatch(read, old)
       IN  /\ bucket' = DeleteBatch(bucket, old)
           /\ Lose(MessagesAt(read, old), "expired")
           /\ IF DOMAIN live # {}
              THEN /\ ret' = "send"
                   /\ held' = live
                   /\ http' = [http EXCEPT !["ret"] = "unread"]
                   /\ UNCHANGED rounds
              ELSE /\ IF DOMAIN read = {} THEN RetReturn ELSE NextRound
                   /\ UNCHANGED <<held, http>>
    /\ UNCHANGED <<appVars, procVars, nano, lifeVars, online, envVars,
                   received>>

\* Mutant: the replayed messages are not deleted.
RetSentKeeps ==
    /\ ret = "send"
    /\ http["ret"] = "ok"
    /\ http' = [http EXCEPT !["ret"] = "idle"]
    /\ held' = EmptyBucket
    /\ NextRound
    /\ UNCHANGED <<appVars, procVars, dbVars, lifeVars, online, envVars,
                   received, lost>>

\* sendOfflineBatch returned true: DeleteBatch(idsToDelete) by key, whatever
\* the keys hold by now.
RetSent ==
    /\ ret = "send"
    /\ http["ret"] = "ok"
    /\ http' = [http EXCEPT !["ret"] = "idle"]
    /\ bucket' = DeleteBatch(bucket, DOMAIN held)
    /\ LET other == {k \in DOMAIN held \cap DOMAIN bucket :
                        bucket[k] # held[k]}
       IN  Lose(MessagesAt(bucket, other), "wiped")
    /\ held' = EmptyBucket
    /\ NextRound
    /\ UNCHANGED <<appVars, procVars, nano, lifeVars, online, envVars,
                   received>>

\* Mutant: the messages are deleted although the replay failed.
RetFailedDeletes ==
    /\ ret = "send"
    /\ http["ret"] = "failed"
    /\ http' = [http EXCEPT !["ret"] = "idle"]
    /\ bucket' = DeleteBatch(bucket, DOMAIN held)
    /\ held' = EmptyBucket
    /\ RetReturn
    /\ UNCHANGED <<appVars, procVars, nano, lifeVars, online, envVars,
                   received, lost>>

\* sendOfflineBatch returned false: sleep, return, keep the messages.
RetFailed ==
    /\ ret = "send"
    /\ http["ret"] = "failed"
    /\ http' = [http EXCEPT !["ret"] = "idle"]
    /\ held' = EmptyBucket
    /\ RetReturn
    /\ UNCHANGED <<appVars, procVars, dbVars, lifeVars, online,
                   envVars, received, lost>>

RetDone ==
    /\ "ret" \in running
    /\ ret = "idle"
    /\ stop # "running"
    /\ running' = running \ {"ret"}
    /\ UNCHANGED <<appVars, procVars, retVars, dbVars, http, stop, atStop,
                   online, envVars, received, lost>>
-----------------------------------------------------------------------------
(***************************************************************************)
(* The other goroutines, and Stop.                                         *)
(***************************************************************************)
\* checkConnectivity: a HEAD of /health, online iff it answers 2xx or 3xx.
\* The flag may be stale at once, since the network changes at any time.
Probe ==
    /\ "mon" \in running
    /\ online' = (net = "up")
    /\ UNCHANGED <<appVars, procVars, retVars, dbVars, http, lifeVars, envVars,
                   received, lost>>

\* CheckMessages as the poller calls it: an error answer leaves the flag.
Poll ==
    /\ "poll" \in running
    /\ net # "erring"
    /\ online' = (net = "up")
    /\ UNCHANGED <<appVars, procVars, retVars, dbVars, http, lifeVars, envVars,
                   received, lost>>

\* case <-c.done of the monitor and of the poller.
Leave(g) ==
    /\ g \in running \cap {"mon", "poll"}
    /\ stop # "running"
    /\ running' = running \ {g}
    /\ UNCHANGED <<appVars, procVars, retVars, dbVars, http, stop, atStop,
                   online, envVars, received, lost>>

TetherReturn ==
    /\ "teth" \in running
    /\ ~TetherBusy
    /\ running' = running \ {"teth"}
    /\ UNCHANGED <<appVars, procVars, retVars, dbVars, http, stop, atStop,
                   online, envVars, received, lost>>

\* case <-c.done, and case <-stopChan after the application called the stop
\* function Tether returned.
TetherDone    == stop # "running" /\ TetherReturn
TetherStopped == stop = "running" /\ TetherReturn

\* Stop up to close(c.done).
StopClose ==
    /\ AppStops
    /\ stop = "running"
    /\ stop' = "closed"
    /\ atStop' = Accepted
    /\ UNCHANGED <<appVars, procVars, retVars, dbVars, http, running, online,
                   envVars, received, lost>>

\* Mutant: the store is closed without waiting for the goroutines.
StopFinishAtOnce ==
    /\ stop = "closed"
    /\ stop' = "stopped"
    /\ UNCHANGED <<appVars, procVars, retVars, dbVars, http, running, atStop,
                   online, envVars, received, lost>>

\* c.wg.Wait() returns and the store is closed.
StopFinish ==
    /\ stop = "closed"
    /\ running = {}
    /\ stop' = "stopped"
    /\ UNCHANGED <<appVars, procVars, retVars, dbVars, http, running, atStop,
                   online, envVars, received, lost>>

\* The process dies, or ends after Stop, and a new client opens the same file.
\* What was only in memory is gone; a call in progress never returns.
Reboot ==
    /\ reboots < MaxReboots
    /\ reboots' = reboots + 1
    /\ pub' = [m \in Msg |-> IF pub[m] \in InProgress THEN "error" ELSE pub[m]]
    /\ Lose(Elements(queue) \cup Elements(batch), "volatile")
    /\ queue' = <<>>
    /\ batch' = <<>>
    /\ proc' = "select"
    /\ why' = "tick"
    /\ ret' = "idle"
    /\ held' = EmptyBucket
    /\ rounds' = 0
    /\ http' = [s \in Sender |-> "idle"]
    /\ running' = Goroutine
    /\ stop' = "running"
    /\ atStop' = {}
    /\ online' = TRUE
    /\ UNCHANGED <<dbVars, net, clock, received>>

NetChange ==
    /\ net' \in ({"up"} \cup Faults) \ {net}
    /\ UNCHANGED <<appVars, procVars, retVars, dbVars, http, lifeVars, online,
                   clock, reboots, received, lost>>

Tick ==
    /\ clock < MaxClock
    /\ clock' = clock + 1
    /\ UNCHANGED <<appVars, procVars, retVars, dbVars, http, lifeVars, online,
                   net, reboots, received, lost>>
-----------------------------------------------------------------------------
ProcStep ==
    \/ ProcReceive \/ ProcTick \/ ProcDone \/ ProcDrain \/ ProcDrained
    \/ ProcSent \/ ProcFailed \/ ProcStore \/ ProcTidy \/ ProcBeaten

RetStep == RetTick \/ RetFetch \/ RetSent \/ RetFailed \/ RetDone

Next ==
    \/ \E m \in Msg : Publish(m) \/ Enqueue(m) \/ StorePublished(m)
    \/ \E m \in Sync : SentDirectly(m)
    \/ \E s \in Sender : SendMessages(s)
    \/ ProcStep
    \/ RetStep
    \/ Probe \/ Poll
    \/ \E g \in {"mon", "poll"} : Leave(g)
    \/ TetherDone \/ TetherStopped
    \/ StopClose \/ StopFinish
    \/ Reboot
    \/ NetChange \/ Tick

Spec == Init /\ [][Next]_vars
-----------------------------------------------------------------------------
(***************************************************************************)
(* Safety.                                                                 *)
(***************************************************************************)
\* Conservation: a message whose Publish returned nil is in the queue, in the
\* batch, in the store or at the backend, or its copy was destroyed in one of
\* the ways `lost` names.  (Publish, processQueue, retryOfflineMessages,
\* CleanupExpired, Stop and a crash all take part.)  One of these ways is
\* "unencodable", a message that cannot be marshalled when its failed batch is
\* stored.  The repository's README.md:632, "these return an error", promises for
\* such a message that PublishAsync returns an error; it does when it marshals the
\* message for the store, and returns nil when it only queues it.
Accounted == Accepted \subseteq Kept \cup Arrived \cup LostMsgs

\* One place at a time: a message has at most one copy among the queue, the
\* batch and the store, so the processor and the retrier never both send it,
\* and none before Publish decided where it goes.
OneCopy ==
    /\ \A i, j \in DOMAIN queue : queue[i] = queue[j] => i = j
    /\ \A i, j \in DOMAIN batch : batch[i] = batch[j] => i = j
    /\ \A j, k \in DOMAIN bucket : bucket[j].msg = bucket[k].msg => j = k
    /\ Elements(queue) \cap Elements(batch) = {}
    /\ (Elements(queue) \cup Elements(batch)) \cap Stored(bucket) = {}
    /\ Elements(queue) \cup Elements(batch) \cup Stored(bucket) \subseteq Accepted

\* A message published with waitResponse, or to another account, is at the
\* backend when the call returns without an error, whatever the network did
\* meanwhile.
DirectMeansDelivered ==
    \A m \in Sync : pub[m] = "ok" => m \in Arrived

\* client_shutdown_test.go:15 "Stop() must send what is still queued": once
\* the processor has left, nothing that was accepted before Stop closed `done`
\* is still in the queue or the batch.
DrainComplete ==
    proc = "exited" => atStop \cap (Elements(queue) \cup Elements(batch)) = {}

\* client_shutdown_test.go:130 "Stop() must also wait for the drain before
\* closing storage": no goroutine of the client ever finds the store closed,
\* and none is at work when Stop has returned.
StorageOutlivesWorkers ==
    /\ \A m \in Msg : <<m, "closed">> \notin lost
    /\ stop = "stopped" => /\ proc = "exited" /\ ret = "idle"
                           /\ http["proc"] = "idle" /\ http["ret"] = "idle"

\* The capacity of the channel and the clamps of the dynamic batch size bound
\* what the client holds in memory, except for the shutdown drain.
MemoryBounded ==
    /\ Len(queue) <= MaxQueueSize
    /\ stop = "running" => \E n \in DynamicBatchSizes : Len(batch) <= n

\* What Publish stored stays stored until the backend has it or its hour is
\* over, through failed replays, cleanup, Stop and crashes.
StoredUntilDelivered ==
    [][\A k \in DOMAIN bucket :
          k.kind = "nano" =>
              \/ k \in DOMAIN bucket' /\ bucket'[k] = bucket[k]
              \/ bucket[k].msg \in Arrived
              \/ Expired(bucket[k], clock)]_vars

-----------------------------------------------------------------------------
(***************************************************************************)
(* Liveness.  The Go scheduler runs every goroutine that can run.  An HTTP *)
(* call ends: http.Client has a timeout and the attempts are bounded, so   *)
(* it can neither wait nor go on failing and retrying for ever.  A select  *)
(* picks at random among its ready cases, so one that is ready again and   *)
(* again is taken: strong fairness for the cases a ticker competes with.   *)
(***************************************************************************)
Answered(s) == Arrive(s) \/ Refuse(s)
Returns(s)  == Succeed(s) \/ GiveUp(s)

Fairness ==
    /\ \A m \in Msg : WF_vars(Enqueue(m)) /\ WF_vars(StorePublished(m))
    /\ \A m \in Sync : WF_vars(SentDirectly(m))
    /\ \A s \in Sender : /\ WF_vars(Answered(s) \/ Returns(s))
                         /\ WF_vars(Returns(s))
    /\ SF_vars(ProcReceive) /\ WF_vars(ProcTick) /\ SF_vars(ProcDone)
    /\ WF_vars(ProcDrain \/ ProcDrained \/ ProcSent \/ ProcFailed \/ ProcStore
                  \/ ProcTidy \/ ProcBeaten)
    /\ WF_vars(RetTick) /\ SF_vars(RetDone)
    /\ WF_vars(RetFetch \/ RetSent \/ RetFailed)
    /\ WF_vars(Probe) /\ WF_vars(Poll)
    /\ \A g \in {"mon", "poll"} : WF_vars(Leave(g))
    /\ WF_vars(TetherDone)
    /\ WF_vars(StopFinish)

LiveSpec == Spec /\ Fairness

\* What a refused message at the head of the store keeps from being replayed:
\* each cycle reads the same first batch, and ends when that batch fails.
Withheld ==
    IF Stored(GetBatch(bucket, RetryBatchSize)) \cap Refused # {}
    THEN Stored(bucket) ELSE {}

\* Once the network stays up and the client goes on running, every accepted
\* message comes to be at the backend, unless its copy was destroyed on record
\* or a refused one is before it in the store: nothing stays in the queue or
\* the batch for ever, and nothing in the store but for that reason.
EventuallyDelivered ==
    <>[](net = "up" /\ stop = "running") =>
        <>[](Accepted \subseteq Arrived \cup LostMsgs \cup Withheld)

\* README.md:156 "or its 1-hour TTL expires": while the client runs, a message
\* whose hour is over does not stay in the store, whatever the network does:
\* the processor comes back to its tick from every send, and the retrier, if
\* it is online, skips nothing for ever.
NothingOverstays ==
    <>[](stop = "running") => <>[](ExpiredKeys(bucket, clock) = {})

\* The refinement mapping to Outbox.
Promise == INSTANCE Outbox WITH
    Direct <- Sync, accepted <- Accepted, kept <- Kept,
    delivered <- Arrived, gone <- LostMsgs

\* Delivery implements Outbox: no step of any goroutine, no fault and no crash
\* makes a kept message vanish without a delivery or a record of its loss.
ImplementsOutbox == Promise!OutboxSpec

\* The calls of sendMessages in Delivery are the ones SendMessages implements.
Service == INSTANCE Calls WITH Caller <- Sender, call <- http

\* Every goroutine uses sendMessages as Calls offers it: one result per call,
\* and nobody takes a failed call for one that is still on its way.
UsesCalls == Service!CallsSpec

\* Stop is not under way for ever: the select loops notice `done`, the drain
\* ends, the retry cycle ends, whatever the network does.
StopReturns == []<>(stop # "closed")
=============================================================================
