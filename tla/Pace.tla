-------------------------------- MODULE Pace --------------------------------
(***************************************************************************)
(* The queue processor in time (processQueue, updateMetrics, sendHeartbeat *)
(* and the retry loop of sendMessages): how long a message waits in the    *)
(* batch, how long the processor is away from the queue, how regular the   *)
(* heartbeats are.  Delivery has what becomes of the messages; here they   *)
(* are only counted.  The replay of the stored messages runs beside it and *)
(* overwrites two settings the retry loop reads.                           *)
(*                                                                         *)
(* Time is discrete.  It passes when the processor waits, for an answer, a *)
(* sleep or its select; what it computes takes no time.  Instead of the    *)
(* time of an event the model keeps its age.                               *)
(***************************************************************************)
EXTENDS Integers

CONSTANTS
    Tick,           \* config.MinBatchInterval
    Second,         \* the unit of the backoff
    Timeout,        \* config.Timeout
    Interval,       \* config.HeartbeatInterval
    MaxRetries, MinBatchSize, MaxBatchSize, MaxQueueSize,
    TargetCPUPercent, TargetMemPercent,
    Percents,       \* what the system reports of its CPU and memory
    Slow,           \* what a backend in good health needs at most for a request
    Unlucky         \* bound on how often in a row a select, which picks at
                    \* random, passes over a tick that is ready

ASSUME PaceAssumption ==
    /\ {Tick, Second, Timeout, Interval, MinBatchSize, MaxBatchSize,
        MaxQueueSize, TargetCPUPercent, TargetMemPercent} \subseteq Nat \ {0}
    /\ {MaxRetries, Slow, Unlucky} \subseteq Nat
    /\ Percents \subseteq 0..100

VARIABLES
    queue,      \* the number of messages in c.queue
    batch,      \* the number of messages in the batch
    metrics,    \* c.metrics
    online,     \* c.connectivity.Online
    tick,       \* the ticker: the time to the next tick, and whether its
                \* channel, which holds one, has one
    passed,     \* how often the select passed over this tick
    proc,       \* where the processor is
    job,        \* what it sends: "full" or "tick", a batch, or "beat"
    attempt,    \* the loop variable of sendMessages
    left,       \* the time left of the request or of the sleep
    limit,      \* the timeout the request under way was begun with, or 0
    replay,     \* how far sendOfflineBatch is
    age         \* how long ago what EventAge lists was

vars == <<queue, batch, metrics, online, tick, passed, proc, job, attempt, left,
          limit, replay, age>>

AtMost(a, b) == IF a <= b THEN a ELSE b
AtLeast(a, b) == IF a >= b THEN a ELSE b

\* The settings are not compared with each other: the lower limit wins.
LargestBatch == AtLeast(MinBatchSize, MaxBatchSize)

\* What sendOfflineBatch writes into the HTTP client's timeout and into
\* config.MaxRetries, in this order; it restores them in the opposite one.
ReplayTimeout == 5 * Second
ReplayRetries == 1

ReplayState == {"idle", "shortened", "limited", "lengthened"}

CurrentTimeout == IF replay = "idle" THEN Timeout ELSE ReplayTimeout
CurrentRetries == IF replay = "limited" THEN ReplayRetries ELSE MaxRetries

\* The worst a call of sendMessages can take: every request times out, and each
\* setting is read when it is the larger of its two values.
Longest == AtLeast(Timeout, ReplayTimeout)
MostRetries == AtLeast(MaxRetries, ReplayRetries)
Effort == (MostRetries + 1) * Longest + Second * ((MostRetries * (MostRetries + 1)) \div 2)

\* The worst between two heartbeats of a healthy client, see Pulse.
Gap == Interval + Tick + (Unlucky + 1) * Slow

\* Ages are counted as far as a property can tell them apart.
EventAge ==
    [last    |-> Interval,          \* c.lastHeartbeat
     current |-> Gap,               \* currentTime of the last heartbeat begun
     trouble |-> Gap,               \* the client was not in good health
     batch   |-> Tick + 1,          \* the batch's first message was read
     away    |-> 2 * Effort + 1]    \* the processor was in its select

TypeOK ==
    /\ queue \in 0..MaxQueueSize
    /\ batch \in 0..LargestBatch
    /\ metrics \in [cpu : 0..100, mem : 0..100, load : 0..100]
    /\ online \in BOOLEAN
    /\ tick \in [next : 1..Tick, ready : BOOLEAN]
    /\ passed \in 0..Unlucky
    /\ proc \in {"select", "flight", "sleep", "swept"}
    /\ job \in {"full", "tick", "beat"}
    /\ attempt \in 0..MostRetries
    /\ left \in 0..(Longest + MostRetries * Second)
    /\ limit \in {0, Timeout, ReplayTimeout}
    /\ replay \in ReplayState
    /\ DOMAIN age = DOMAIN EventAge
    /\ \A e \in DOMAIN age : age[e] \in 0..EventAge[e]

Init ==
    /\ queue = 0
    /\ batch = 0
    /\ metrics = [cpu |-> 0, mem |-> 0, load |-> 0]
    /\ online = TRUE
    /\ tick = [next |-> Tick, ready |-> FALSE]
    /\ passed = 0
    /\ proc = "select"
    /\ job = "tick"
    /\ attempt = 0
    /\ left = 0
    /\ limit = 0
    /\ replay = "idle"
    /\ age = [e \in DOMAIN EventAge |-> 0]
-----------------------------------------------------------------------------
(***************************************************************************)
(* The metrics, and the batch size computed from them, in integers: the    *)
(* factors of the code times 100.                                          *)
(***************************************************************************)
Factor(percent, target) == AtLeast(0, 100 - (100 * percent) \div target)

calculateDynamicBatchSize ==
    LET resourceFactor == 4 * Factor(metrics.cpu, TargetCPUPercent)
                              + 4 * Factor(metrics.mem, TargetMemPercent)
                              + 2 * AtMost(100, 2 * metrics.load)
        batchSize == (MaxBatchSize * resourceFactor) \div 1000
    IN  AtLeast(MinBatchSize, AtMost(batchSize, MaxBatchSize))

\* A second's sample, out of date as soon as it is taken.
updateMetrics ==
    /\ \E c, m \in Percents :
          metrics' = [cpu |-> c, mem |-> m,
                      load |-> (100 * queue) \div MaxQueueSize]
    /\ UNCHANGED <<queue, batch, online, tick, passed, proc, job, attempt, left,
                   limit, replay, age>>
-----------------------------------------------------------------------------
(***************************************************************************)
(* The processor's surroundings.                                           *)
(***************************************************************************)
Publish ==
    /\ queue < MaxQueueSize
    /\ queue' = queue + 1
    /\ UNCHANGED <<batch, metrics, online, tick, passed, proc, job, attempt, left,
                   limit, replay, age>>

\* The monitor, the poller or another goroutine's request.
Connectivity ==
    /\ online' = ~online
    /\ age' = [age EXCEPT !.trouble = 0]
    /\ UNCHANGED <<queue, batch, metrics, tick, passed, proc, job, attempt, left,
                   limit, replay>>

\* sendOfflineBatch sets the timeout and then the retries; it sends its batch;
\* and it restores the retries and then the timeout.  One goroutine calls it.
sendOfflineBatch ==
    /\ replay' = CASE replay = "idle"       -> "shortened"
                   [] replay = "shortened"  -> "limited"
                   [] replay = "limited"    -> "lengthened"
                   [] replay = "lengthened" -> "idle"
    /\ UNCHANGED <<queue, batch, metrics, online, tick, passed, proc, job, attempt,
                   left, limit, age>>
-----------------------------------------------------------------------------
(***************************************************************************)
(* The retry loop of sendMessages.                                         *)
(***************************************************************************)
\* http.Client.Do reads its Timeout once, when the request begins.
Do(n) ==
    /\ proc' = "flight"
    /\ attempt' = n
    /\ limit' = CurrentTimeout
    /\ left' = limit'

\* The call returns; only a heartbeat's tells the processor how it ended.
Return ==
    /\ proc' = IF job = "tick" THEN "swept" ELSE "select"
    /\ batch' = IF job = "beat" THEN batch ELSE 0
    /\ attempt' = 0 /\ left' = 0 /\ limit' = 0

\* Mutant: lastHeartbeat is the time when the heartbeat was through.
SucceedLate ==
    /\ proc = "flight"
    /\ online' = TRUE
    /\ Return
    /\ age' = IF job = "beat" THEN [age EXCEPT !.last = 0] ELSE age
    /\ UNCHANGED <<queue, metrics, tick, passed, job, replay>>

\* 2xx.
Succeed ==
    /\ proc = "flight"
    /\ online' = TRUE
    /\ Return
    /\ age' = IF job = "beat"
              THEN [age EXCEPT !.last = AtMost(age.current, Interval)] ELSE age
    /\ UNCHANGED <<queue, metrics, tick, passed, job, replay>>

\* Mutant: it sleeps after the last attempt as well.
AgainTooOften ==
    /\ proc' = "sleep"
    /\ left' = (attempt + 1) * Second /\ limit' = 0
    /\ UNCHANGED <<batch, attempt>>

\* Sleep, unless this was the last attempt by the limit of the moment.
Again ==
    IF attempt < CurrentRetries
    THEN /\ proc' = "sleep"
         /\ left' = (attempt + 1) * Second /\ limit' = 0
         /\ UNCHANGED <<batch, attempt>>
    ELSE Return

\* The connection fails at any time, or the timeout is over; 5xx or 429; any
\* other answer.
Fail ==
    /\ proc = "flight"
    /\ \/ Again /\ online' = FALSE
       \/ left > 0 /\ Again /\ UNCHANGED online
       \/ left > 0 /\ Return /\ UNCHANGED online
    /\ age' = [age EXCEPT !.trouble = 0]
    /\ UNCHANGED <<queue, metrics, tick, passed, job, replay>>

\* The sleep is over, attempt++ and the test of the for statement.
Wake ==
    /\ proc = "sleep" /\ left = 0
    /\ IF attempt + 1 <= CurrentRetries THEN Do(attempt + 1) /\ UNCHANGED batch
       ELSE Return
    /\ UNCHANGED <<queue, metrics, online, tick, passed, job, replay, age>>
-----------------------------------------------------------------------------
(***************************************************************************)
(* The select of processQueue.                                             *)
(***************************************************************************)
Send(j) ==
    /\ job' = j
    /\ Do(0)

\* Mutant: the batch is full when it has exactly the computed size.
ReceiveExact ==
    /\ proc = "select" /\ queue > 0
    /\ tick.ready => passed < Unlucky
    /\ passed' = IF tick.ready THEN passed + 1 ELSE 0
    /\ queue' = queue - 1
    /\ batch' = batch + 1
    /\ IF batch + 1 = calculateDynamicBatchSize THEN Send("full")
       ELSE UNCHANGED <<proc, job, attempt, left, limit>>
    /\ age' = [age EXCEPT !.away = 0, !.batch = IF batch = 0 THEN 0 ELSE @]
    /\ UNCHANGED <<metrics, online, tick, replay>>

\* case msg := <-c.queue.
Receive ==
    /\ proc = "select" /\ queue > 0
    /\ tick.ready => passed < Unlucky
    /\ passed' = IF tick.ready THEN passed + 1 ELSE 0
    /\ queue' = queue - 1
    /\ batch' = batch + 1
    /\ IF batch + 1 >= calculateDynamicBatchSize THEN Send("full")
       ELSE UNCHANGED <<proc, job, attempt, left, limit>>
    /\ age' = [age EXCEPT !.away = 0, !.batch = IF batch = 0 THEN 0 ELSE @]
    /\ UNCHANGED <<metrics, online, tick, replay>>

\* Mutant: a tick at which a heartbeat is due leaves the batch alone.
TickedForBeat ==
    /\ proc = "select" /\ tick.ready
    /\ tick' = [tick EXCEPT !.ready = FALSE]
    /\ passed' = 0
    /\ IF batch > 0 /\ ~(online /\ age.last >= Interval) THEN Send("tick")
       ELSE proc' = "swept" /\ UNCHANGED <<job, attempt, left, limit>>
    /\ age' = [age EXCEPT !.away = 0]
    /\ UNCHANGED <<queue, batch, metrics, online, replay>>

\* case <-ticker.C: whatever the batch holds is sent first,
Ticked ==
    /\ proc = "select" /\ tick.ready
    /\ tick' = [tick EXCEPT !.ready = FALSE]
    /\ passed' = 0
    /\ IF batch > 0 THEN Send("tick")
       ELSE proc' = "swept" /\ UNCHANGED <<job, attempt, left, limit>>
    /\ age' = [age EXCEPT !.away = 0]
    /\ UNCHANGED <<queue, batch, metrics, online, replay>>

\* and then a heartbeat, if it is time for one.
Heartbeat ==
    /\ proc = "swept"
    /\ IF online /\ age.last >= Interval
       THEN Send("beat") /\ age' = [age EXCEPT !.current = 0]
       ELSE proc' = "select" /\ UNCHANGED <<job, attempt, left, limit, age>>
    /\ UNCHANGED <<queue, batch, metrics, online, tick, passed, replay>>
-----------------------------------------------------------------------------
(***************************************************************************)
(* Time.                                                                   *)
(***************************************************************************)
Waiting ==
    \/ proc \in {"flight", "sleep"} /\ left > 0
    \/ proc = "select" /\ queue = 0 /\ ~tick.ready

\* A client in good health is online and gets its answers in time.
Healthy == online /\ proc # "sleep" /\ (proc = "flight" => left > limit - Slow)

Pass ==
    /\ Waiting
    /\ left' = IF proc = "select" THEN left ELSE left - 1
    /\ tick' = IF tick.next > 1 THEN [tick EXCEPT !.next = @ - 1]
               ELSE [next |-> Tick, ready |-> TRUE]
    /\ age' = [e \in DOMAIN age |->
                  IF \/ e = "trouble" /\ ~Healthy
                     \/ e = "batch" /\ batch = 0
                     \/ e = "away" /\ proc = "select" THEN 0
                  ELSE AtMost(age[e] + 1, EventAge[e])]
    /\ UNCHANGED <<queue, batch, metrics, online, passed, proc, job, attempt, limit,
                   replay>>
-----------------------------------------------------------------------------
Next ==
    \/ updateMetrics \/ Publish \/ Connectivity \/ sendOfflineBatch
    \/ Succeed \/ Fail \/ Wake
    \/ Receive \/ Ticked \/ Heartbeat
    \/ Pass

Spec == Init /\ [][Next]_vars
-----------------------------------------------------------------------------
(***************************************************************************)
(* Safety.                                                                 *)
(***************************************************************************)
\* client_queue.go:53 and config.go, max_batch_size: the metrics a batch grows
\* under are not those it was begun under, yet it is handed over as soon as it
\* has the computed size or more, and never outgrows the larger of the limits.
BatchFits == proc = "select" \/ job = "beat" => batch < LargestBatch

\* README.md, min_batch_interval_ms: a message waits in the batch for one tick
\* at the most, however few follow it, however long the processor was away and
\* whether or not a heartbeat is due.
BatchAge == proc = "select" /\ batch > 0 => age.batch <= Tick

\* client_queue.go:97: a backend that answers nothing, or a heartbeat that
\* fails tick by tick, keeps the processor from its queue and from `done` for
\* two calls of sendMessages at the most, a batch's and a heartbeat's.  A call
\* keeps to no configured limit: the replay (client_offline.go:108 and 115)
\* changes timeout and retries under it, again and again, so the bound is that
\* of the larger timeout with the larger number of retries.
Absence ==
    proc # "select" =>
        age.away <= IF job = "beat" THEN 2 * Effort ELSE Effort

\* README.md:691 "Sends every 30 seconds by default, on the queue processor's
\* tick": a client that has been in good health for that long has begun a
\* heartbeat within the Interval, late by one tick and by the requests the
\* processor was busy with, but not by what the last heartbeat took.
Pulse == AtMost(age.current, age.trouble) < Gap
=============================================================================
