# A TLA+ model of the Tendrl Go client

The repository is a Go library (package `tendrl`) through which a program, an
*entity*, exchanges messages with the Tendrl backend over HTTP. A client in
managed mode runs up to five goroutines behind its API and keeps an offline
store on disk. What the library promises is delivery: a message it accepted
reaches the backend, or the reason why not is one of a few. This project
models the goroutines, what they share and what fails around them, checks it
with TLC on small instances and proves the central properties with TLAPS.

Line numbers below refer to `src/tendrl/` unless a path is given.

## 1. The system

| component | state | operations | interacts with |
|---|---|---|---|
| publishing (`client_publishing.go`, `client_helpers.go`) | none of its own | `Publish`, `PublishAsync`, `PublishSensorData`, `PublishCrossAccount`, `PublishHeartbeat` | reads the online flag; puts a message in the queue, in the store, or calls `sendMessages` itself |
| sendMessages (`client_publishing.go:123`) | per call: attempt, request body. Shared: `config.MaxRetries`, `httpClient.Timeout` | the retry loop | sets the online flag from what its requests come to |
| queue processor (`client_queue.go`) | the channel `queue`, the batch, the tick | receive, tick, drain on `done`, `flushBatch`, `storeFailedBatch` | `sendMessages`, store, heartbeat |
| offline store (`storage.go`) | one BoltDB bucket: key to message, time stamp, TTL | `Store`, `GetBatch`, `DeleteBatch`, `CleanupExpired`, `Close` | survives a crash |
| offline retrier (`client_offline.go`) | entries read and being resent, rounds of a cycle | `retryOfflineMessages`, `sendOfflineBatch` | store, `sendMessages`; overwrites the shared settings |
| connectivity monitor (`client_connectivity.go`) | the online flag | probe of `/health` | read by publishing, processor, retrier |
| lifecycle (`client.go`) | `done`, the wait group | constructors, `Stop`, `Tether`, `updateEntityStatus` | starts and waits for every goroutine, closes the store last; tells the backend that the entity is online or not |
| configuration (`config.go`) | up to two files | `LoadConfigFile`, `toConfig`, `ApplyManagedGating`, `InitializeConfig` | read by the constructors |
| metrics (`updateMetrics`) | CPU, memory and queue load, once a second | `calculateDynamicBatchSize` | read by the processor for every message |
| heartbeat (`client_heartbeat.go`) | time of the last one | sent from the processor's tick | blocks the processor while it is sent |
| inbound poller (`client_callbacks.go`) | the check rate, `rateChanged`, the timer | `startMessageChecking`, `CheckMessages`, `SetMessageCheckRate` | calls handlers; sets the online flag |
| routing (`client_routes.go`) | the handlers | `On`, `OnDefault`, `dispatchMessage` | called by the poller |
| state table (`client_state.go`) | the last table seen | `CheckState`, `OnState` | called by the poller and by the application |
| files (`client_files.go`), data model (`models.go`) | - | - | see section 8 |

What is hard in this code, with lines, is the list `hazards` of
`PROJECT.json`. The themes: publishers, processor and retrier move messages
between queue, batch, store and wire without a common lock; requests may have
been taken although they failed; the store is keyed by time; the retrier
overwrites settings everyone else is reading; `Stop` must wait for all of them
in the right order and may be called from one of them; the processor does four
things in one goroutine, each of which delays the others; and the process may
die between any two steps.

What makes each component correct:

- *pipeline*: no accepted message disappears without a delivery or a recorded
  reason; it is in one place at a time; what is stored stays stored until
  delivered or expired; progress once the network is up.
- *shutdown*: what was accepted before `Stop` closed `done` is sent or stored;
  nobody meets a closed store; `Stop` returns.
- *sendMessages*: success is reported only for a request that was taken; all
  attempts are made; a payload is taken twice only if an answer was lost; the
  shared settings are put back.
- *poller and routing*: a changed rate is in force at once; messages are
  dispatched once, in order and by the route that comes first; the poller can
  be stopped.
- *state table*: a change is dispatched once; the handler ends up up to date.
- *lifecycle and configuration*: the features that run are those asked for; the
  wait group counts the goroutines there are; a constructor that fails leaves
  nothing behind (one failure does, section 4); `Stop` hangs or panics only by what its caller did; the
  backend knows whether the entity is there.
- *the processor in time*: a batch is neither too large nor too old; the
  processor is never away for longer than a bound; heartbeats are regular.

## 2. The modules

| module | role |
|---|---|
| `Storage` | operators: the bucket, its two key formats, `Put`, `GetBatch`, `DeleteBatch`, `CleanupExpired` |
| `Delivery` | the outbound pipeline: publishers, processor, retrier, monitor, poller (as a writer of the flag), tethered function, `Stop`, crash and restart |
| `Outbox` | abstract: accepted messages are kept, delivered, or on record as gone |
| `DeliveryInv` | the inductive invariant `IInv` of `Delivery`, in named parts |
| `DeliveryClaims` | statements of docs and comments that `Delivery` refutes |
| `MCDelivery` | `DeliveryInv` with the symmetry set, for TLC |
| `DeliveryProofs` | proofs about `Delivery` |
| `SendMessages` | the retry loop, any number of callers, with `sendOfflineBatch` around one of them |
| `Calls` | abstract: the six states of a call, as its caller may rely on them |
| `SendProofs` | proofs about `SendMessages` |
| `DeliveryPromises` | further proofs about `Delivery`: the two refinements and what they need |
| `Poller`, `MCPoller` | the poll loop, the wake-up channel, `CheckMessages` by several goroutines, routes |
| `PollerProofs` | proofs about `Poller` |
| `StateTable` | `CheckState` by several goroutines |
| `StateProofs` | proofs about `StateTable` |
| `Configuration` | operators: what a file says, `LoadConfigFile`, `toConfig`, `ApplyManagedGating`, the example file |
| `Lifecycle`, `MCLifecycle` | the constructors over `Configuration`, the wait group, `Tether`, `Stop` by several callers, the status requests, panics and restarts |
| `LifecycleProofs` | proofs about `Lifecycle` |
| `Pace`, `MCPace` | the queue processor in time: ticker, metrics, batch size, retries, heartbeats |
| `PaceProofs` | proofs about `Pace` |

`Calls` joins the two detailed outbound modules. `SendMessages` implements it
(`ImplementsCalls`, checked and proved); `Delivery` has the same calls without
attempts, one per `Sender`, and its use of them implements it as well
(`UsesCalls`). So the queue processor, the retrier and `Publish` are checked
against what the loop really guarantees, without the loop's states multiplying
theirs. `Delivery` as a whole implements `Outbox` (`ImplementsOutbox`).

The other modules meet `Delivery` at its edges. `Lifecycle` has the goroutines
of `Delivery` and `Poller` as members of `live`, with nothing but the points at
which they may leave, and in return calls `Stop` in ways the others leave out;
the constants of `Delivery` that are settings are what its `Load` computes.
`Pace` has the processor of `Delivery` with counters in place of messages and a
clock. `Poller` leaves what a tick does with the state table to `StateTable`.

### How `Delivery` corresponds to the code

- A message is a model value. `pub[m]` follows its `Publish` call:
  the read of the online flag (`Publish`), then the non-blocking send
  (`Enqueue`), the store (`StorePublished`) or the direct call
  (`SentDirectly`); the flag may change in between, as in the code.
- `proc`/`why`/`batch` follow `processQueue`: `why` is the branch of the
  select it is in (`full`, `tick`, `done`), which decides where it goes after
  the batch is dealt with. `ProcStore` is one turn of the loop that stores a
  failed batch.
- `ret`/`held`/`rounds` follow `retryOfflineMessages`. `RetFetch` joins
  `GetBatch` with the deletion of what it found expired: such a key is at least
  a TTL old and cannot be written to in between.
- `Refused` is a set of messages the backend answers with a 4xx (`Refuse`): a
  batch with one of them fails each time it is sent, at once and with the flag
  as it was.
- `http[s]` is the call of sender `s`. In `read` the request's body may be
  consumed: `sendMessages` builds the request once, before the loop, and
  whether Go's client can send it again depends on the answer it got, so a
  repeated request may arrive or fail.
- `Stop` is `StopClose` (close `done`) and `StopFinish` (`wg.Wait` returned,
  store closed). `running` is the wait group.
- `Reboot` is a crash, or an exit after `Stop`, and a new client on the same
  file. Everything but the bucket is lost.
- `lost` is a history variable: `<<m, reason>>` says that a copy of `m` was
  destroyed and how. The reasons are the ways the code has: `expired`,
  `overwritten` (same key), `wiped` (deleted by key after the replay of
  another), `dropped` (send failed, no storage), `unencodable`, `volatile` (in
  memory when the process died), `closed` (store already closed). `closed` is
  the one that must never occur.

### How the other modules correspond to the code

- `Lifecycle`: `phase` is how far a constructor is. `Load` computes the
  configuration from `disk`, in the order mode, gating; `SetupKey`, `Validate`
  and `OpenStore` may each fail, and `phase = "failed"` is the error returned.
  `store = "leaked"` is the file that a `NewStorage` opened and did not close
  when it could not create the bucket: it stays locked until the runtime
  finalizes it (`Collect`) or the process ends.
  `wg` is the counter and `live` the goroutines that will call `Done`: two
  variables, because the code decides on them in different places. `stop[s]`
  is how far the `Stop` of caller `s` is; its `Wait` is three steps
  (`StopWait`, `StopReleased`, `StopWoken`), as `sync.WaitGroup` releases a
  waiter and lets it check the counter again later. A `Tether` between the
  last `Done` and the release (`Releasing`) panics in `WaitGroup.Add`; one
  between the release and the check makes `Wait` panic. A panic ends the
  process: a caller that recovers from it is not modelled. A `Stop` called by a
  goroutine of the client keeps that goroutine from its select (`InStop`). A
  status request stays in `wire` until it is taken or lost, also after its
  call timed out and after its process died. `astray`, `late` are history.
- `Configuration`: a file is the set of switches and the set of numbers it
  mentions, with their values. That is what `toConfig` can tell apart: pointers
  that are nil or not, numbers that are positive or not.
- `Pace`: `tick` is the ticker, whose channel holds one tick; `proc`/`job`/
  `attempt`/`left` are the call of `sendMessages` the processor is in, `limit` the
  timeout its request was begun with. `replay` is how far the retrier's
  `sendOfflineBatch` is: each of its four assignments to the shared timeout and
  retries is a step, at any time, and `Do`, `Again` and `Wake` read what the
  settings are at that moment. In
  place of times the model keeps ages, counted up to where no property tells
  them apart any more (`EventAge`), so there is no bound on the clock.
- `Poller`: `check[c]` is where the `CheckMessages` of checker `c` is. The
  backend hands out the first messages up to the limit, each once; an answer
  that does not arrive or does not decode takes its messages with it (`lost`).
  `Dispatch` takes the snapshot of the handlers and calls the one of
  `HandlerOf`; the handler then runs while everybody else goes on.

### Abstractions

- The clock counts seconds, the resolution of the keys of failed messages
  (`time.RFC3339`) and of the TTL. Keys from `UnixNano` are taken as unique.
- In `Delivery` tickers may fire whenever their goroutine waits, a heartbeat may
  be due at any tick and the dynamic batch size may have any value its clamps
  admit. `Pace` has the ticker, the interval and the metrics.
- In `Pace` what the processor computes takes no time: time passes only while
  it waits for an answer, a sleep or its select. A select that has a tick
  ready passes over it at most `Unlucky` times in a row. The factors of the
  batch size are integers (the code's times 100). `Stop` is not in
  `Pace`.
- In `Lifecycle` one client of a process is constructed after the other, and a
  file changes only by `InitializeConfig`, before the client that reads it.
- The probe of the monitor is one step; a flag that is out of date by the time
  it is written is covered by a network change right after it.
- `CleanupExpired` deletes from the bucket it iterates over, which bbolt
  leaves undefined: a nonempty part of the expired entries goes, and no other.
- Of a disk that fails only what it does to `NewStorage` is modelled, in
  `Lifecycle`; a store that is closed is.
- In `Delivery` the application publishes only before it calls `Stop`, and
  calls `Stop` once, from outside the client's goroutines (`Lifecycle` has the
  other ways). A tethered function may publish until its goroutine notices
  `done`.

## 3. The runs that pass

| run | what it shows | bounds |
|---|---|---|
| `delivery_crash` | `OneCopy`, `StoredUntilDelivered`, the inductive invariant `IInv`, of which `Accounted` and `TypeOK` are parts; `ImplementsOutbox`, `UsesCalls` | 2 interchangeable messages, queue of 1, batches of 1 to 2, replay batches of 1 in 2 rounds, TTL 1 and clock up to 1, one restart, network `down` and `erring` |
| `delivery_shutdown` | `DrainComplete`, `StorageOutlivesWorkers`, `MemoryBounded`, `DirectMeansDelivered`, `Accounted` | 3 messages, one sent directly, one queued, one tethered that does not marshal; queue of 2, batch size 1, heartbeats, poller, both faults |
| `delivery_live` | `EventuallyDelivered`, `StopReturns`, `NothingOverstays` | 2 messages, one of which the backend refuses, queue and batches of 1, TTL 1 and clock up to 1, connectivity check, `Stop` at any point |
| `send_messages` | `ConfigRestored`, `FullEffort`, `DuplicatesExplained`, `ImplementsCalls`, `CallsReturn` | the retrier and one other caller, 3 retries |
| `state_table` | `HeardOnceInTurn`, `HandlerUpToDate`, `RecordFollows` | poller and application, 2 contents, 3 changes (so contents come back) |
| `poller` | `RateInForce`, `EveryMessageHandled`, `InOrder`, `RoutesStand`, `RateTakesEffect`, `PollerReturns` | poller and application checking at once, 2 messages, 2 per answer, 2 of 3 routes and the default handler, 2 rates set by the application and by a handler |
| `lifecycle` | `FeaturesAsAsked`, `WaitGroupExact`, `StoreClosedLast`, `NothingLeft`, `PanicExplained`, `Presence`, `WaitExplained`, `InitializeNeutral`, `HangExplained` | 2 clients, `Stop` from the application and from a message handler, one tether, 2 status requests under way, a host without files and one with two of them, the example written or half written |
| `pace` | `BatchFits`, `BatchAge`, `Absence`, `Pulse` | tick 2, timeout 3 and 2 retries (5 and 1 when a replay overwrites them), interval 3, batches of 1 to 3, queue of 2, an idle and a busy machine, a healthy backend that needs up to 2 |

One thing the runs leave to the proofs, which hold for all constants: a client
without a store (`MessagesAccounted`, `DirectDelivered`, `OutboxImplemented`).

Why the bounds are enough for what they are for:

- Two messages meet every conflict over a place: a full queue (capacity 1), a
  batch with a neighbour, a shared second key, a replay under way while
  another message is stored. With replay batches of 1 and two rounds the
  retrier's loop is taken twice and also left by its limit. The clock reaches
  one TTL, so an entry can expire before, during and after its replay. One
  restart is enough for a crash at any point, as nothing but the bucket, whose
  reachable contents are all covered, comes through it.
- The drain needs a queue longer than a batch and a late publisher: queue 2,
  batch 1, and a tethered message.
- In `SendMessages` the callers meet only through the two settings, which only
  the retrier writes. One other caller therefore shows all there is; the
  proofs are for any number.
- In `Poller` two messages and two checkers make an answer with both, an answer
  each, and an empty one; of the three routes two match and one does not, so a
  registration in between can come before, after or beside the route in use.
- In `delivery_live` the refused message can be stored before or after the
  other one, so the head of the store is blocked or is not.
- In `Lifecycle` two stoppers meet every conflict over `done` and the wait
  group, and one of them is a goroutine the other waits for. One tether is
  enough to add to the wait group before, during and after a `Wait`. Two
  clients (`MaxLives`) make a status request of the first arrive during the
  life of the second (`MaxWire` 2: one of each, or two of one). The proofs are
  for any number of all of them, and for any files.
- In `Pace` the interval is not a multiple of the tick and a request may take
  longer than a tick, during a replay two, so ticks are lost, wait in the
  channel and come at once. The replay raises the timeout and lowers the
  retries, so a call may have many long attempts if it reads each setting at
  the right moment, which is what `Effort` counts; `Unlucky` 1
  lets the queue win a select once; a healthy request may take as long as a
  tick. The bounds of `BatchAge`, `Absence` and `Pulse` are tight for these
  values or nearly so: each mutant exceeds them.

The properties `PROJECT.json` lists for these runs each have a mutant: a
changed copy of one action (a comment in the module says what bug it
represents) with which TLC reports the property violated.

### Fairness

`Delivery!Fairness`: weak fairness for the steps of every goroutine that can
run. Strong fairness for the cases of a select that compete with a ticker
(`ProcReceive`, `ProcDone`, `RetDone`): Go picks at random among the cases that
are ready, so one that is ready again and again is taken. For calls, weak fairness
for `Answered \/ Returns` and for `Returns` alone: a request ends by
`httpClient.Timeout` and the attempts are bounded, so a call cannot go on
failing and retrying for ever (`CallsReturn` is that statement about the loop
itself). Nothing is assumed of
the network, the clock, the application or crashes: `EventuallyDelivered` has
the network staying up as its antecedent, `StopReturns` has none.

In `delivery_live`, `NothingOverstays` needs `ProcTick` to be weakly fair: it is
the only way out of the store for a message that nobody will resend.

`Lifecycle!Fairness`: goroutines and callers of `Stop` that can run do, and a
status call ends by its timeout. Nothing is assumed of the application or the
backend. `HangExplained` is then what is left: a `Stop` that hangs for ever was
called by a goroutine it waits for. `WaitExplained` is its safety half, which
needs no fairness: whenever a `Stop` waits, somebody it waits for can leave, or
is the caller, or is about to panic in a `Stop` of its own.

`SendMessages!Fairness` is weak fairness per caller. `Poller!Fairness` adds
that handlers return (a handler that blocks for ever keeps `Stop` waiting, by
design) and strong fairness for the cases `rateChanged` and `done`.
`StateTable!Fairness` lets the poller poll again; `HandlerUpToDate` and
`RecordFollows` have as antecedent that polls keep succeeding now and then.

## 4. The runs that find a violation

Each run checks one statement of a comment or of the README that the code does
not keep; the run's trace is the way it happens.

| run | statement | what happens |
|---|---|---|
| `claim_persisted` | "flushBatch sends a batch and persists it when the send fails" (`client_queue.go:127`) | the keys of a failed batch are the current second, so its messages overwrite each other |
| `claim_retried` | "a stored message is retried until it succeeds or its 1-hour TTL expires" (`README.md:156`) | with the connectivity check off, one network error leaves the flag false for good, and the retrier skips every cycle; once the queue is sent, only a poll or a direct call of the application would set the flag again, and every `Publish` goes to the store, where it ends with the processor's cleanup (`NothingOverstays`) |
| `claim_replay` | "Target entity" (`README.md:291`), "Backend expects data to be a dict/object, not a string" (`client_publishing.go:13`) | a replay is rebuilt from a stored text that has no destination, and sends the text as the data |
| `claim_twice` | "cannot see a stale snapshot and fire the handler twice" (`client_state.go:109`) | the critical section begins after the answer was received, so an old answer can be recorded after a newer one |

Where a statement is partly true, a passing property says what remains:
`FullEffort` (all attempts and the configured timeout, if no replay ran
meanwhile: a replay sets the shared `MaxRetries` to 1, and calls in progress
read it, against `README.md:818` "retries a failed send `max_retries` times"), `HeardOnceInTurn` and `HandlerUpToDate` (if no two `CheckState`
overlap), `StoredUntilDelivered` (what `Publish` itself stored, under a
nanosecond key), `MemoryBounded` (batches stay within the clamps, of which the
*lower* one wins if `max_batch_size` is set below `min_batch_size`),
`DrainComplete` (what was accepted before `done` was closed: a tethered
function may still get a nil from `Publish` after the drain, and that message
stays in the queue).

Three more places where the code and what is said of it, or expected of it,
differ are written into passing properties, as what the code does:

- `FeaturesAsAsked`: in managed mode the features are on without any file, as
  the repository's `README.md:162` says. Its line 31 ("opt-in"), line 218 ("only
  active when a config file turns them on") and line 689 ("once a config file
  enables managed mode") say that a file has to turn them on. The README
  contradicts itself here, and the code follows line 162.
- `Accounted`: a message that cannot be marshalled may be accepted and end as
  `unencodable`. The repository's `README.md:632` has two such calls of
  `PublishAsync` with the comment "these return an error". They do when the
  message goes to the store at once; when it is queued, `PublishAsync` returns
  nil, the batch fails, and `storeFailedBatch` passes over the message.
- `NothingLeft`: a `NewStorage` that opens the file and cannot create the bucket
  returns without closing it (`storage.go:36`). Nothing is said of it in the
  repository. The file stays locked, and as long as it does every further
  constructor of the process with offline storage fails after a second.

## 5. What is proved

All proofs are for every value of the constants that the modules' assumptions
admit: any finite or infinite set of messages, any queue, batch and replay
sizes, any bound on the clock and on restarts, any number of callers.

`DeliveryProofs`:

- `TypeCorrect`: `Spec => []TypeOK`
- `MessagesAccounted`: `Spec => []Accounted`
- `DirectDelivered`: `Spec => []DirectMeansDelivered`
- `ShutdownDrains`: `Spec => []DrainComplete`
- `StorageClosedLast`: `Spec => []StorageOutlivesWorkers`

They follow from one inductive invariant, `IInv` of `DeliveryInv`, which TLC
checks in `delivery_crash` and `Invariance` proves. `Accounted` is not inductive: the processor
empties its batch when its call has returned `ok`, so the invariant has to say
that a call with a 2xx has its payload at the backend (`AnswerMeansArrived`),
which in turn needs that the batch and the held entries do not change during
the call (`ProcLifeCycle`, `RetLifeCycle`). The retrier deletes by key, so the
entries under nanosecond keys must still be the ones it read
(`NanoKeysUnique`); what it deletes under a second key that meanwhile holds
another message is on record as `wiped`. `DrainComplete` and
`StorageOutlivesWorkers` need to know that the processor stops receiving only
after `done` is closed, that it leaves with an empty batch, and that
`StopFinish` waits for everyone (`ProcLifeCycle`, `StopLifeCycle`, `Drained`).
The proof has one lemma per group of actions, and in it one step per action.

`SendProofs`:

- `TypeCorrect`, in particular no call makes more than `MaxRetries + 1` attempts
- `SettingsRestored`: `Spec => []ConfigRestored`
- `FullEffortMade`: `Spec => []FullEffort`
- `NoUnexplainedDuplicate`: `Spec => []DuplicatesExplained`
- `LoopImplementsCalls`: `Spec => ImplementsCalls`, the refinement

The invariant says what the settings are at each step of the replay
(`Settings`), that no replay is under way during an undisturbed call
(`Attempts`), and that a call without a result has as many taken copies as lost
answers (`Copies`).

`DeliveryPromises`, from `PInv`, which is `IInv` with `OneCopy` and three more
parts:

- `OneCopyKept`: `Spec => []OneCopy`. A message enters the queue or the store
  once, and every move to another place is a removal from the one before;
  `OneCopy` is inductive next to `IInv`, the work is in what `Append`, `Tail`
  and a deletion by key do to sequences and buckets without repetitions.
- `MemoryCorrect`: `Spec => []MemoryBounded`. The processor waits with less than
  a batch (`MemoryInv`), for any pair of clamps, contradictory ones included.
- `StoredKept`: `Spec => StoredUntilDelivered`. What the retrier holds under a
  nanosecond key is what the bucket has there (`NanoKeysUnique`), and it
  deletes it only after an `ok`, which means arrival (`AnswerMeansArrived`).
- `OutboxImplemented`: `Spec => ImplementsOutbox`, the refinement: each step is
  `Accept`, `Deliver`, `Forget` or a stutter of `Outbox`.
- `CallsUsed`: `Spec => UsesCalls`. A `Publish` has no call before it begins one
  (`CallInv`), so its state is never overwritten while a call is under way.

`PollerProofs`, from `PInv` there:

- `RateCorrect`: `Spec => []RateInForce`, from the same statement about the
  place between the reading of the rate and the select.
- `MessagesHandled`, `MessagesInOrder`: what was handed out is in exactly one
  place (`MessageInv`): dispatched, lost, or left to one checker that has
  dispatched only older ones. Two checkers never have a message in common.
- `RoutesCorrect`: `Spec => []RoutesStand`. A route that was used once is what
  `HandlerOf` gives for that sort of message ever after (`RouteInv`), because
  registration appends.

`StateProofs`:

- `HeardOnce`: `Spec => []HeardOnceInTurn`. While calls are made in turn the one
  under way has a table at least as new as the recorded one, and no table that
  is newer than the recorded one was shown (`TurnInv`).
- `HandlerCatchesUp`: `Spec => []HandlerAbreast`, the safety half of
  `HandlerUpToDate`: calls being made in turn, the handler has the content that
  is recorded as soon as the call that recorded it is over. A failing request
  cannot come between the record and the dispatch, which a later poll would
  not make up for, as it finds nothing changed.
- `GoesForward`: `Spec => Forward`. Calls being made in turn, neither the
  recorded table nor the handler's is replaced by an older one.

`HandlerAbreast` and `Forward` are stated in `StateProofs` and no run checks
them; `ViewInv` is what they need besides `TurnInv`.

`LifecycleProofs`, from `LInv`:

- `FeaturesCorrect`: a lemma per operator of `Configuration` says what it makes
  of any file; `PhaseInv` carries it through the constructor.
- `WaitGroupCorrect`, `FailureCorrect`, `StoreCorrect`, `PanicsCorrect`: at most
  one `Stop` gets past `close(done)`, and from then on every goroutine that
  joins is on record as late or counted before the counter reached zero
  (`StopInv`, `LiveInv`): a `Tether` in the very moment it is zero panics.
  `FailureCorrect` covers each failure of a constructor: nothing runs and
  nothing is counted after it, and no store is open but the file a failed
  `NewStorage` leaked, beside which no client with offline storage gets through
  its constructor. `PanicsCorrect` names the callers behind each panic, and
  that the counter does not go below zero.
- `PresenceCorrect`: unless a request went astray, a request is under way only
  while its call waits, and the status is what the last answered call said
  (`WireInv`, `CallInv`).
- `WaitCorrect`: `Spec => []WaitExplained`. A counter that is not zero is that
  of a goroutine in `live` (`WaitGroupExact`); `done` is closed by then, so each
  of them can leave but those that are in a `Stop` themselves (`StopInv`).
- `InitializeCorrect`: `Spec => InitializeNeutral`. What is left of the example
  when `omitempty` has passed over it gives the same configuration as an empty
  file (`ExampleDefaults`), so writing it, also in halves, changes nothing where
  there is no other file. The antecedent is about what the host's files
  give, and not about which there are: with an empty file in the home
  directory, and another in `/etc`, a half-written example uncovers the second.

`PaceProofs`, with times and limits that are any positive numbers. That is
all that `Pace` assumes of the settings, and what `FeaturesCorrect` shows of
every configuration a client runs with:

- `TypeCorrect`: the ages count no further than the events they are compared
  with, the attempts no further than `MostRetries`.
- `BatchAlwaysFits`: the processor is in its select with less than the batch
  size, which the metrics may change at any time, but never above
  `LargestBatch`, the larger of the two limits, whichever that is.
- `BatchAgeBounded`: a message that waits was read after the last tick, so its
  age and the time to the next tick add up to a tick at the most (`BatchWait`).
- `AbsenceBounded`: `Spec => []Absence`, with a replay writing the two settings
  at any moment. The bound counts the larger of the configured and the
  replay's value for each (`Longest`, `MostRetries`): with a timeout of 1 s and
  3 retries it is 26 s for one send, not 10 s, because every attempt may begin
  during a replay and every test of the limit fall outside of one. `AwayInv`
  says how much of the bound is
  used up: `Spent(n)` for the attempts that have failed and the sleeps after
  them, a sum that grows with the square of `n`, and `Base` for the batch that
  was sent before a heartbeat.
- `PulseRegular`: `Spec => []Pulse`. `HeartInv` says where a heartbeat that is
  due is held up, and how long it has been: until its tick comes, by the
  requests the select preferred to it (`Requests(passed)`), by the batch of the
  tick itself. The time a heartbeat takes is in none of them, because the next
  one is counted from its beginning (`BeatInv`).

Every `TypeOK` is a theorem (`TypeCorrect` in each module). Of the runs only
`delivery_crash` checks one, as a part of `IInv`.

## 6. What is only model-checked

Every invariant and every action property of the passing runs is a theorem, and
so are the three refinements. What is left to TLC:

- Liveness (`EventuallyDelivered`, `NothingOverstays`, `StopReturns`,
  `CallsReturn`, `RateTakesEffect`, `PollerReturns`, `HangExplained`,
  `HandlerUpToDate`, `RecordFollows`): out of the prover's reach. Of
  `HangExplained` and `HandlerUpToDate` the safety halves are proved.
- The statements of section 4, which are refuted.

## 7. State of the plan

Done: the pipeline, the calls, the state table, the poller with its routes, the
life cycle with the configuration, the processor in time, and the proofs of
every safety property.

Worth adding: a composition of `Poller` and `StateTable`, unsetting handlers,
and errors of the disk in `Storage`.

## 8. What is not modelled

- `client_files.go`: one request per call, no state.
- `models.go`: struct declarations.
- The base URL and the accessors of `client.go`; the strings for the User-Agent
  and the store's path in `config.go`; the time stamps of the connectivity
  state, which only an accessor reads; the parsing of message ids; debug output.
- Unsetting a handler with nil in `client_routes.go`.
- What the operating system reports for a heartbeat or a sample, and its
  failing to report.
- Handlers that panic, and handlers that never return.
- Disk errors after `NewStorage`, a full disk, two clients on one file at once
  (bbolt locks it: `OpenStore` fails).
- Two processes writing the configuration file at once.
