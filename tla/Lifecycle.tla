----------------------------- MODULE Lifecycle -----------------------------
(***************************************************************************)
(* The life of a client (client.go, and startMessageChecking of            *)
(* client_callbacks.go): a constructor that may fail at every step, the    *)
(* goroutines it counts in c.wg, the tethered functions that join them,    *)
(* Stop, and the two announcements of the entity's status.  The process    *)
(* may die, by a panic or otherwise, and start again with the same files.  *)
(*                                                                         *)
(* Stop may be called by several goroutines, among them the poller, from a *)
(* message handler, and a tethered function.  What the goroutines do is    *)
(* left out but for the points at which they can leave (Delivery and       *)
(* Poller have it).  One client of the process is alive at a time.         *)
(***************************************************************************)
EXTENDS Configuration, FiniteSets

CONSTANTS
    Disks,          \* the configuration files that may be there to begin with
    Tethers,        \* the calls of Tether
    Stopper,        \* the goroutines that may call Stop: the application's,
                    \* "poll" from a message handler, a tethered function
    MaxWire,        \* bound on the status requests under way at once
    MaxLives        \* bound on the clients constructed one after the other

ASSUME LifecycleAssumption ==
    /\ \A d \in Disks : IsDisk(d)
    /\ IsFiniteSet(Tethers)
    /\ Tethers \cap {"proc", "met", "ret", "mon", "poll"} = {}
    /\ "new" \notin Stopper
    /\ MaxWire \in Nat
    /\ MaxLives \in Nat \ {0}

VARIABLES
    disk,       \* per place, the configuration file there
    saving,     \* InitializeConfig has truncated the file in the home directory
    mode,       \* "managed" or "headless" as asked of NewClient, or "file"
    origin,     \* the file the configuration was read from
    config,     \* c.config
    phase,      \* how far the constructor is
    store,      \* who has the BoltDB file open, and locked: "open", c.storage;
                \* "leaked", a NewStorage of this process that failed; or nobody
    wg,         \* the counter of c.wg
    live,       \* the goroutines that will call c.wg.Done
    done,       \* c.done is closed
    tether,     \* per call of Tether, what its goroutine is doing
    stopChan,   \* the tethers whose stopChan is closed
    late,       \* history: tethers begun after a Stop was through its Wait
    stop,       \* per stopper, how far its Stop is
    panic,      \* why the process died, or "no"
    call,       \* per caller of updateEntityStatus, how far it is
    wire,       \* the status requests on their way
    status,     \* the backend's idea of the entity being online
    astray,     \* history: a status call ended without its effect
    lives

confVars  == <<disk, saving>>
buildVars == <<mode, origin, config, phase>>
tethVars  == <<tether, stopChan, late>>
runVars   == <<wg, live>>
statVars  == <<call, wire, status, astray>>
vars == <<confVars, buildVars, store, done, runVars, tethVars, stop, panic,
          statVars, lives>>

Caller == {"new"} \cup Stopper

Managed == config.switch["managed"]

\* The goroutines the constructor starts, by the conditions of its go
\* statements.
Core ==
    {"proc", "met", "poll"}
    \cup (IF config.switch["offline_storage"]
             /\ config.switch["offline_retry_enabled"] THEN {"ret"} ELSE {})
    \cup (IF config.switch["connectivity_check_enabled"] THEN {"mon"} ELSE {})

\* goroutineCount, by the conditions that add to it.
GoroutineCount ==
    2 + (IF config.switch["offline_storage"]
            /\ config.switch["offline_retry_enabled"] THEN 1 ELSE 0)
      + (IF config.switch["connectivity_check_enabled"] THEN 1 ELSE 0)

Alive == panic = "no"

Panic == {"no", "closed twice", "negative counter", "concurrent Add", "reused"}

StopState == {"idle", "status", "wait", "blocked", "released", "close",
              "returned"}

\* A Stop is through its Wait.
Waited == {"released", "close", "returned"}

\* A status request; `life` is the client it comes from.
Request == [life : 1..MaxLives, from : Caller, online : BOOLEAN]

TypeOK ==
    /\ IsDisk(disk)
    /\ saving \in BOOLEAN
    /\ mode \in {"managed", "headless", "file"}
    /\ IsFile(origin)
    /\ config \in Config
    /\ phase \in {"none", "loaded", "validating", "opening", "starting",
                  "announcing", "ready", "failed"}
    /\ store \in {"open", "leaked", "closed"}
    /\ wg \in Nat
    /\ live \subseteq {"proc", "met", "ret", "mon", "poll"} \cup Tethers
    /\ done \in BOOLEAN
    /\ tether \in [Tethers -> {"none", "noop", "select", "gone"}]
    /\ stopChan \subseteq Tethers
    /\ late \subseteq Tethers
    /\ stop \in [Stopper -> StopState]
    /\ panic \in Panic
    /\ call \in [Caller -> {"none", "sent", "answered"}]
    /\ wire \subseteq Request
    /\ status \in BOOLEAN
    /\ astray \in BOOLEAN
    /\ lives \in 1..MaxLives

Init ==
    /\ disk \in Disks
    /\ saving = FALSE
    /\ mode = "headless"
    /\ origin = EmptyFile
    /\ config = toConfig(EmptyFile)
    /\ phase = "none"
    /\ store = "closed"
    /\ wg = 0
    /\ live = {}
    /\ done = FALSE
    /\ tether = [t \in Tethers |-> "none"]
    /\ stopChan = {}
    /\ late = {}
    /\ stop = [s \in Stopper |-> "idle"]
    /\ panic = "no"
    /\ call = [c \in Caller |-> "none"]
    /\ wire = {}
    /\ status = FALSE
    /\ astray = FALSE
    /\ lives = 1
-----------------------------------------------------------------------------
(***************************************************************************)
(* updateEntityStatus: one PUT with a timeout of 5 s and no second try.    *)
(***************************************************************************)
SendStatus(c, online) ==
    /\ Cardinality(wire) < MaxWire
    /\ call' = [call EXCEPT ![c] = "sent"]
    /\ wire' = wire \cup {[life |-> lives, from |-> c, online |-> online]}
    /\ UNCHANGED <<status, astray>>

\* The call the request r belongs to learns the result, if it still waits.
Answered(r) ==
    IF r.life = lives /\ call[r.from] = "sent"
    THEN [call EXCEPT ![r.from] = "answered"] ELSE call

\* The backend takes a request, in any order, and however late.
Deliver(r) ==
    /\ wire' = wire \ {r}
    /\ status' = r.online
    /\ call' = Answered(r)
    /\ UNCHANGED <<confVars, buildVars, store, done, runVars, tethVars, stop,
                   panic, astray, lives>>

\* The request is lost, or answered with an error; either is only logged.
Drop(r) ==
    /\ wire' = wire \ {r}
    /\ call' = Answered(r)
    /\ astray' = TRUE
    /\ UNCHANGED <<confVars, buildVars, store, done, runVars, tethVars, stop,
                   panic, status, lives>>

\* The 5 s are over and the request is still on its way.
Timeout(c) ==
    /\ Alive
    /\ call[c] = "sent"
    /\ call' = [call EXCEPT ![c] = "answered"]
    /\ astray' = TRUE
    /\ UNCHANGED <<confVars, buildVars, store, done, runVars, tethVars, stop,
                   panic, wire, status, lives>>
-----------------------------------------------------------------------------
(***************************************************************************)
(* The constructors, which fail by returning an error.                     *)
(***************************************************************************)
\* Mutant: the gating happens in toConfig, before the mode is overridden.
LoadGatedEarly(m) ==
    /\ phase \in {"none", "failed"}
    /\ mode' = m
    /\ LET file == IF m = "file" THEN disk["home"] ELSE LoadConfigFile(disk) IN
       IF file = Unreadable
       THEN phase' = "failed" /\ UNCHANGED <<origin, config>>
       ELSE /\ phase' = "loaded"
            /\ origin' = file
            /\ config' = IF m = "file" THEN ApplyManagedGating(toConfig(file))
                         ELSE [ApplyManagedGating(toConfig(file)) EXCEPT
                                  !.switch["managed"] = (m = "managed")]
    /\ call' = [call EXCEPT !["new"] = "none"]
    /\ UNCHANGED <<confVars, store, done, runVars, tethVars, stop, panic, wire,
                   status, astray, lives>>

\* NewClientWithModeAndAPIKey takes the mode from its caller and the file from
\* the two places, NewClientWithConfigAndAPIKey both from the file it is given,
\* here the one in the home directory.
Load(m) ==
    /\ phase \in {"none", "failed"}
    /\ mode' = m
    /\ LET file == IF m = "file" THEN disk["home"] ELSE LoadConfigFile(disk)
           read == toConfig(file)
       IN  IF file = Unreadable
           THEN phase' = "failed" /\ UNCHANGED <<origin, config>>
           ELSE /\ phase' = "loaded"
                /\ origin' = file
                /\ config' = ApplyManagedGating(
                       IF m = "file" THEN read
                       ELSE [read EXCEPT !.switch["managed"] = (m = "managed")])
    /\ call' = [call EXCEPT !["new"] = "none"]
    /\ UNCHANGED <<confVars, store, done, runVars, tethVars, stop, panic, wire,
                   status, astray, lives>>

\* setupAPIConfig up to the validation: an API key, or an error.  A headless
\* client is ready then.
SetupKey ==
    /\ phase = "loaded"
    /\ \/ phase' = "failed"
       \/ phase' = IF Managed THEN "validating" ELSE "ready"
    /\ UNCHANGED <<confVars, mode, origin, config, store, done, runVars,
                   tethVars, stop, panic, statVars, lives>>

\* Mutant: the store is opened before the key is validated.
ValidateLast ==
    /\ phase = "validating"
    /\ store' = IF config.switch["offline_storage"] THEN "open" ELSE store
    /\ phase' \in {"failed", "starting"}
    /\ UNCHANGED <<confVars, mode, origin, config, done, runVars, tethVars,
                   stop, panic, statVars, lives>>

\* validateAPIKey: /claims answers 2xx, or not.
Validate ==
    /\ phase = "validating"
    /\ \/ phase' = "failed"
       \/ phase' = IF config.switch["offline_storage"] THEN "opening"
                   ELSE "starting"
    /\ UNCHANGED <<confVars, mode, origin, config, store, done, runVars,
                   tethVars, stop, panic, statVars, lives>>

\* NewStorage: the file is locked for longer than a second, by another process
\* or by a NewStorage before this one, or cannot be opened; it is opened, but the
\* bucket cannot be created, and nobody closes it; or all goes well.
OpenStore ==
    /\ phase = "opening"
    /\ \/ phase' = "failed" /\ UNCHANGED store
       \/ store = "closed" /\ phase' = "failed" /\ store' = "leaked"
       \/ store = "closed" /\ phase' = "starting" /\ store' = "open"
    /\ UNCHANGED <<confVars, mode, origin, config, done, runVars, tethVars,
                   stop, panic, statVars, lives>>

\* The runtime finalizes the os.File of a database that nobody refers to; it does
\* so when it likes.
Collect ==
    /\ store = "leaked"
    /\ store' = "closed"
    /\ UNCHANGED <<confVars, buildVars, done, runVars, tethVars, stop, panic,
                   statVars, lives>>

\* Mutant: wg.Add forgets the poller, which startMessageChecking adds itself.
StartUncounted ==
    /\ phase = "starting"
    /\ wg' = wg + GoroutineCount
    /\ live' = Core
    /\ phase' = "announcing"
    /\ SendStatus("new", TRUE)
    /\ UNCHANGED <<confVars, mode, origin, config, store, done, tethVars, stop, panic, lives>>

\* Mutant: wg.Add counts a goroutine that a go statement does not start.
StartOvercounted ==
    /\ phase = "starting"
    /\ wg' = wg + GoroutineCount + 1
    /\ live' = Core \ {"ret"}
    /\ phase' = "announcing"
    /\ SendStatus("new", TRUE)
    /\ UNCHANGED <<confVars, mode, origin, config, store, done, tethVars, stop, panic, lives>>

\* Mutant: the constructor does not wait for its announcement.
StartHasty ==
    /\ phase = "starting"
    /\ wg' = wg + GoroutineCount + 1
    /\ live' = Core
    /\ phase' = "ready"
    /\ SendStatus("new", TRUE)
    /\ UNCHANGED <<confVars, mode, origin, config, store, done, tethVars, stop, panic, lives>>

\* wg.Add and the go statements, wg.Add(1) and the poller, and the request of
\* updateEntityStatus(true).  Nobody can call Stop before the constructor
\* returns, so no goroutine leaves between these steps.
Start ==
    /\ phase = "starting"
    /\ wg' = wg + GoroutineCount + 1
    /\ live' = Core
    /\ phase' = "announcing"
    /\ SendStatus("new", TRUE)
    /\ UNCHANGED <<confVars, mode, origin, config, store, done, tethVars, stop, panic, lives>>

\* updateEntityStatus returns, and with it the constructor.
Announced ==
    /\ phase = "announcing"
    /\ call["new"] = "answered"
    /\ phase' = "ready"
    /\ UNCHANGED <<confVars, mode, origin, config, store, done, runVars,
                   tethVars, stop, panic, statVars, lives>>
-----------------------------------------------------------------------------
(***************************************************************************)
(* The goroutines.                                                         *)
(***************************************************************************)
\* The goroutine returns; the deferred wg.Done panics below zero.
Leave(g) ==
    /\ live' = live \ {g}
    /\ IF wg = 0 THEN panic' = "negative counter" /\ UNCHANGED wg
       ELSE wg' = wg - 1 /\ UNCHANGED panic

\* The goroutine is not back in its select before the Stop it called returns.
InStop(g) == g \in Stopper /\ stop[g] \notin {"idle", "returned"}

\* case <-c.done of a goroutine the constructor started.
Exit(g) ==
    /\ Alive /\ done
    /\ g \in live \ Tethers
    /\ ~InStop(g)
    /\ Leave(g)
    /\ UNCHANGED <<confVars, buildVars, store, done, tethVars, stop,
                   statVars, lives>>

\* Mutant: Tether does not count its goroutine.
TetherUncounted(t) ==
    /\ Alive /\ phase = "ready"
    /\ tether[t] = "none"
    /\ IF Managed
       THEN /\ live' = live \cup {t}
            /\ tether' = [tether EXCEPT ![t] = "select"]
       ELSE /\ tether' = [tether EXCEPT ![t] = "noop"]
            /\ UNCHANGED live
    /\ UNCHANGED <<confVars, buildVars, store, done, wg, late, stopChan, stop,
                   panic, statVars, lives>>

\* The Done that brings the counter to zero is under way: it has not reset the
\* number of waiters yet.
Releasing == wg = 0 /\ \E s \in Stopper : stop[s] = "blocked"

\* Tether, at any time after the constructor returned, Stop or no Stop.  Its
\* wg.Add(1) panics if it finds a waiter and no count but its own.
Tether(t) ==
    /\ Alive /\ phase = "ready"
    /\ tether[t] = "none"
    /\ \/ /\ ~Managed
          /\ tether' = [tether EXCEPT ![t] = "noop"]
          /\ UNCHANGED <<wg, live, late, panic>>
       \/ /\ Managed /\ Releasing
          /\ panic' = "concurrent Add"
          /\ UNCHANGED <<wg, live, tether, late>>
       \/ /\ Managed /\ ~Releasing
          /\ wg' = wg + 1
          /\ live' = live \cup {t}
          /\ tether' = [tether EXCEPT ![t] = "select"]
          /\ late' = IF \E s \in Stopper : stop[s] \in Waited
                     THEN late \cup {t} ELSE late
          /\ UNCHANGED panic
    /\ UNCHANGED <<confVars, buildVars, store, done, stopChan, stop, statVars,
                   lives>>

\* case <-stopChan and case <-c.done.
TetherExit(t) ==
    /\ Alive
    /\ tether[t] = "select"
    /\ done \/ t \in stopChan
    /\ ~InStop(t)
    /\ tether' = [tether EXCEPT ![t] = "gone"]
    /\ Leave(t)
    /\ UNCHANGED <<confVars, buildVars, store, done, stopChan, late,
                   stop, statVars, lives>>

\* The function Tether returned closes stopChan, again if it is called again.
StopTether(t) ==
    /\ Alive
    /\ tether[t] \notin {"none", "noop"}
    /\ IF t \in stopChan THEN panic' = "closed twice" /\ UNCHANGED stopChan
       ELSE stopChan' = stopChan \cup {t} /\ UNCHANGED panic
    /\ UNCHANGED <<confVars, buildVars, store, done, runVars, tether, late,
                   stop, statVars, lives>>
-----------------------------------------------------------------------------
(***************************************************************************)
(* Stop.                                                                   *)
(***************************************************************************)
\* The goroutines of the client that run the user's code.
Inside == {"poll"} \cup Tethers

StopCall(s) ==
    /\ Alive /\ phase = "ready"
    /\ stop[s] = "idle"
    /\ s \in Inside => s \in live
    /\ IF Managed
       THEN stop' = [stop EXCEPT ![s] = "status"] /\ SendStatus(s, FALSE)
       ELSE stop' = [stop EXCEPT ![s] = "returned"] /\ UNCHANGED statVars
    /\ UNCHANGED <<confVars, buildVars, store, done, runVars, tethVars, panic,
                   lives>>

\* close(c.done), which panics when another Stop has been here.
StopDone(s) ==
    /\ Alive
    /\ stop[s] = "status" /\ call[s] = "answered"
    /\ IF done
       THEN panic' = "closed twice" /\ UNCHANGED <<done, stop>>
       ELSE /\ done' = TRUE
            /\ stop' = [stop EXCEPT ![s] = "wait"]
            /\ UNCHANGED panic
    /\ UNCHANGED <<confVars, buildVars, store, runVars, tethVars, statVars,
                   lives>>

\* Mutant: the store is closed before the goroutines are waited for.
StopWaitLast(s) ==
    /\ Alive
    /\ stop[s] = "wait"
    /\ store' = IF store = "open" THEN "closed" ELSE store
    /\ stop' = [stop EXCEPT ![s] = IF wg = 0 THEN "close" ELSE "blocked"]
    /\ UNCHANGED <<confVars, buildVars, done, runVars, tethVars, panic,
                   statVars, lives>>

\* c.wg.Wait returns at once if the counter is zero, else it blocks.
StopWait(s) ==
    /\ Alive
    /\ stop[s] = "wait"
    /\ stop' = [stop EXCEPT ![s] = IF wg = 0 THEN "close" ELSE "blocked"]
    /\ UNCHANGED <<confVars, buildVars, store, done, runVars, tethVars, panic,
                   statVars, lives>>

\* The Done that brought the counter to zero resets the wait group and wakes the
\* waiter; from here on wg.Add begins a new count.
StopReleased(s) ==
    /\ Alive
    /\ stop[s] = "blocked" /\ wg = 0
    /\ stop' = [stop EXCEPT ![s] = "released"]
    /\ UNCHANGED <<confVars, buildVars, store, done, runVars, tethVars, panic,
                   statVars, lives>>

\* The waiter runs again and panics if the counter is not zero any more.
StopWoken(s) ==
    /\ Alive
    /\ stop[s] = "released"
    /\ IF wg # 0 THEN panic' = "reused" /\ UNCHANGED stop
       ELSE stop' = [stop EXCEPT ![s] = "close"] /\ UNCHANGED panic
    /\ UNCHANGED <<confVars, buildVars, store, done, runVars, tethVars,
                   statVars, lives>>

StopClose(s) ==
    /\ Alive
    /\ stop[s] = "close"
    /\ store' = IF store = "open" THEN "closed" ELSE store
    /\ stop' = [stop EXCEPT ![s] = "returned"]
    /\ UNCHANGED <<confVars, buildVars, done, runVars, tethVars, panic,
                   statVars, lives>>
-----------------------------------------------------------------------------
(***************************************************************************)
(* The process, and the files.                                             *)
(***************************************************************************)
\* The process dies, or has ended, and starts again; or it goes on to another
\* client when a Stop has returned and no goroutine is left.
GoesOn == Alive /\ live = {} /\ \E s \in Stopper : stop[s] = "returned"

Restart ==
    /\ lives < MaxLives
    /\ lives' = lives + 1
    /\ mode' = "headless"
    /\ origin' = EmptyFile
    /\ config' = toConfig(EmptyFile)
    /\ phase' = "none"
    /\ \/ store' = "closed"
       \/ store = "leaked" /\ GoesOn /\ UNCHANGED store
    /\ wg' = 0
    /\ live' = {}
    /\ done' = FALSE
    /\ tether' = [t \in Tethers |-> "none"]
    /\ stopChan' = {}
    /\ late' = {}
    /\ stop' = [s \in Stopper |-> "idle"]
    /\ panic' = "no"
    /\ call' = [c \in Caller |-> "none"]
    /\ astray' = (astray \/ wire # {})
    /\ saving' = FALSE
    /\ UNCHANGED <<disk, wire, status>>

\* Mutant: the example leaves the heartbeats out.
InitializeSparse ==
    /\ phase \in {"none", "failed"}
    /\ saving
    /\ saving' = FALSE
    /\ disk' = [disk EXCEPT !["home"] =
           Saved([GenerateExampleConfig EXCEPT !.switch["send_heartbeat"] = FALSE])]
    /\ UNCHANGED <<buildVars, store, done, runVars, tethVars, stop, panic,
                   statVars, lives>>

\* InitializeConfig for the home directory: os.WriteFile truncates the file
\* (it may do so at any time, but only a client yet to come reads the file),
SaveBegins ==
    /\ phase \in {"none", "failed"}
    /\ ~saving
    /\ saving' = TRUE
    /\ disk' = [disk EXCEPT !["home"] = Unreadable]
    /\ UNCHANGED <<buildVars, store, done, runVars, tethVars, stop, panic,
                   statVars, lives>>

\* and then writes it.
InitializeConfig ==
    /\ phase \in {"none", "failed"}
    /\ saving
    /\ saving' = FALSE
    /\ disk' = [disk EXCEPT !["home"] = Saved(GenerateExampleConfig)]
    /\ UNCHANGED <<buildVars, store, done, runVars, tethVars, stop, panic,
                   statVars, lives>>
-----------------------------------------------------------------------------
StopStep(s) ==
    \/ StopCall(s) \/ StopDone(s) \/ StopWait(s) \/ StopReleased(s)
    \/ StopWoken(s) \/ StopClose(s)

TetherStep(t) ==
    Tether(t) \/ TetherExit(t) \/ StopTether(t)

Next ==
    \/ \E m \in {"managed", "headless", "file"} : Load(m)
    \/ SetupKey \/ Validate \/ OpenStore \/ Collect \/ Start \/ Announced
    \/ \E r \in wire : Deliver(r) \/ Drop(r)
    \/ \E c \in Caller : Timeout(c)
    \/ \E g \in live : Exit(g)
    \/ \E t \in Tethers : TetherStep(t)
    \/ \E s \in Stopper : StopStep(s)
    \/ Restart
    \/ SaveBegins \/ InitializeConfig

Spec == Init /\ [][Next]_vars
-----------------------------------------------------------------------------
(***************************************************************************)
(* Safety.                                                                 *)
(***************************************************************************)
\* What the file says of a switch, and the default for what it does not say.
Wanted(f) == f \in DOMAIN origin.switch => origin.switch[f]

AskedManaged == IF mode = "file" THEN Wanted("managed") ELSE mode = "managed"

\* README.md:162 and config_managed_test.go: the caller's mode decides, not the
\* file's; in managed mode every feature the file does not switch off is on,
\* without any file too, and its goroutine and its store are there, in headless
\* mode none is; and no number is one that make(chan) or NewTicker would panic
\* at.  (Load, Start and OpenStore, over every file in either place.)  Three
\* other places of README.md still say that a file has to switch the features on:
\* line 31, "opt-in", line 218, "only active when a config file turns them on",
\* and line 689, "once a config file enables managed mode".  The code does as
\* line 162 says.
FeaturesAsAsked ==
    phase \in {"announcing", "ready"} =>
        /\ Managed <=> AskedManaged
        /\ \A f \in Feature : config.switch[f] <=> AskedManaged /\ Wanted(f)
        /\ \A n \in Number : config.number[n] > 0
        /\ ~done =>
              /\ {"proc", "met", "poll"} \subseteq live <=> AskedManaged
              /\ "ret" \in live <=> AskedManaged /\ Wanted("offline_storage")
                                      /\ Wanted("offline_retry_enabled")
              /\ "mon" \in live <=> AskedManaged
                                      /\ Wanted("connectivity_check_enabled")
              /\ store = "open" <=> AskedManaged /\ Wanted("offline_storage")

\* client.go:141, 147 and 158 decide three times over who is counted and who is
\* started: the counter is the number of goroutines that will call Done.
WaitGroupExact == Alive => wg = Cardinality(live)

\* client.go:434 "Wait for the queue processor ... BEFORE closing storage": once
\* Stop has closed the store the only goroutines are those of a Tether called
\* when Stop was through its Wait.
StoreClosedLast ==
    phase = "ready" /\ config.switch["offline_storage"] /\ store # "open" =>
        live \subseteq late

\* A constructor that fails leaves no goroutine, and no store open that would
\* lock out the next attempt (client.go:192 to 239, in this order), with one
\* exception: a NewStorage that opens the file and cannot create the bucket
\* (storage.go:36) keeps it locked, and as long as it does no client of this
\* process that wants offline storage comes to be.
NothingLeft ==
    /\ phase = "failed" => live = {} /\ wg = 0 /\ store # "open"
    /\ store = "leaked" /\ phase \in {"starting", "announcing", "ready"} =>
          ~config.switch["offline_storage"]

\* Only a caller can make the life cycle panic: by a second Stop; by a second
\* call of the function Tether returned; by a Tether that comes while Stop waits
\* and the last goroutine is leaving (WaitGroup.Add panics in it, client.go:503);
\* or by one that comes when Stop is through its Wait (Wait panics, in Stop).
\* The wait group itself never goes below zero.
PanicExplained ==
    /\ panic # "negative counter"
    /\ panic = "concurrent Add" =>
          done /\ live = {} /\ \E s \in Stopper : stop[s] = "blocked"
    /\ panic = "reused" => late # {}
    /\ panic = "closed twice" =>
          stopChan # {} \/ \E s, t \in Stopper :
                              s # t /\ stop[s] # "idle" /\ stop[t] # "idle"

\* README.md:766, the entity's status follows the client's life: as long as no
\* status request went astray, the backend has the entity online from the end
\* of the constructor to the first Stop, and offline from close(c.done) on,
\* whichever goroutines call Stop.
Presence ==
    ~astray /\ phase = "ready" /\ Managed =>
        /\ (\A s \in Stopper : stop[s] = "idle") => status
        /\ (\E s \in Stopper : stop[s] \notin {"idle", "status"}) => ~status

\* README.md:168 and sdk_smoke_test.go:16, the written example is the defaults:
\* on a host that has no file but the example, saving it, saving it again, or
\* dying in the middle of that, changes nothing for the next client that looks
\* for its file.  (NewClientWithConfig, given the half written file by name,
\* fails.  The defaults are listed twice, at config.go:138 and config.go:182.)
Defaulted(d) == toConfig(LoadConfigFile(d)) = toConfig(EmptyFile)

InitializeNeutral ==
    [][disk["etc"] = Unreadable /\ Defaulted(disk) => Defaulted(disk')]_vars

\* client.go:437, c.wg.Wait: a Stop that waits does not wait for nothing.  It
\* was called by a goroutine it waits for, or one of these can leave, or is in
\* a Stop of its own, which will meet the closed `done` and panic.
CanLeave(g) == done /\ ~InStop(g) /\ (g \in Tethers => tether[g] = "select")

WaitExplained ==
    \A s \in Stopper :
        Alive /\ stop[s] = "blocked" /\ wg # 0 =>
            \/ s \in live
            \/ \E g \in live :
                  \/ CanLeave(g)
                  \/ g \in Stopper /\ stop[g] = "status" /\ done
-----------------------------------------------------------------------------
(***************************************************************************)
(* Liveness.  Goroutines that can run do; a handler and a tethered         *)
(* function return, unless they wait for a Stop they called, so that the   *)
(* select around them takes `done` in the end; the timeout ends a status   *)
(* call.                                                                   *)
(***************************************************************************)
Fairness ==
    /\ \A g \in {"proc", "met", "ret", "mon", "poll"} : WF_vars(Exit(g))
    /\ \A t \in Tethers : WF_vars(TetherExit(t))
    /\ \A s \in Stopper : WF_vars(StopStep(s) /\ stop[s] # "idle")
    /\ \A c \in Caller : WF_vars(Timeout(c))

LiveSpec == Spec /\ Fairness

\* Stop hangs only when a goroutine calls it that it waits for: the poller from
\* a message handler, or a tethered function.
HangExplained ==
    \A s \in Stopper :
        <>[](Alive /\ stop[s] # "idle" /\ stop[s] # "returned") =>
            s \in Inside
=============================================================================
