--------------------------- MODULE LifecycleProofs ---------------------------
(***************************************************************************)
(* Proofs about Lifecycle, for any configuration files, any calls of       *)
(* Tether and any number of goroutines that call Stop.                     *)
(***************************************************************************)
EXTENDS Lifecycle, FiniteSetTheorems, TLAPS

(***************************************************************************)
(* Configuration.                                                          *)
(***************************************************************************)
LEMMA Defaults ==
    /\ DefaultSwitch \in [Switch -> BOOLEAN]
    /\ \A s \in Switch : DefaultSwitch[s] = TRUE
    /\ DefaultNumber \in [Number -> Int]
    /\ \A n \in Number : DefaultNumber[n] > 0
    /\ Feature \subseteq Switch
    /\ "managed" \in Switch /\ Feature = Switch \ {"managed"}
<1>1. Switch = {"managed", "offline_storage", "offline_retry_enabled",
                "connectivity_check_enabled", "send_heartbeat"}
  BY DEF Switch, DefaultSwitch
<1>2. \A s \in Switch : DefaultSwitch[s] = TRUE
  BY <1>1 DEF DefaultSwitch
<1>3. \A n \in Number : DefaultNumber[n] \in Int /\ DefaultNumber[n] > 0
  BY DEF Number, DefaultNumber
<1>4. DefaultSwitch = [s \in Switch |-> DefaultSwitch[s]]
  BY DEF Switch, DefaultSwitch
<1>5. DefaultNumber = [n \in Number |-> DefaultNumber[n]]
  BY DEF Number, DefaultNumber
<1>6. QED  BY <1>1, <1>2, <1>3, <1>4, <1>5 DEF Feature

\* What toConfig makes of a file: every switch is what the file says or on,
\* every number is positive.
LEMMA ToConfig ==
    ASSUME NEW f, IsFile(f)
    PROVE  /\ toConfig(f) \in Config
           /\ \A s \in Switch : toConfig(f).switch[s] <=>
                 (s \in DOMAIN f.switch => f.switch[s])
           /\ \A n \in Number : toConfig(f).number[n] > 0
<1>1. toConfig(f).switch \in [Switch -> BOOLEAN]
  BY Defaults DEF toConfig, IsFile
<1>2. toConfig(f).number \in [Number -> Int]
  BY Defaults DEF toConfig, IsFile
<1>3. \A s \in Switch : toConfig(f).switch[s] <=>
         (s \in DOMAIN f.switch => f.switch[s])
  BY Defaults DEF toConfig
<1>4. \A n \in Number : toConfig(f).number[n] > 0
  BY Defaults DEF toConfig
<1>5. toConfig(f) = [switch |-> toConfig(f).switch, number |-> toConfig(f).number]
  BY DEF toConfig
<1>6. QED  BY <1>1, <1>2, <1>3, <1>4, <1>5 DEF Config

LEMMA LoadedFile ==
    ASSUME IsDisk(disk)
    PROVE  IsFile(LoadConfigFile(disk)) /\ IsFile(EmptyFile)
<1>1. IsFile(EmptyFile)
  BY DEF EmptyFile, Nothing, IsFile
<1>2. QED  BY <1>1 DEF LoadConfigFile, IsDisk

\* The gated configuration: the switches of headless mode are all off.
LEMMA Gated ==
    ASSUME NEW c \in Config
    PROVE  /\ ApplyManagedGating(c) \in Config
           /\ ApplyManagedGating(c).number = c.number
           /\ ApplyManagedGating(c).switch["managed"] <=> c.switch["managed"]
           /\ \A f \in Feature : ApplyManagedGating(c).switch[f] <=>
                 c.switch["managed"] /\ c.switch[f]
<1>1. CASE c.switch["managed"]
  BY <1>1, Defaults DEF ApplyManagedGating, Config
<1>2. CASE ~c.switch["managed"]
  <2>1. ApplyManagedGating(c) = [c EXCEPT !.switch = [s \in Switch |-> FALSE]]
    BY <1>2 DEF ApplyManagedGating
  <2>2. c = [switch |-> c.switch, number |-> c.number]
        /\ c.switch \in [Switch -> BOOLEAN] /\ c.number \in [Number -> Int]
    BY DEF Config
  <2>3. ApplyManagedGating(c) =
            [switch |-> [s \in Switch |-> FALSE], number |-> c.number]
    BY <2>1, <2>2
  <2>4. [s \in Switch |-> FALSE] \in [Switch -> BOOLEAN]
    OBVIOUS
  <2>5. ApplyManagedGating(c) \in Config
    BY <2>2, <2>3, <2>4 DEF Config
  <2>6. ApplyManagedGating(c).number = c.number
    BY <2>3
  <2>7. \A s \in Switch : ApplyManagedGating(c).switch[s] = FALSE
    BY <2>3
  <2> QED  BY <1>2, <2>5, <2>6, <2>7, Defaults
<1>3. QED  BY <1>1, <1>2
-----------------------------------------------------------------------------
(***************************************************************************)
(* The inductive invariant.                                                *)
(***************************************************************************)
ConfigRight ==
    /\ Managed <=> AskedManaged
    /\ \A f \in Feature : config.switch[f] <=> AskedManaged /\ Wanted(f)
    /\ \A n \in Number : config.number[n] > 0

\* Before the constructor starts a goroutine.
Early == {"none", "loaded", "validating", "opening", "starting", "failed"}

Untouched ==
    /\ ~done /\ panic = "no" /\ late = {}
    /\ \A t \in Tethers : tether[t] = "none"
    /\ \A s \in Stopper : stop[s] = "idle"

Storing == config.switch["offline_storage"]

PhaseInv ==
    /\ phase \notin {"none", "failed"} => ConfigRight
    /\ phase \in {"validating", "opening", "starting", "announcing"} => Managed
    /\ phase = "opening" => Storing
    /\ phase # "ready" => Untouched
    /\ phase \in Early => live = {} /\ wg = 0
    /\ phase \in Early \ {"starting"} => store # "open"
    /\ phase \in {"starting", "announcing"} => (store = "open" <=> Storing)
    /\ phase \in {"starting", "announcing", "ready"} /\ store = "leaked" => ~Storing
    /\ phase = "announcing" => live = Core
    /\ phase = "ready" /\ ~Managed => live = {} /\ ~done /\ store # "open"

LiveInv ==
    /\ IsFiniteSet(live)
    /\ WaitGroupExact
    /\ \A t \in Tethers : t \in live <=> tether[t] = "select"

Past == StopState \ {"idle", "status"}

StopInv ==
    /\ ~Managed => \A s \in Stopper : stop[s] \in {"idle", "returned"}
    /\ Managed =>
        /\ \A s, t \in Stopper : stop[s] \in Past /\ stop[t] \in Past => s = t
        /\ done <=> \E s \in Stopper : stop[s] \in Past
        /\ \A s \in Stopper : stop[s] \in Waited => live \subseteq late
        /\ phase = "ready" /\ ~done =>
              live \ Tethers = Core /\ (store = "open" <=> Storing)
        /\ phase = "ready" /\ Storing /\ store # "open" =>
              \E s \in Stopper : stop[s] = "returned"

CallInv ==
    /\ call["new"] = "sent" => phase = "announcing"
    /\ phase \in Early => call["new"] # "answered"
    /\ \A s \in Stopper : call[s] = "none" \/ (phase = "ready" /\ stop[s] # "idle")
    /\ \A s \in Stopper : call[s] = "sent" => stop[s] = "status"
    /\ Managed => \A s \in Stopper : stop[s] # "idle" => call[s] # "none"

WireInv ==
    ~astray =>
        /\ \A r \in wire : /\ r.life = lives /\ call[r.from] = "sent"
                           /\ r.online <=> r.from = "new"
        /\ phase = "announcing" /\ call["new"] = "answered" => status
        /\ phase = "ready" /\ Managed =>
              (status <=> \A s \in Stopper : call[s] # "answered")

LInv ==
    TypeOK /\ PhaseInv /\ LiveInv /\ StopInv /\ CallInv /\ WireInv
    /\ PanicExplained
-----------------------------------------------------------------------------
LEMMA InitLInv == Init => LInv
<1> SUFFICES ASSUME Init PROVE LInv
  OBVIOUS
<1>1. IsDisk(disk) /\ IsFile(EmptyFile)
  BY LifecycleAssumption, LoadedFile DEF Init
<1>2. TypeOK
  <2>1. config \in Config /\ lives \in 1..MaxLives
    BY <1>1, ToConfig, LifecycleAssumption DEF Init
  <2>2. /\ tether \in [Tethers -> {"none", "noop", "select", "gone"}]
        /\ stop \in [Stopper -> StopState]
        /\ call \in [Caller -> {"none", "sent", "answered"}]
    BY DEF Init, StopState
  <2>3. wire \subseteq Request
    BY DEF Init
  <2>4. QED  BY <1>1, <2>1, <2>2, <2>3 DEF Init, TypeOK, Panic
<1>3. PhaseInv
  BY DEF Init, PhaseInv, Untouched, Early
<1>4. LiveInv
  BY FS_EmptySet DEF Init, LiveInv, WaitGroupExact
<1>5. StopInv
  BY DEF Init, StopInv, Past, Waited
<1>6. CallInv /\ WireInv
  BY DEF Init, CallInv, WireInv, Caller, Early
<1>7. PanicExplained
  BY DEF Init, PanicExplained
<1>8. QED  BY <1>2, <1>3, <1>4, <1>5, <1>6, <1>7 DEF LInv

(***************************************************************************)
(* Types.                                                                  *)
(***************************************************************************)
LEMMA LoadConfig ==
    ASSUME TypeOK, NEW m \in {"managed", "headless", "file"}, Load(m),
           phase' = "loaded"
    PROVE  IsFile(origin') /\ config' \in Config /\ ConfigRight'
<1> DEFINE file == IF m = "file" THEN disk["home"] ELSE LoadConfigFile(disk)
           read == toConfig(file)
           asked == IF m = "file" THEN read
                    ELSE [read EXCEPT !.switch["managed"] = (m = "managed")]
<1>1. /\ mode' = m /\ origin' = file
      /\ config' = ApplyManagedGating(asked)
      /\ IsFile(file)
  BY LoadedFile DEF Load, TypeOK, IsDisk
<1>2. /\ read \in Config
      /\ \A s \in Switch : read.switch[s] <=>
            (s \in DOMAIN file.switch => file.switch[s])
      /\ \A n \in Number : read.number[n] > 0
  BY <1>1, ToConfig
<1> HIDE DEF file, read
<1>3. /\ asked \in Config
      /\ asked.number = read.number
      /\ asked.switch["managed"] <=> IF m = "file" THEN read.switch["managed"]
                                     ELSE m = "managed"
      /\ \A f \in Feature : asked.switch[f] = read.switch[f]
  <2>1. CASE m = "file"
    BY <1>2, <2>1
  <2>2. CASE m # "file"
    BY <1>2, <2>2, Defaults DEF Config
  <2>3. QED  BY <2>1, <2>2
<1> HIDE DEF asked
<1>4. /\ config' \in Config /\ config'.number = read.number
      /\ config'.switch["managed"] <=> asked.switch["managed"]
      /\ \A f \in Feature : config'.switch[f] <=>
            asked.switch["managed"] /\ asked.switch[f]
  BY <1>1, <1>3, Gated
<1>5. AskedManaged' <=> asked.switch["managed"]
  BY <1>1, <1>2, <1>3, Defaults DEF AskedManaged, Wanted
<1>6. \A f \in Feature : Wanted(f)' <=> asked.switch[f]
  BY <1>1, <1>2, <1>3, Defaults DEF Wanted
<1>7. QED
  BY <1>1, <1>2, <1>4, <1>5, <1>6 DEF ConfigRight, Managed

LEMMA SavedExample == IsFile(Saved(GenerateExampleConfig))
<1> DEFINE g == GenerateExampleConfig
           kept == {n \in DOMAIN g.number : g.number[n] # 0}
<1>1. /\ DOMAIN g.switch = Switch /\ g.switch \in [Switch -> BOOLEAN]
      /\ DOMAIN g.number = Number /\ g.number \in [Number -> Int]
  <2>1. g.switch = DefaultSwitch
    BY DEF GenerateExampleConfig, DefaultSwitch
  <2>2. DOMAIN g.number = Number
    BY DEF GenerateExampleConfig, Number, DefaultNumber
  <2>3. g.number = [n \in Number |-> g.number[n]]
    BY DEF GenerateExampleConfig, Number, DefaultNumber
  <2>4. \A n \in Number : g.number[n] \in Int
    BY DEF GenerateExampleConfig, Number, DefaultNumber
  <2>5. QED  BY <2>1, <2>2, <2>3, <2>4, Defaults DEF Switch
<1>2. DOMAIN g = {"switch", "number"}
  BY DEF GenerateExampleConfig
<1> HIDE DEF g
<1>3. Saved(g) = [g EXCEPT !.number = Restrict(g.number, kept)]
  BY DEF Saved
<1>4. /\ DOMAIN Saved(g) = {"switch", "number"}
      /\ Saved(g).switch = g.switch
      /\ Saved(g).number = Restrict(g.number, kept)
  BY <1>2, <1>3
<1>5. kept \subseteq Number
  BY <1>1
<1>6. Restrict(g.number, kept) \in [kept -> Int]
  BY <1>1, <1>5 DEF Restrict
<1>7. QED  BY <1>1, <1>4, <1>5, <1>6 DEF IsFile, g

LEMMA TypeStep ==
    ASSUME TypeOK, [Next]_vars
    PROVE  TypeOK'
<1> USE DEF confVars, buildVars, runVars, tethVars, statVars
<1>0. /\ lives \in 1..MaxLives /\ wg \in Nat
      /\ call \in [Caller -> {"none", "sent", "answered"}]
      /\ stop \in [Stopper -> StopState]
      /\ "new" \in Caller /\ Stopper \subseteq Caller
  BY DEF TypeOK, Caller
<1>a. ASSUME NEW c \in Caller, NEW b \in BOOLEAN, SendStatus(c, b)
      PROVE  /\ call' \in [Caller -> {"none", "sent", "answered"}]
             /\ wire' \subseteq Request
             /\ status' \in BOOLEAN /\ astray' \in BOOLEAN
  <2>1. [life |-> lives, from |-> c, online |-> b] \in Request
    BY <1>0 DEF Request
  <2>2. QED  BY <1>0, <1>a, <2>1 DEF SendStatus, TypeOK
<1>b. ASSUME NEW g, Leave(g)
      PROVE  /\ live' \subseteq {"proc", "met", "ret", "mon", "poll"} \cup Tethers
             /\ wg' \in Nat
             /\ panic' \in Panic
  <2>1. /\ live' = live \ {g}
        /\ panic' \in {"negative counter", panic}
        /\ wg' = IF wg = 0 THEN wg ELSE wg - 1
    BY <1>b DEF Leave
  <2>2. wg' \in Nat
    <3>1. ASSUME NEW w \in Nat, w # 0  PROVE  w - 1 \in Nat
      BY <3>1
    <3>2. QED  BY <1>0, <2>1, <3>1
  <2>3. QED  BY <2>1, <2>2 DEF TypeOK, Panic
<1> HIDE DEF Caller, StopState
<1>1. ASSUME NEW m \in {"managed", "headless", "file"}, Load(m)
      PROVE  TypeOK'
  <2>1. /\ mode' \in {"managed", "headless", "file"}
        /\ call' \in [Caller -> {"none", "sent", "answered"}]
    BY <1>0, <1>1 DEF Load
  <2>2. /\ phase' \in {"loaded", "failed"}
        /\ phase' = "failed" => UNCHANGED <<origin, config>>
    BY <1>1 DEF Load
  <2>3. IsFile(origin') /\ config' \in Config
    BY <1>1, <2>2, LoadConfig DEF TypeOK
  <2>4. QED  BY <1>1, <2>1, <2>2, <2>3 DEF Load, TypeOK
<1>2. CASE SetupKey \/ Validate \/ OpenStore \/ Collect \/ Announced
  BY <1>2 DEF SetupKey, Validate, OpenStore, Collect, Announced, TypeOK
<1>3. CASE Start
  <2>1. wg' \in Nat
    <3>1. GoroutineCount \in Nat
      BY DEF GoroutineCount
    <3>2. wg' = wg + GoroutineCount + 1
      BY <1>3 DEF Start
    <3>3. QED  BY <1>0, <3>1, <3>2
  <2>2. live' \subseteq {"proc", "met", "ret", "mon", "poll"} \cup Tethers
    BY <1>3 DEF Start, Core
  <2>3. /\ call' \in [Caller -> {"none", "sent", "answered"}]
        /\ wire' \subseteq Request
        /\ status' \in BOOLEAN /\ astray' \in BOOLEAN
    BY <1>0, <1>3, <1>a DEF Start
  <2>4. QED  BY <1>3, <2>1, <2>2, <2>3 DEF Start, TypeOK
<1>4. ASSUME NEW r \in wire, Deliver(r) \/ Drop(r)
      PROVE  TypeOK'
  <2>1. call' \in [Caller -> {"none", "sent", "answered"}]
    BY <1>0, <1>4 DEF Deliver, Drop, Answered
  <2>2. r.online \in BOOLEAN
    BY <1>4 DEF TypeOK, Request
  <2>3. status' \in BOOLEAN /\ astray' \in BOOLEAN
    <3>1. CASE Deliver(r)
      BY <2>2, <3>1 DEF Deliver, TypeOK
    <3>2. CASE Drop(r)
      BY <3>2 DEF Drop, TypeOK
    <3>3. QED  BY <1>4, <3>1, <3>2
  <2>4. wire' \subseteq Request
    BY <1>4 DEF Deliver, Drop, TypeOK
  <2>5. UNCHANGED <<confVars, buildVars, store, done, runVars, tethVars, stop,
                    panic, lives>>
    BY <1>4 DEF Deliver, Drop
  <2>6. QED  BY <2>1, <2>3, <2>4, <2>5 DEF TypeOK
<1>5. ASSUME NEW c \in Caller, Timeout(c)
      PROVE  TypeOK'
  BY <1>5 DEF Timeout, TypeOK
<1>6. ASSUME NEW g \in live, Exit(g)
      PROVE  TypeOK'
  BY <1>6, <1>b DEF Exit, TypeOK
<1>7. ASSUME NEW t \in Tethers, TetherStep(t)
      PROVE  TypeOK'
  <2>1. CASE Tether(t)
    <3>1. /\ wg' \in Nat /\ late' \subseteq Tethers /\ panic' \in Panic
          /\ live' \subseteq {"proc", "met", "ret", "mon", "poll"} \cup Tethers
          /\ tether' \in [Tethers -> {"none", "noop", "select", "gone"}]
      <4>1. CASE Managed /\ ~Releasing
        <5>1. /\ panic' = panic /\ wg' = wg + 1 /\ live' = live \cup {t}
              /\ late' \subseteq late \cup {t}
              /\ tether' = [tether EXCEPT ![t] = "select"]
          BY <2>1, <4>1 DEF Tether
        <5>2. wg' \in Nat
          BY <1>0, <5>1
        <5>3. QED  BY <1>7, <5>1, <5>2 DEF TypeOK
      <4>2. CASE ~Managed
        BY <1>0, <1>7, <2>1, <4>2 DEF Tether, TypeOK
      <4>3. CASE Managed /\ Releasing
        BY <1>0, <2>1, <4>3 DEF Tether, TypeOK, Panic
      <4>4. QED  BY <4>1, <4>2, <4>3
    <3>2. UNCHANGED <<confVars, buildVars, store, done, stopChan, stop, statVars,
                      lives>>
      BY <2>1 DEF Tether
    <3>3. QED  BY <3>1, <3>2 DEF TypeOK
  <2>2. CASE TetherExit(t)
    <3>1. /\ live' \subseteq {"proc", "met", "ret", "mon", "poll"} \cup Tethers
          /\ wg' \in Nat
          /\ panic' \in Panic
      BY <1>b, <2>2 DEF TetherExit
    <3>2. tether' \in [Tethers -> {"none", "noop", "select", "gone"}]
      BY <1>7, <2>2 DEF TetherExit, TypeOK
    <3>3. QED  BY <2>2, <3>1, <3>2 DEF TetherExit, TypeOK
  <2>3. CASE StopTether(t)
    <3>1. /\ stopChan' \subseteq Tethers
          /\ panic' \in Panic
      BY <1>7, <2>3 DEF StopTether, TypeOK, Panic
    <3>2. QED  BY <2>3, <3>1 DEF StopTether, TypeOK
  <2>4. QED  BY <1>7, <2>1, <2>2, <2>3 DEF TetherStep
<1>8. ASSUME NEW s \in Stopper, StopCall(s)
      PROVE  TypeOK'
  <2>1. stop' \in [Stopper -> StopState]
    BY <1>0, <1>8 DEF StopCall, StopState
  <2>2. /\ call' \in [Caller -> {"none", "sent", "answered"}]
        /\ wire' \subseteq Request
        /\ status' \in BOOLEAN /\ astray' \in BOOLEAN
    <3>1. CASE Managed
      BY <1>0, <1>8, <1>a, <3>1 DEF StopCall
    <3>2. CASE ~Managed
      BY <1>8, <3>2 DEF StopCall, TypeOK
    <3>3. QED  BY <3>1, <3>2
  <2>3. QED  BY <1>8, <2>1, <2>2 DEF StopCall, TypeOK
<1>9. ASSUME NEW s \in Stopper,
             StopDone(s) \/ StopWait(s) \/ StopReleased(s) \/ StopWoken(s)
             \/ StopClose(s)
      PROVE  TypeOK'
  <2>1. stop' \in [Stopper -> StopState]
    BY <1>0, <1>9 DEF StopDone, StopWait, StopReleased, StopWoken, StopClose,
                      StopState
  <2>2. /\ store' \in {"open", "leaked", "closed"} /\ done' \in BOOLEAN
        /\ panic' \in Panic
    BY <1>9 DEF StopDone, StopWait, StopReleased, StopWoken, StopClose, TypeOK,
                Panic
  <2>3. UNCHANGED <<confVars, buildVars, runVars, tethVars, statVars, lives>>
    BY <1>9 DEF StopDone, StopWait, StopReleased, StopWoken, StopClose
  <2>4. QED  BY <2>1, <2>2, <2>3 DEF TypeOK
<1>10. CASE Restart
  <2>1. lives' \in 1..MaxLives
    BY <1>0, <1>10, LifecycleAssumption DEF Restart
  <2>2. IsFile(origin') /\ config' \in Config
    BY <1>10, LoadedFile, ToConfig DEF Restart, TypeOK
  <2>3. /\ tether' \in [Tethers -> {"none", "noop", "select", "gone"}]
        /\ stop' \in [Stopper -> StopState]
        /\ call' \in [Caller -> {"none", "sent", "answered"}]
        /\ astray' \in BOOLEAN
    BY <1>10 DEF Restart, StopState, TypeOK
  <2>4. QED  BY <1>10, <2>1, <2>2, <2>3 DEF Restart, TypeOK, Panic
<1>11. CASE SaveBegins \/ InitializeConfig
  <2>1. IsDisk(disk')
    <3>1. disk' \in {[disk EXCEPT !["home"] = Unreadable],
                     [disk EXCEPT !["home"] = Saved(GenerateExampleConfig)]}
      BY <1>11 DEF SaveBegins, InitializeConfig
    <3>2. QED  BY <3>1, SavedExample DEF TypeOK, IsDisk
  <2>2. saving' \in BOOLEAN
        /\ UNCHANGED <<buildVars, store, done, runVars, tethVars, stop, panic,
                       statVars, lives>>
    BY <1>11 DEF SaveBegins, InitializeConfig
  <2>3. QED  BY <2>1, <2>2 DEF TypeOK
<1>12. CASE UNCHANGED vars
  BY <1>12 DEF vars, TypeOK
<1>13. QED
  BY <1>1, <1>2, <1>3, <1>4, <1>5, <1>6, <1>7, <1>8, <1>9, <1>10, <1>11, <1>12
     DEF Next, StopStep
-----------------------------------------------------------------------------
(***************************************************************************)
(* The wait group: the counter is the number of goroutines.                *)
(***************************************************************************)
LEMMA CoreCounted ==
    ASSUME config \in Config
    PROVE  IsFiniteSet(Core) /\ Cardinality(Core) = GoroutineCount + 1
<1> DEFINE retries == config.switch["offline_storage"]
                      /\ config.switch["offline_retry_enabled"]
           checks == config.switch["connectivity_check_enabled"]
           A == {"proc", "met", "poll"}
           B == A \cup (IF retries THEN {"ret"} ELSE {})
<1>1. IsFiniteSet(A) /\ Cardinality(A) = 3
  <2>1. IsFiniteSet({}) /\ Cardinality({}) = 0
    BY FS_EmptySet
  <2>2. IsFiniteSet({"proc"}) /\ Cardinality({"proc"}) = 1
    BY FS_Singleton
  <2>3. /\ IsFiniteSet({"proc"} \cup {"met"})
        /\ Cardinality({"proc"} \cup {"met"}) = 2
    BY <2>2, FS_AddElement
  <2>4. /\ IsFiniteSet(({"proc"} \cup {"met"}) \cup {"poll"})
        /\ Cardinality(({"proc"} \cup {"met"}) \cup {"poll"}) = 3
    BY <2>3, FS_AddElement
  <2>5. ({"proc"} \cup {"met"}) \cup {"poll"} = A
    OBVIOUS
  <2>6. QED  BY <2>4, <2>5
<1>2. /\ IsFiniteSet(B)
      /\ Cardinality(B) = 3 + (IF retries THEN 1 ELSE 0)
  <2>1. CASE retries
    <3>1. B = A \cup {"ret"} /\ "ret" \notin A
      BY <2>1
    <3>2. QED  BY <1>1, <2>1, <3>1, FS_AddElement
  <2>2. CASE ~retries
    <3>1. B = A
      BY <2>2
    <3>2. QED  BY <1>1, <2>2, <3>1
  <2>3. QED  BY <2>1, <2>2
<1>3. "mon" \notin B
  OBVIOUS
<1>4. /\ Core = B \cup (IF checks THEN {"mon"} ELSE {})
      /\ GoroutineCount = 2 + (IF retries THEN 1 ELSE 0)
                            + (IF checks THEN 1 ELSE 0)
  BY DEF Core, GoroutineCount
<1> HIDE DEF B, retries
<1>5. CASE checks
  <2>1. Core = B \cup {"mon"}
    BY <1>4, <1>5
  <2>2. IsFiniteSet(Core) /\ Cardinality(Core) = Cardinality(B) + 1
    BY <1>2, <1>3, <2>1, FS_AddElement
  <2>3. QED  BY <1>2, <1>4, <1>5, <2>2
<1>6. CASE ~checks
  <2>1. Core = B
    BY <1>4, <1>6
  <2>2. QED  BY <1>2, <1>4, <1>6, <2>1
<1>7. QED  BY <1>5, <1>6

\* A goroutine that leaves is counted, so the counter does not go below zero.
LEMMA Leaves ==
    ASSUME LiveInv, Alive, wg \in Nat, NEW g \in live, Leave(g)
    PROVE  /\ live' = live \ {g} /\ wg' = wg - 1 /\ panic' = panic
           /\ IsFiniteSet(live') /\ wg' = Cardinality(live')
<1>1. IsFiniteSet(live) /\ wg = Cardinality(live)
  BY DEF LiveInv, WaitGroupExact
<1>2. Cardinality(live) # 0
  BY <1>1, FS_EmptySet
<1>3. wg # 0
  BY <1>1, <1>2
<1>4. live' = live \ {g} /\ wg' = wg - 1 /\ panic' = panic
  BY <1>3 DEF Leave
<1>5. IsFiniteSet(live \ {g}) /\ Cardinality(live \ {g}) = Cardinality(live) - 1
  BY <1>1, FS_RemoveElement
<1>6. QED  BY <1>1, <1>4, <1>5

LEMMA LiveStep ==
    ASSUME LInv, [Next]_vars
    PROVE  LiveInv'
<1> USE DEF confVars, buildVars, runVars, tethVars, statVars
<1>0. /\ IsFiniteSet(live) /\ (Alive => wg = Cardinality(live))
      /\ wg \in Nat /\ config \in Config
      /\ tether \in [Tethers -> {"none", "noop", "select", "gone"}]
      /\ \A t \in Tethers : t \in live <=> tether[t] = "select"
  BY DEF LInv, TypeOK, LiveInv, WaitGroupExact
<1>1. ASSUME UNCHANGED <<wg, live, tether>>, Alive' => Alive
      PROVE  LiveInv'
  BY <1>0, <1>1 DEF LiveInv, WaitGroupExact
<1>2. CASE Start
  <2>1. phase = "starting" /\ wg = 0
    BY <1>2 DEF Start, LInv, PhaseInv, Early
  <2>2. /\ live' = Core /\ wg' = wg + GoroutineCount + 1
        /\ UNCHANGED <<tether, panic>>
    BY <1>2 DEF Start
  <2>3. \A t \in Tethers : tether[t] = "none"
    BY <2>1 DEF LInv, PhaseInv, Untouched
  <2>4. Core \cap Tethers = {}
    BY LifecycleAssumption DEF Core
  <2>5. GoroutineCount \in Nat
    BY DEF GoroutineCount
  <2>6. IsFiniteSet(live') /\ wg' = Cardinality(live')
    BY <1>0, <2>1, <2>2, <2>5, CoreCounted
  <2>7. QED  BY <2>2, <2>3, <2>4, <2>6 DEF LiveInv, WaitGroupExact
<1>3. ASSUME NEW g \in live, Exit(g)
      PROVE  LiveInv'
  <2>1. Alive /\ g \notin Tethers /\ Leave(g) /\ UNCHANGED tether
    BY <1>3 DEF Exit
  <2>2. live' = live \ {g} /\ IsFiniteSet(live') /\ wg' = Cardinality(live')
    BY <1>0, <2>1, Leaves DEF LInv
  <2>3. QED  BY <1>0, <2>1, <2>2 DEF LiveInv, WaitGroupExact
<1>4. ASSUME NEW t \in Tethers, TetherExit(t)
      PROVE  LiveInv'
  <2>1. /\ Alive /\ tether[t] = "select" /\ Leave(t)
        /\ tether' = [tether EXCEPT ![t] = "gone"]
    BY <1>4 DEF TetherExit
  <2>2. t \in live
    BY <1>0, <2>1
  <2>3. live' = live \ {t} /\ IsFiniteSet(live') /\ wg' = Cardinality(live')
    BY <1>0, <2>1, <2>2, Leaves DEF LInv
  <2>4. QED  BY <1>0, <2>1, <2>3 DEF LiveInv, WaitGroupExact
<1>5. ASSUME NEW t \in Tethers, Tether(t)
      PROVE  LiveInv'
  <2>1. CASE Managed /\ ~Releasing
    <3>1. /\ Alive /\ tether[t] = "none" /\ live' = live \cup {t}
          /\ wg' = wg + 1 /\ tether' = [tether EXCEPT ![t] = "select"]
      BY <1>5, <2>1 DEF Tether
    <3>2. t \notin live
      BY <1>0, <3>1
    <3>3. IsFiniteSet(live') /\ wg' = Cardinality(live')
      BY <1>0, <3>1, <3>2, FS_AddElement
    <3>4. QED  BY <1>0, <3>1, <3>3 DEF LiveInv, WaitGroupExact
  <2>2. CASE ~Managed
    <3>1. /\ tether[t] = "none" /\ UNCHANGED <<wg, live, panic>>
          /\ tether' = [tether EXCEPT ![t] = "noop"]
      BY <1>5, <2>2 DEF Tether
    <3>2. QED  BY <1>0, <3>1 DEF LiveInv, WaitGroupExact, Alive
  <2>3. CASE Managed /\ Releasing
    <3>1. UNCHANGED <<wg, live, tether>> /\ Alive
      BY <1>5, <2>3 DEF Tether
    <3>2. QED  BY <1>1, <3>1
  <2>4. QED  BY <2>1, <2>2, <2>3
<1>6. CASE Restart
  BY <1>6, FS_EmptySet DEF Restart, LiveInv, WaitGroupExact
<1>7. ASSUME NEW t \in Tethers, StopTether(t)
      PROVE  LiveInv'
  BY <1>1, <1>7 DEF StopTether, Alive
<1>8. ASSUME NEW s \in Stopper, StopStep(s)
      PROVE  LiveInv'
  <2>1. UNCHANGED <<wg, live, tether>> /\ Alive
    BY <1>8 DEF StopStep, StopCall, StopDone, StopWait, StopReleased,
                StopWoken, StopClose
  <2>2. QED  BY <1>1, <2>1
<1>9. ASSUME \/ \E m \in {"managed", "headless", "file"} : Load(m)
             \/ SetupKey \/ Validate \/ OpenStore \/ Collect \/ Announced
             \/ \E r \in wire : Deliver(r) \/ Drop(r)
             \/ \E c \in Caller : Timeout(c)
             \/ SaveBegins \/ InitializeConfig \/ UNCHANGED vars
      PROVE  LiveInv'
  <2>1. UNCHANGED <<wg, live, tether, panic>>
    BY <1>9 DEF Load, SetupKey, Validate, OpenStore, Collect, Announced, Deliver,
                Drop, Timeout, SaveBegins, InitializeConfig, vars
  <2>2. QED  BY <1>1, <2>1 DEF Alive
<1>10. QED
  BY <1>2, <1>3, <1>4, <1>5, <1>6, <1>7, <1>8, <1>9 DEF Next, TetherStep
-----------------------------------------------------------------------------
(***************************************************************************)
(* The constructor.                                                        *)
(***************************************************************************)
\* ConfigRight and Core depend on nothing but what the constructor loads.
LEMMA ConfigSame ==
    ASSUME UNCHANGED buildVars
    PROVE  /\ ConfigRight' <=> ConfigRight
           /\ Managed' <=> Managed
           /\ Storing' <=> Storing
           /\ Core' = Core
BY DEF buildVars, ConfigRight, Managed, AskedManaged, Wanted, Storing, Core

\* A goroutine runs and Stop is under way only in a managed client that is
\* ready.
LEMMA Running ==
    ASSUME LInv
    PROVE  /\ done => phase = "ready"
           /\ \A t \in Tethers : tether[t] # "none" => phase = "ready"
           /\ \A s \in Stopper : stop[s] # "idle" => phase = "ready"
           /\ \A s \in Stopper : stop[s] \notin {"idle", "returned"} =>
                 phase = "ready" /\ Managed
           /\ panic # "no" => phase = "ready"
BY DEF LInv, PhaseInv, Untouched, StopInv

LEMMA PhaseStep ==
    ASSUME LInv, [Next]_vars
    PROVE  PhaseInv'
<1> USE DEF confVars, runVars, tethVars, statVars
<1>0. PhaseInv /\ TypeOK
  BY DEF LInv
<1>1. ASSUME UNCHANGED <<buildVars, store, done, wg, live, late, tether, stop,
                         panic>>
      PROVE  PhaseInv'
  BY <1>0, <1>1, ConfigSame DEF PhaseInv, Untouched, buildVars
<1>2. ASSUME NEW m \in {"managed", "headless", "file"}, Load(m)
      PROVE  PhaseInv'
  <2>1. /\ phase \in {"none", "failed"} /\ phase' \in {"loaded", "failed"}
        /\ UNCHANGED <<store, done, wg, live, late, tether, stop, panic>>
    BY <1>2 DEF Load
  <2>2. Untouched /\ live = {} /\ wg = 0 /\ store # "open"
    BY <1>0, <2>1 DEF PhaseInv, Early
  <2>3. phase' = "loaded" => ConfigRight'
    BY <1>0, <1>2, LoadConfig
  <2>4. QED  BY <2>1, <2>2, <2>3 DEF PhaseInv, Untouched, Early
<1>3. CASE SetupKey \/ Validate \/ OpenStore \/ Announced
  <2>1. /\ UNCHANGED <<mode, origin, config, done, wg, live, late, tether, stop,
                       panic>>
    BY <1>3 DEF SetupKey, Validate, OpenStore, Announced
  <2>2. /\ ConfigRight' <=> ConfigRight
        /\ Managed' <=> Managed
        /\ Storing' <=> Storing
        /\ Core' = Core
    BY <2>1 DEF ConfigRight, Managed, AskedManaged, Wanted, Storing, Core
  <2>3. phase \in {"loaded", "validating", "opening", "announcing"}
    BY <1>3 DEF SetupKey, Validate, OpenStore, Announced
  <2>4. Untouched /\ Untouched' /\ ConfigRight'
    BY <1>0, <2>1, <2>2, <2>3 DEF PhaseInv, Untouched
  <2>5. CASE SetupKey
    <3>1. /\ live = {} /\ wg = 0 /\ store # "open" /\ store' = store
          /\ phase' \in {"failed", IF Managed THEN "validating" ELSE "ready"}
      BY <1>0, <2>5 DEF SetupKey, PhaseInv, Early
    <3>2. ~Managed => ~Storing
      BY <1>0, <2>3, <2>4, <2>5, <2>2 DEF ConfigRight, Storing, Feature, Switch,
                                          DefaultSwitch
    <3>3. QED  BY <2>1, <2>2, <2>4, <3>1, <3>2 DEF PhaseInv, Untouched, Early
  <2>6. CASE Validate
    <3>1. /\ Managed /\ live = {} /\ wg = 0 /\ store # "open"
          /\ phase' \in {"failed", IF Storing THEN "opening" ELSE "starting"}
          /\ store' = store
      BY <1>0, <2>6 DEF Validate, PhaseInv, Early, Storing
    <3>2. QED  BY <2>1, <2>2, <2>4, <3>1 DEF PhaseInv, Early
  <2>7. CASE OpenStore
    <3>1. /\ Managed /\ Storing /\ live = {} /\ wg = 0 /\ store # "open"
          /\ \/ phase' = "failed" /\ store' \in {store, "leaked"}
             \/ phase' = "starting" /\ store' = "open"
      BY <1>0, <2>7 DEF OpenStore, PhaseInv, Early
    <3>2. QED  BY <2>1, <2>2, <2>4, <3>1 DEF PhaseInv, Early
  <2>8. CASE Announced
    <3>1. /\ Managed /\ phase' = "ready" /\ UNCHANGED store
          /\ store = "leaked" => ~Storing
      BY <1>0, <2>8 DEF Announced, PhaseInv
    <3>2. QED  BY <2>1, <2>2, <2>4, <3>1 DEF PhaseInv, Early
  <2>9. QED  BY <1>3, <2>5, <2>6, <2>7, <2>8
<1>4. CASE Start
  <2>1. /\ phase = "starting" /\ phase' = "announcing" /\ live' = Core
        /\ UNCHANGED <<mode, origin, config, store, done, late, tether, stop,
                       panic>>
    BY <1>4 DEF Start
  <2>2. /\ ConfigRight' <=> ConfigRight
        /\ Managed' <=> Managed
        /\ Storing' <=> Storing
        /\ Core' = Core
    BY <2>1 DEF ConfigRight, Managed, AskedManaged, Wanted, Storing, Core
  <2>3. Untouched /\ ConfigRight /\ Managed /\ (store = "open" <=> Storing)
    BY <1>0, <2>1 DEF PhaseInv
  <2>4. QED  BY <2>1, <2>2, <2>3 DEF PhaseInv, Untouched, Early
<1>5. ASSUME phase = "ready", Managed, UNCHANGED buildVars,
             store' = store \/ store' # "leaked"
      PROVE  PhaseInv'
  BY <1>0, <1>5, ConfigSame DEF PhaseInv, Early, buildVars
<1>6. ASSUME NEW g \in live, Exit(g)
      PROVE  PhaseInv'
  <2>1. done /\ UNCHANGED <<buildVars, store>>
    BY <1>6 DEF Exit
  <2>2. phase = "ready" /\ Managed
    BY <1>0, <2>1, Running DEF PhaseInv
  <2>3. QED  BY <1>5, <2>1, <2>2
<1>7. ASSUME NEW t \in Tethers, TetherStep(t)
      PROVE  PhaseInv'
  <2>1. phase = "ready" /\ UNCHANGED <<buildVars, store>>
    BY <1>7, Running DEF TetherStep, Tether, TetherExit, StopTether
  <2>2. CASE Managed
    BY <1>5, <2>1, <2>2
  <2>3. CASE ~Managed
    <3>1. live = {} /\ ~done /\ store # "open"
      BY <1>0, <2>1, <2>3 DEF PhaseInv
    <3>2. ~TetherExit(t)
      BY <1>7, <3>1 DEF TetherExit, LInv, LiveInv
    <3>3. UNCHANGED <<live, done, store>>
      BY <1>7, <2>3, <3>2 DEF TetherStep, Tether, StopTether
    <3>4. QED
      BY <1>0, <2>1, <2>3, <3>1, <3>3, ConfigSame
         DEF PhaseInv, Early, buildVars
  <2>4. QED  BY <2>2, <2>3
<1>8. ASSUME NEW s \in Stopper, StopStep(s)
      PROVE  PhaseInv'
  <2>1. /\ phase = "ready" /\ UNCHANGED buildVars /\ UNCHANGED live
        /\ store' = store \/ store' # "leaked"
    BY <1>8, Running DEF StopStep, StopCall, StopDone, StopWait, StopReleased,
                         StopWoken, StopClose
  <2>2. CASE Managed
    BY <1>5, <2>1, <2>2
  <2>3. CASE ~Managed
    <3>1. StopCall(s)
      BY <1>8, <2>3, Running DEF StopStep, StopDone, StopWait, StopReleased,
                                 StopWoken, StopClose
    <3>2. UNCHANGED <<done, store>>
      BY <3>1 DEF StopCall
    <3>3. QED
      BY <1>0, <2>1, <2>3, <3>2, ConfigSame DEF PhaseInv, Early, buildVars
  <2>4. QED  BY <2>2, <2>3
<1>9. CASE Restart
  BY <1>9 DEF Restart, PhaseInv, Untouched, Early
<1>10. ASSUME \/ \E r \in wire : Deliver(r) \/ Drop(r)
              \/ \E c \in Caller : Timeout(c)
              \/ SaveBegins \/ InitializeConfig \/ UNCHANGED vars
       PROVE  PhaseInv'
  <2>1. UNCHANGED <<buildVars, store, done, wg, live, late, tether, stop, panic>>
    BY <1>10 DEF Deliver, Drop, Timeout, SaveBegins, InitializeConfig, vars
  <2>2. QED  BY <1>1, <2>1
<1>11. CASE Collect
  <2>1. /\ store' = "closed" /\ store = "leaked"
        /\ UNCHANGED <<buildVars, done, wg, live, late, tether, stop, panic>>
    BY <1>11 DEF Collect
  <2>2. QED  BY <1>0, <2>1, ConfigSame DEF PhaseInv, Untouched, buildVars
<1>12. QED
  BY <1>2, <1>3, <1>4, <1>6, <1>7, <1>8, <1>9, <1>10, <1>11 DEF Next
-----------------------------------------------------------------------------
(***************************************************************************)
(* Stop.                                                                   *)
(***************************************************************************)
LEMMA StopStepInv ==
    ASSUME LInv, [Next]_vars
    PROVE  StopInv'
<1> USE DEF confVars, runVars, tethVars, statVars
<1>0. /\ StopInv /\ stop \in [Stopper -> StopState]
      /\ config \in Config /\ wg \in Nat
  BY DEF LInv, TypeOK
<1>1. ASSUME UNCHANGED <<buildVars, store, done, live, late, stop>>
      PROVE  StopInv'
  BY <1>0, <1>1, ConfigSame DEF StopInv, buildVars
<1>2. ASSUME phase' # "ready", ~done', \A s \in Stopper : stop'[s] = "idle"
      PROVE  StopInv'
  BY <1>2 DEF StopInv, Past, Waited
<1>3. ASSUME \/ \E m \in {"managed", "headless", "file"} : Load(m)
             \/ Validate \/ OpenStore \/ Start
      PROVE  StopInv'
  <2>1. phase # "ready" /\ phase' # "ready" /\ UNCHANGED <<done, stop>>
    BY <1>3 DEF Load, Validate, OpenStore, Start
  <2>2. QED  BY <1>2, <2>1 DEF LInv, PhaseInv, Untouched
<1>4. CASE SetupKey \/ Announced
  <2>1. /\ phase # "ready"
        /\ UNCHANGED <<mode, origin, config, done, stop, store, live, late>>
    BY <1>4 DEF SetupKey, Announced
  <2>2. ~done /\ \A s \in Stopper : stop[s] = "idle"
    BY <2>1 DEF LInv, PhaseInv, Untouched
  <2>3. CASE Announced
    <3>1. live = Core /\ (store = "open" <=> Storing)
      BY <2>3 DEF Announced, LInv, PhaseInv
    <3>2. /\ Managed' <=> Managed
          /\ Storing' <=> Storing
          /\ Core' = Core
      BY <2>1 DEF Managed, Storing, Core
    <3>3. Core \ Tethers = Core
      BY LifecycleAssumption DEF Core
    <3>4. QED  BY <2>1, <2>2, <3>1, <3>2, <3>3 DEF StopInv, Past, Waited
  <2>4. CASE SetupKey
    <3>1. phase' = "ready" => ~Managed'
      BY <2>4 DEF SetupKey, Managed
    <3>2. QED  BY <2>1, <2>2, <3>1 DEF StopInv, Past, Waited
  <2>5. QED  BY <1>4, <2>3, <2>4
<1>5. CASE Restart
  BY <1>2, <1>5 DEF Restart
<1>6. ASSUME NEW g \in live, Exit(g)
      PROVE  StopInv'
  <2>1. /\ done /\ Alive /\ g \in live /\ Leave(g)
        /\ UNCHANGED <<buildVars, store, done, late, stop>>
    BY <1>6 DEF Exit
  <2>2. live' \subseteq live
    BY <2>1 DEF Leave
  <2>3. QED  BY <1>0, <2>1, <2>2, ConfigSame DEF StopInv, buildVars
<1>7. ASSUME NEW t \in Tethers, TetherExit(t)
      PROVE  StopInv'
  <2>1. /\ Leave(t) /\ UNCHANGED <<buildVars, store, done, late, stop>>
    BY <1>7 DEF TetherExit
  <2>2. live' \subseteq live /\ live' \ Tethers = live \ Tethers
    BY <1>7, <2>1 DEF Leave
  <2>3. QED  BY <1>0, <2>1, <2>2, ConfigSame DEF StopInv, buildVars
<1>8. ASSUME NEW t \in Tethers, Tether(t)
      PROVE  StopInv'
  <2>1. UNCHANGED <<buildVars, store, done, stop>>
    BY <1>8 DEF Tether
  <2>2. CASE Managed /\ ~Releasing
    <3>1. /\ live' = live \cup {t}
          /\ late' = IF \E s \in Stopper : stop[s] \in Waited
                     THEN late \cup {t} ELSE late
      BY <1>8, <2>2 DEF Tether
    <3>2. live' \ Tethers = live \ Tethers
      BY <3>1
    <3>3. \A s \in Stopper : stop[s] \in Waited => live' \subseteq late'
      <4>1. ASSUME NEW s \in Stopper, stop[s] \in Waited
            PROVE  live' \subseteq late'
        <5>1. late' = late \cup {t}
          BY <3>1, <4>1
        <5>2. live \subseteq late
          BY <1>0, <2>2, <4>1 DEF StopInv
        <5>3. QED  BY <3>1, <5>1, <5>2
      <4>2. QED  BY <4>1
    <3>4. QED  BY <1>0, <2>1, <2>2, <3>2, <3>3, ConfigSame DEF StopInv, buildVars
  <2>3. CASE ~Managed
    BY <1>1, <1>8, <2>1, <2>3 DEF Tether
  <2>4. CASE Managed /\ Releasing
    BY <1>1, <1>8, <2>1, <2>4 DEF Tether
  <2>5. QED  BY <2>2, <2>3, <2>4
<1>9. ASSUME NEW t \in Tethers, StopTether(t)
      PROVE  StopInv'
  BY <1>1, <1>9 DEF StopTether
<1>10. ASSUME NEW s \in Stopper, StopCall(s)
       PROVE  StopInv'
  <2>1. UNCHANGED <<buildVars, store, done, live, late>> /\ stop[s] = "idle"
    BY <1>10 DEF StopCall
  <2>2. stop' = [stop EXCEPT ![s] = IF Managed THEN "status" ELSE "returned"]
    BY <1>10 DEF StopCall
  <2>3. \A u \in Stopper : stop'[u] = IF u = s
                                      THEN IF Managed THEN "status" ELSE "returned"
                                      ELSE stop[u]
    BY <1>0, <2>2
  <2>4. CASE Managed
    <3>1. \A u \in Stopper : /\ stop'[u] \in Past <=> stop[u] \in Past
                             /\ stop'[u] \in Waited <=> stop[u] \in Waited
                             /\ stop[u] = "returned" => stop'[u] = "returned"
      BY <2>1, <2>3, <2>4 DEF Past, Waited
    <3>2. \A u \in Stopper : stop'[u] \in Past => stop'[u] = stop[u]
      BY <2>1, <2>3, <2>4 DEF Past
    <3>3. QED  BY <1>0, <2>1, <2>4, <3>1, ConfigSame DEF StopInv, buildVars
  <2>5. CASE ~Managed
    BY <1>0, <2>1, <2>3, <2>5, ConfigSame DEF StopInv, buildVars
  <2>6. QED  BY <2>4, <2>5
<1>11. ASSUME NEW s \in Stopper, StopDone(s)
       PROVE  StopInv'
  <2>1. CASE done
    BY <1>1, <1>11, <2>1 DEF StopDone
  <2>2. CASE ~done
    <3>1. /\ done' = TRUE /\ stop[s] = "status"
          /\ stop' = [stop EXCEPT ![s] = "wait"]
          /\ UNCHANGED <<buildVars, store, live, late>>
      BY <1>11, <2>2 DEF StopDone
    <3>2. Managed /\ phase = "ready"
      BY <3>1, Running
    <3>3. \A u \in Stopper : stop[u] \notin Past
      BY <1>0, <2>2, <3>2 DEF StopInv
    <3>4. \A u \in Stopper : stop'[u] = IF u = s THEN "wait" ELSE stop[u]
      BY <1>0, <3>1
    <3>5. \A u \in Stopper : (stop'[u] \in Past <=> u = s) /\ stop'[u] \notin Waited
      BY <1>0, <3>3, <3>4 DEF Past, Waited, StopState
    <3>6. store = "open" <=> Storing
      BY <1>0, <2>2, <3>2 DEF StopInv
    <3>7. QED  BY <1>0, <3>1, <3>2, <3>5, <3>6, ConfigSame DEF StopInv, buildVars
  <2>3. QED  BY <2>1, <2>2
<1>12. ASSUME NEW s \in Stopper, NEW new \in Waited \cup {"wait", "blocked"},
              stop[s] \in Past, stop' = [stop EXCEPT ![s] = new],
              UNCHANGED <<buildVars, done, live, late>>,
              stop[s] \notin Waited /\ new \in Waited => live = {},
              stop[s] # "returned",
              new # "returned" => store' = store
       PROVE  StopInv'
  <2>1. Managed /\ phase = "ready"
    BY <1>12, Running DEF Past
  <2>2. \A u \in Stopper : stop'[u] = IF u = s THEN new ELSE stop[u]
    BY <1>0, <1>12
  <2>3. \A u \in Stopper : stop'[u] \in Past <=> stop[u] \in Past
    BY <1>12, <2>2 DEF Past, Waited, StopState
  <2>4. \A u \in Stopper : stop'[u] \in Waited => live' \subseteq late'
    <3>1. ASSUME NEW u \in Stopper, stop'[u] \in Waited
          PROVE  live \subseteq late
      BY <1>0, <1>12, <2>1, <2>2, <3>1 DEF StopInv
    <3>2. QED  BY <1>12, <3>1
  <2>5. /\ \A u, v \in Stopper : stop'[u] \in Past /\ stop'[v] \in Past => u = v
        /\ done' <=> \E u \in Stopper : stop'[u] \in Past
    BY <1>0, <1>12, <2>1, <2>3 DEF StopInv
  <2>6. done'
    BY <1>12, <2>3, <2>5
  <2>7. Storing' /\ store' # "open" =>
            \E u \in Stopper : stop'[u] = "returned"
    <3>1. CASE new = "returned"
      BY <2>2, <3>1
    <3>2. CASE new # "returned"
      <4>1. store' = store /\ (Storing' <=> Storing)
        BY <1>12, <3>2, ConfigSame
      <4>2. ASSUME Storing, store # "open"
            PROVE  \E u \in Stopper : stop'[u] = "returned"
        <5>1. PICK u \in Stopper : stop[u] = "returned"
          BY <1>0, <2>1, <4>2 DEF StopInv
        <5>2. u # s
          BY <1>12, <5>1
        <5>3. QED  BY <2>2, <5>1, <5>2
      <4>3. QED  BY <4>1, <4>2
    <3>3. QED  BY <3>1, <3>2
  <2>8. QED
    BY <1>12, <2>1, <2>4, <2>5, <2>6, <2>7, ConfigSame DEF StopInv, buildVars
<1>13. wg = 0 /\ Alive => live = {}
  BY FS_EmptySet DEF LInv, LiveInv, WaitGroupExact
<1>14. ASSUME NEW s \in Stopper, StopWait(s)
       PROVE  StopInv'
  <2>1. /\ Alive /\ stop[s] = "wait" /\ UNCHANGED <<buildVars, store, done, live, late>>
        /\ stop' = [stop EXCEPT ![s] = IF wg = 0 THEN "close" ELSE "blocked"]
    BY <1>14 DEF StopWait
  <2>2. QED  BY <1>12, <1>13, <2>1 DEF Past, Waited, StopState
<1>15. ASSUME NEW s \in Stopper, StopReleased(s)
       PROVE  StopInv'
  <2>1. /\ Alive /\ stop[s] = "blocked" /\ wg = 0
        /\ UNCHANGED <<buildVars, store, done, live, late>>
        /\ stop' = [stop EXCEPT ![s] = "released"]
    BY <1>15 DEF StopReleased
  <2>2. QED  BY <1>12, <1>13, <2>1 DEF Past, Waited, StopState
<1>16. ASSUME NEW s \in Stopper, StopWoken(s)
       PROVE  StopInv'
  <2>1. CASE wg # 0
    BY <1>1, <1>16, <2>1 DEF StopWoken
  <2>2. CASE wg = 0
    <3>1. /\ Alive /\ stop[s] = "released"
          /\ UNCHANGED <<buildVars, store, done, live, late>>
          /\ stop' = [stop EXCEPT ![s] = "close"]
      BY <1>16, <2>2 DEF StopWoken
    <3>2. QED  BY <1>12, <3>1 DEF Past, Waited, StopState
  <2>3. QED  BY <2>1, <2>2
<1>17. ASSUME NEW s \in Stopper, StopClose(s)
       PROVE  StopInv'
  <2>1. /\ stop[s] = "close"
        /\ UNCHANGED <<buildVars, done, live, late>>
        /\ stop' = [stop EXCEPT ![s] = "returned"]
    BY <1>17 DEF StopClose
  <2>2. QED  BY <1>12, <2>1 DEF Past, Waited, StopState
<1>18. ASSUME \/ \E r \in wire : Deliver(r) \/ Drop(r)
              \/ \E c \in Caller : Timeout(c)
              \/ SaveBegins \/ InitializeConfig \/ UNCHANGED vars
       PROVE  StopInv'
  <2>1. UNCHANGED <<buildVars, store, done, live, late, stop>>
    BY <1>18 DEF Deliver, Drop, Timeout, SaveBegins, InitializeConfig, vars
  <2>2. QED  BY <1>1, <2>1
<1>19. CASE Collect
  <2>1. /\ store' = "closed" /\ store = "leaked"
        /\ UNCHANGED <<buildVars, done, live, late, stop>>
    BY <1>19 DEF Collect
  <2>2. QED  BY <1>0, <2>1, ConfigSame DEF StopInv, buildVars
<1>20. QED
  BY <1>3, <1>4, <1>5, <1>6, <1>7, <1>8, <1>9, <1>10, <1>11, <1>14, <1>15,
     <1>16, <1>17, <1>18, <1>19 DEF Next, StopStep, TetherStep
-----------------------------------------------------------------------------
(***************************************************************************)
(* The status calls and their requests.                                    *)
(***************************************************************************)
LEMMA CallStep ==
    ASSUME LInv, [Next]_vars
    PROVE  CallInv'
<1> USE DEF confVars, runVars, tethVars
<1>0. /\ CallInv /\ stop \in [Stopper -> StopState]
      /\ call \in [Caller -> {"none", "sent", "answered"}]
      /\ "new" \in Caller /\ Stopper \subseteq Caller /\ "new" \notin Stopper
  BY LifecycleAssumption DEF LInv, TypeOK, Caller
<1>1. ASSUME UNCHANGED <<buildVars, stop, call>>
      PROVE  CallInv'
  BY <1>0, <1>1, ConfigSame DEF CallInv, buildVars
<1>2. ASSUME NEW m \in {"managed", "headless", "file"}, Load(m)
      PROVE  CallInv'
  <2>1. /\ phase \in {"none", "failed"} /\ phase' \in {"loaded", "failed"}
        /\ stop' = stop /\ call' = [call EXCEPT !["new"] = "none"]
    BY <1>2 DEF Load
  <2>2. /\ call'["new"] = "none"
        /\ \A s \in Stopper : call'[s] = call[s]
    BY <1>0, <2>1
  <2>3. \A s \in Stopper : stop[s] = "idle" /\ call[s] = "none"
    BY <1>0, <2>1 DEF LInv, PhaseInv, Untouched, CallInv
  <2>4. QED  BY <2>1, <2>2, <2>3 DEF CallInv
<1>3. CASE SetupKey \/ Validate \/ OpenStore \/ Announced
  <2>1. UNCHANGED <<stop, call>> /\ phase # "ready" /\ phase' # "announcing"
    BY <1>3 DEF SetupKey, Validate, OpenStore, Announced, statVars
  <2>2. \A s \in Stopper : stop[s] = "idle" /\ call[s] = "none"
    BY <1>0, <2>1 DEF LInv, PhaseInv, Untouched, CallInv
  <2>3. call["new"] # "sent"
    BY <1>0, <1>3 DEF CallInv, SetupKey, Validate, OpenStore, Announced
  <2>4. phase' \in Early => call["new"] # "answered"
    BY <1>0, <1>3 DEF CallInv, SetupKey, Validate, OpenStore, Announced, Early
  <2>5. QED  BY <2>1, <2>2, <2>3, <2>4 DEF CallInv
<1>4. CASE Start
  <2>1. /\ phase = "starting" /\ phase' = "announcing" /\ stop' = stop
        /\ call' = [call EXCEPT !["new"] = "sent"]
    BY <1>4 DEF Start, SendStatus
  <2>2. /\ call'["new"] = "sent"
        /\ \A s \in Stopper : call'[s] = call[s]
    BY <1>0, <2>1
  <2>3. \A s \in Stopper : stop[s] = "idle" /\ call[s] = "none"
    BY <1>0, <2>1 DEF LInv, PhaseInv, Untouched, CallInv
  <2>4. QED  BY <2>1, <2>2, <2>3 DEF CallInv, Early
<1>5. ASSUME NEW c \in Caller, call[c] = "sent",
             call' = [call EXCEPT ![c] = "answered"],
             UNCHANGED <<buildVars, stop>>
      PROVE  CallInv'
  <2>1. \A d \in Caller : call'[d] = IF d = c THEN "answered" ELSE call[d]
    BY <1>0, <1>5
  <2>2. UNCHANGED <<phase, stop>> /\ (Managed' <=> Managed)
    BY <1>5, ConfigSame DEF buildVars
  <2>3. QED  BY <1>0, <1>5, <2>1, <2>2 DEF CallInv, Early
<1>6. ASSUME NEW r \in wire, Deliver(r) \/ Drop(r)
      PROVE  CallInv'
  <2>1. UNCHANGED <<buildVars, stop>> /\ call' = Answered(r)
    BY <1>6 DEF Deliver, Drop
  <2>2. r.from \in Caller
    BY <1>6 DEF LInv, TypeOK, Request
  <2>3. CASE call[r.from] = "sent" /\ r.life = lives
    BY <1>5, <2>1, <2>2, <2>3 DEF Answered
  <2>4. CASE ~(call[r.from] = "sent" /\ r.life = lives)
    BY <1>1, <2>1, <2>4 DEF Answered
  <2>5. QED  BY <2>3, <2>4
<1>7. ASSUME NEW c \in Caller, Timeout(c)
      PROVE  CallInv'
  BY <1>5, <1>7 DEF Timeout
<1>8. ASSUME NEW s \in Stopper, StopCall(s)
      PROVE  CallInv'
  <2>1. UNCHANGED buildVars /\ stop[s] = "idle" /\ phase = "ready"
    BY <1>8 DEF StopCall
  <2>2. CASE Managed
    <3>1. /\ stop' = [stop EXCEPT ![s] = "status"]
          /\ call' = [call EXCEPT ![s] = "sent"]
      BY <1>8, <2>2 DEF StopCall, SendStatus
    <3>2. \A u \in Stopper : /\ stop'[u] = IF u = s THEN "status" ELSE stop[u]
                             /\ call'[u] = IF u = s THEN "sent" ELSE call[u]
      BY <1>0, <3>1
    <3>3. call'["new"] = call["new"]
      BY <1>0, <3>1
    <3>4. QED
      BY <1>0, <2>1, <2>2, <3>2, <3>3, ConfigSame DEF CallInv, buildVars
  <2>3. CASE ~Managed
    <3>1. stop' = [stop EXCEPT ![s] = "returned"] /\ call' = call
      BY <1>8, <2>3 DEF StopCall, statVars
    <3>2. \A u \in Stopper : stop'[u] = IF u = s THEN "returned" ELSE stop[u]
      BY <1>0, <3>1
    <3>3. call[s] # "sent"
      BY <1>0, <2>1 DEF CallInv
    <3>4. QED
      BY <1>0, <2>1, <2>3, <3>1, <3>2, <3>3, ConfigSame DEF CallInv, buildVars
  <2>4. QED  BY <2>2, <2>3
<1>9. ASSUME NEW s \in Stopper, NEW new \in Past, call[s] # "sent",
             stop' = [stop EXCEPT ![s] = new], stop[s] # "idle",
             UNCHANGED <<buildVars, call>>
      PROVE  CallInv'
  <2>1. \A u \in Stopper : stop'[u] = IF u = s THEN new ELSE stop[u]
    BY <1>0, <1>9
  <2>2. new # "idle" /\ new # "status"
    BY <1>9 DEF Past
  <2>3. QED
    BY <1>0, <1>9, <2>1, <2>2, ConfigSame DEF CallInv, buildVars
<1>10. ASSUME NEW s \in Stopper,
              StopDone(s) \/ StopWait(s) \/ StopReleased(s) \/ StopWoken(s)
              \/ StopClose(s)
       PROVE  CallInv'
  <2>1. UNCHANGED <<buildVars, call>> /\ stop[s] # "idle"
    BY <1>10 DEF StopDone, StopWait, StopReleased, StopWoken, StopClose, statVars
  <2>2. call[s] # "sent"
    BY <1>0, <1>10 DEF CallInv, StopDone, StopWait, StopReleased, StopWoken,
                       StopClose
  <2>3. \/ stop' = stop
        \/ \E new \in Past : stop' = [stop EXCEPT ![s] = new]
    BY <1>10 DEF StopDone, StopWait, StopReleased, StopWoken, StopClose, Past,
                 StopState
  <2>4. QED  BY <1>1, <1>9, <2>1, <2>2, <2>3
<1>11. CASE Restart
  <2>1. /\ phase' = "none"
        /\ call' = [c \in Caller |-> "none"]
        /\ stop' = [s \in Stopper |-> "idle"]
    BY <1>11 DEF Restart
  <2>2. \A c \in Caller : call'[c] = "none"
    BY <2>1
  <2>3. QED  BY <1>0, <2>1, <2>2 DEF CallInv
<1>12. ASSUME \/ \E g \in live : Exit(g)
              \/ \E t \in Tethers : TetherStep(t)
              \/ Collect \/ SaveBegins \/ InitializeConfig \/ UNCHANGED vars
       PROVE  CallInv'
  <2>1. UNCHANGED <<buildVars, stop, call>>
    BY <1>12 DEF Exit, TetherStep, Tether, TetherExit, StopTether, Collect,
                 SaveBegins, InitializeConfig, vars, statVars
  <2>2. QED  BY <1>1, <2>1
<1>13. QED
  BY <1>2, <1>3, <1>4, <1>6, <1>7, <1>8, <1>10, <1>11, <1>12 DEF Next, StopStep

LEMMA WireStep ==
    ASSUME LInv, [Next]_vars
    PROVE  WireInv'
<1> USE DEF confVars, runVars, tethVars
<1>0. /\ WireInv /\ CallInv
      /\ call \in [Caller -> {"none", "sent", "answered"}]
      /\ "new" \in Caller /\ Stopper \subseteq Caller /\ "new" \notin Stopper
      /\ wire \subseteq Request
  BY LifecycleAssumption DEF LInv, TypeOK, Caller
<1> SUFFICES ASSUME ~astray'  PROVE WireInv'
  BY DEF WireInv
<1>1. ASSUME UNCHANGED <<buildVars, call, wire, status, astray, lives>>
      PROVE  WireInv'
  BY <1>0, <1>1, ConfigSame DEF WireInv, buildVars
<1>2. ASSUME NEW m \in {"managed", "headless", "file"}, Load(m)
      PROVE  WireInv'
  <2>1. /\ phase \in {"none", "failed"} /\ phase' \in {"loaded", "failed"}
        /\ call' = [call EXCEPT !["new"] = "none"]
        /\ UNCHANGED <<wire, status, astray, lives>>
    BY <1>2 DEF Load
  <2>2. \A c \in Caller \ {"new"} : call'[c] = call[c]
    BY <1>0, <2>1
  <2>3. call["new"] # "sent"
    BY <1>0, <2>1 DEF CallInv
  <2>4. \A r \in wire : r.from \in Caller \ {"new"}
    BY <1>0, <2>1, <2>3 DEF WireInv, Request
  <2>5. QED  BY <1>0, <2>1, <2>2, <2>4 DEF WireInv
<1>3. CASE SetupKey \/ Validate \/ OpenStore
  <2>1. /\ UNCHANGED <<call, wire, status, astray, lives>>
        /\ phase' # "announcing" /\ (phase' = "ready" => ~Managed')
    BY <1>3 DEF SetupKey, Validate, OpenStore, statVars, Managed
  <2>2. QED  BY <1>0, <2>1 DEF WireInv
<1>4. CASE Announced
  <2>1. /\ UNCHANGED <<call, wire, status, astray, lives>>
        /\ phase = "announcing" /\ call["new"] = "answered" /\ phase' = "ready"
    BY <1>4 DEF Announced, statVars
  <2>2. status /\ \A s \in Stopper : call[s] # "answered"
    BY <1>0, <2>1 DEF WireInv, CallInv
  <2>3. QED  BY <1>0, <2>1, <2>2 DEF WireInv
<1>5. ASSUME NEW c \in Caller, NEW b \in BOOLEAN, SendStatus(c, b),
             call[c] = "none", b <=> c = "new", UNCHANGED lives
      PROVE  /\ \A r \in wire' : /\ r.life = lives' /\ call'[r.from] = "sent"
                                 /\ r.online <=> r.from = "new"
             /\ UNCHANGED <<status, astray>> /\ call'[c] = "sent"
             /\ \A d \in Caller : d # c => call'[d] = call[d]
  <2>1. /\ call' = [call EXCEPT ![c] = "sent"]
        /\ wire' = wire \cup {[life |-> lives, from |-> c, online |-> b]}
        /\ UNCHANGED <<status, astray>>
    BY <1>5 DEF SendStatus
  <2>2. call'[c] = "sent" /\ \A d \in Caller : d # c => call'[d] = call[d]
    BY <1>0, <2>1
  <2>3. ASSUME NEW r \in wire
        PROVE  /\ r.life = lives' /\ call'[r.from] = "sent"
               /\ r.online <=> r.from = "new"
    <3>1. /\ r.life = lives /\ call[r.from] = "sent"
          /\ r.online <=> r.from = "new"
      BY <1>0, <2>1, <2>3 DEF WireInv
    <3>2. r.from \in Caller /\ r.from # c
      BY <1>0, <1>5, <2>3, <3>1 DEF Request
    <3>3. QED  BY <1>5, <2>2, <3>1, <3>2
  <2>4. ASSUME NEW r, r = [life |-> lives, from |-> c, online |-> b]
        PROVE  /\ r.life = lives' /\ call'[r.from] = "sent"
               /\ r.online <=> r.from = "new"
    BY <1>5, <2>2, <2>4
  <2>5. QED  BY <2>1, <2>2, <2>3, <2>4
<1>6. CASE Start
  <2>1. /\ phase = "starting" /\ phase' = "announcing" /\ SendStatus("new", TRUE)
        /\ UNCHANGED lives
    BY <1>6 DEF Start
  <2>2. call["new"] = "none"
    BY <1>0, <2>1 DEF CallInv, Early
  <2>3. /\ \A r \in wire' : /\ r.life = lives' /\ call'[r.from] = "sent"
                            /\ r.online <=> r.from = "new"
        /\ call'["new"] = "sent"
    BY <1>0, <1>5, <2>1, <2>2
  <2>4. QED  BY <2>1, <2>3 DEF WireInv
<1>7. ASSUME NEW s \in Stopper, StopCall(s)
      PROVE  WireInv'
  <2>1. UNCHANGED <<buildVars, lives>> /\ stop[s] = "idle" /\ phase = "ready"
    BY <1>7 DEF StopCall
  <2>2. CASE Managed
    <3>1. SendStatus(s, FALSE)
      BY <1>7, <2>2 DEF StopCall
    <3>2. call[s] = "none"
      BY <1>0, <2>1 DEF CallInv
    <3>3. /\ \A r \in wire' : /\ r.life = lives' /\ call'[r.from] = "sent"
                              /\ r.online <=> r.from = "new"
          /\ UNCHANGED <<status, astray>> /\ call'[s] = "sent"
          /\ \A d \in Caller : d # s => call'[d] = call[d]
      BY <1>0, <1>5, <2>1, <3>1, <3>2
    <3>4. status <=> \A u \in Stopper : call[u] # "answered"
      BY <1>0, <2>1, <2>2, <3>3 DEF WireInv
    <3>5. (\A u \in Stopper : call'[u] # "answered")
              <=> \A u \in Stopper : call[u] # "answered"
      BY <1>0, <3>2, <3>3
    <3>6. QED
      BY <2>1, <2>2, <3>3, <3>4, <3>5, ConfigSame DEF WireInv, buildVars
  <2>3. CASE ~Managed
    BY <1>1, <1>7, <2>3 DEF StopCall, statVars
  <2>4. QED  BY <2>2, <2>3
<1>8. ASSUME NEW r \in wire, Deliver(r)
      PROVE  WireInv'
  <2>1. /\ wire' = wire \ {r} /\ status' = r.online /\ call' = Answered(r)
        /\ UNCHANGED <<buildVars, astray, lives>>
    BY <1>8 DEF Deliver
  <2>2. /\ r.life = lives /\ call[r.from] = "sent"
        /\ r.online <=> r.from = "new"
        /\ r.from \in Caller
    BY <1>0, <1>8, <2>1 DEF WireInv, Request
  <2>3. call' = [call EXCEPT ![r.from] = "answered"]
    BY <2>1, <2>2 DEF Answered
  <2>4. /\ call'[r.from] = "answered"
        /\ \A d \in Caller : d # r.from => call'[d] = call[d]
    BY <1>0, <2>2, <2>3
  <2>5. ASSUME NEW q \in wire'
        PROVE  /\ q.life = lives' /\ call'[q.from] = "sent"
               /\ q.online <=> q.from = "new"
    <3>1. /\ q.life = lives /\ call[q.from] = "sent"
          /\ q.online <=> q.from = "new"
          /\ q \in Request /\ r \in Request /\ q # r
      BY <1>0, <1>8, <2>1, <2>5 DEF WireInv
    <3>2. ASSUME q.from = r.from  PROVE FALSE
      <4>1. q.online \in BOOLEAN /\ r.online \in BOOLEAN
        BY <3>1 DEF Request
      <4>2. q.online = r.online /\ q.life = r.life
        BY <2>2, <3>1, <3>2, <4>1
      <4>3. q = r
        BY <3>1, <3>2, <4>2 DEF Request
      <4>4. QED  BY <3>1, <4>3
    <3>3. q.from \in Caller
      BY <3>1 DEF Request
    <3>4. QED  BY <2>1, <2>4, <3>1, <3>2, <3>3
  <2>6. CASE r.from = "new"
    <3>1. phase = "announcing" /\ phase' = phase /\ r.online
      BY <1>0, <2>1, <2>2, <2>6 DEF CallInv, buildVars
    <3>2. QED  BY <2>1, <2>5, <3>1 DEF WireInv
  <2>7. CASE r.from # "new"
    <3>1. r.from \in Stopper
      BY <2>2, <2>7 DEF Caller
    <3>2. phase = "ready" /\ phase' = phase
      BY <1>0, <2>1, <2>2, <3>1 DEF CallInv, buildVars
    <3>3. ~r.online /\ ~\A s \in Stopper : call'[s] # "answered"
      BY <2>2, <2>4, <2>7, <3>1
    <3>4. QED  BY <2>1, <2>5, <3>2, <3>3 DEF WireInv
  <2>8. QED  BY <2>6, <2>7
<1>9. CASE Restart
  <2>1. wire' = {} /\ phase' = "none"
    BY <1>9 DEF Restart
  <2>2. QED  BY <2>1 DEF WireInv
<1>10. ASSUME \/ \E r \in wire : Drop(r)
              \/ \E c \in Caller : Timeout(c)
       PROVE  WireInv'
  BY <1>10 DEF Drop, Timeout
<1>11. ASSUME \/ \E g \in live : Exit(g)
              \/ \E t \in Tethers : TetherStep(t)
              \/ \E s \in Stopper : StopDone(s) \/ StopWait(s) \/ StopReleased(s)
                                    \/ StopWoken(s) \/ StopClose(s)
              \/ Collect \/ SaveBegins \/ InitializeConfig \/ UNCHANGED vars
       PROVE  WireInv'
  <2>1. UNCHANGED <<buildVars, call, wire, status, astray, lives>>
    BY <1>11 DEF Exit, TetherStep, Tether, TetherExit, StopTether, StopDone,
                 StopWait, StopReleased, StopWoken, StopClose, Collect,
                 SaveBegins, InitializeConfig, vars, statVars
  <2>2. QED  BY <1>1, <2>1
<1>12. QED
  BY <1>2, <1>3, <1>4, <1>6, <1>7, <1>8, <1>9, <1>10, <1>11 DEF Next, StopStep
-----------------------------------------------------------------------------
(***************************************************************************)
(* The panics.                                                             *)
(***************************************************************************)
LEMMA PanicStep ==
    ASSUME LInv, [Next]_vars
    PROVE  PanicExplained'
<1> USE DEF confVars, buildVars, runVars, statVars
<1>0. /\ PanicExplained /\ stop \in [Stopper -> StopState] /\ wg \in Nat
  BY DEF LInv, TypeOK
<1>1. ASSUME UNCHANGED panic, late \subseteq late', stopChan \subseteq stopChan',
             \A s \in Stopper : stop[s] # "idle" => stop'[s] # "idle",
             Alive \/ UNCHANGED <<done, live, stop>>
      PROVE  PanicExplained'
  <2>1. CASE Alive
    BY <1>1, <2>1 DEF PanicExplained, Alive
  <2>2. CASE UNCHANGED <<done, live, stop>>
    BY <1>0, <1>1, <2>2 DEF PanicExplained
  <2>3. QED  BY <1>1, <2>1, <2>2
<1>2. ASSUME NEW s \in Stopper, StopDone(s)
      PROVE  PanicExplained'
  <2>1. CASE ~done
    <3>1. /\ UNCHANGED <<panic, late, stopChan>> /\ Alive
          /\ stop' = [stop EXCEPT ![s] = "wait"]
      BY <1>2, <2>1 DEF StopDone, tethVars
    <3>2. \A u \in Stopper : stop[u] # "idle" => stop'[u] # "idle"
      BY <1>0, <3>1
    <3>3. QED  BY <1>1, <3>1, <3>2
  <2>2. CASE done
    <3>1. /\ panic' = "closed twice" /\ stop[s] = "status"
          /\ UNCHANGED <<stop, late, stopChan>>
      BY <1>2, <2>2 DEF StopDone, tethVars
    <3>2. Managed
      BY <3>1, Running
    <3>3. PICK u \in Stopper : stop[u] \in Past
      BY <2>2, <3>2 DEF LInv, StopInv
    <3>4. u # s /\ stop[u] # "idle"
      BY <3>1, <3>3 DEF Past
    <3>5. QED  BY <3>1, <3>3, <3>4 DEF PanicExplained
  <2>3. QED  BY <2>1, <2>2
<1>3. ASSUME NEW s \in Stopper, StopWoken(s)
      PROVE  PanicExplained'
  <2>1. CASE wg # 0
    <3>1. /\ Alive /\ stop[s] = "released" /\ panic' = "reused"
          /\ UNCHANGED <<stop, late>>
      BY <1>3, <2>1 DEF StopWoken, tethVars
    <3>2. Managed
      BY <3>1, Running
    <3>3. live \subseteq late
      BY <3>1, <3>2 DEF LInv, StopInv, Waited
    <3>4. live # {}
      BY <2>1, <3>1, FS_EmptySet DEF LInv, LiveInv, WaitGroupExact
    <3>5. QED  BY <3>1, <3>3, <3>4 DEF PanicExplained
  <2>2. CASE wg = 0
    <3>1. /\ UNCHANGED <<panic, late, stopChan>> /\ Alive
          /\ stop' = [stop EXCEPT ![s] = "close"]
      BY <1>3, <2>2 DEF StopWoken, tethVars
    <3>2. \A u \in Stopper : stop[u] # "idle" => stop'[u] # "idle"
      BY <1>0, <3>1
    <3>3. QED  BY <1>1, <3>1, <3>2
  <2>3. QED  BY <2>1, <2>2
<1>4. ASSUME NEW s \in Stopper, StopCall(s) \/ StopWait(s) \/ StopReleased(s)
                                \/ StopClose(s)
      PROVE  PanicExplained'
  <2>1. UNCHANGED <<panic, late, stopChan>> /\ Alive
    BY <1>4 DEF StopCall, StopWait, StopReleased, StopClose, tethVars
  <2>2. \E new \in StopState \ {"idle"} : stop' = [stop EXCEPT ![s] = new]
    BY <1>4 DEF StopCall, StopWait, StopReleased, StopClose, StopState
  <2>3. \A u \in Stopper : stop[u] # "idle" => stop'[u] # "idle"
    BY <1>0, <2>2
  <2>4. QED  BY <1>1, <2>1, <2>3
<1>5. ASSUME NEW t \in Tethers, StopTether(t)
      PROVE  PanicExplained'
  <2>1. CASE t \in stopChan
    <3>1. panic' = "closed twice" /\ UNCHANGED stopChan
      BY <1>5, <2>1 DEF StopTether
    <3>2. QED  BY <2>1, <3>1 DEF PanicExplained
  <2>2. CASE t \notin stopChan
    BY <1>1, <1>5, <2>2 DEF StopTether
  <2>3. QED  BY <2>1, <2>2
<1>6. ASSUME NEW t \in Tethers, Tether(t)
      PROVE  PanicExplained'
  <2>1. UNCHANGED <<stopChan, stop, done>> /\ late \subseteq late' /\ Alive
    BY <1>6 DEF Tether
  <2>2. CASE Managed /\ Releasing
    <3>1. panic' = "concurrent Add" /\ UNCHANGED live /\ wg = 0
      BY <1>6, <2>2 DEF Tether, Releasing
    <3>2. PICK s \in Stopper : stop[s] = "blocked"
      BY <2>2 DEF Releasing
    <3>3. live = {}
      BY <2>1, <3>1, FS_EmptySet DEF LInv, LiveInv, WaitGroupExact
    <3>4. done
      BY <2>2, <3>2 DEF LInv, StopInv, Past, StopState
    <3>5. QED  BY <2>1, <3>1, <3>2, <3>3, <3>4 DEF PanicExplained
  <2>3. CASE ~(Managed /\ Releasing)
    <3>1. UNCHANGED panic
      BY <1>6, <2>3 DEF Tether
    <3>2. QED  BY <1>1, <2>1, <3>1
  <2>4. QED  BY <2>2, <2>3
<1>7. ASSUME NEW t \in Tethers, TetherExit(t)
      PROVE  PanicExplained'
  <2>1. Alive /\ t \in live /\ Leave(t) /\ UNCHANGED <<stop, late, stopChan>>
    BY <1>7 DEF TetherExit, LInv, LiveInv
  <2>2. panic' = panic
    BY <1>0, <2>1, Leaves DEF LInv
  <2>3. QED  BY <1>1, <2>1, <2>2
<1>8. ASSUME NEW g \in live, Exit(g)
      PROVE  PanicExplained'
  <2>1. Alive /\ Leave(g) /\ UNCHANGED <<stop, late, stopChan>>
    BY <1>8 DEF Exit, tethVars
  <2>2. panic' = panic
    BY <1>0, <1>8, <2>1, Leaves DEF LInv
  <2>3. QED  BY <1>1, <2>1, <2>2
<1>9. CASE Restart
  BY <1>9 DEF Restart, PanicExplained
<1>10. ASSUME \/ \E m \in {"managed", "headless", "file"} : Load(m)
              \/ SetupKey \/ Validate \/ OpenStore \/ Collect \/ Announced
              \/ \E r \in wire : Deliver(r) \/ Drop(r)
              \/ \E c \in Caller : Timeout(c)
              \/ SaveBegins \/ InitializeConfig \/ UNCHANGED vars
       PROVE  PanicExplained'
  <2>1. UNCHANGED <<panic, late, stopChan, stop, done, live>>
    BY <1>10 DEF Load, SetupKey, Validate, OpenStore, Collect, Announced, Deliver,
                 Drop, Timeout, SaveBegins, InitializeConfig, vars, tethVars
  <2>2. QED  BY <1>1, <2>1
<1>11. CASE Start
  <2>1. UNCHANGED <<panic, late, stopChan, stop>> /\ Alive
    BY <1>11 DEF Start, tethVars, Alive, LInv, PhaseInv, Untouched
  <2>2. QED  BY <1>1, <2>1
<1>12. QED
  BY <1>2, <1>3, <1>4, <1>5, <1>6, <1>7, <1>8, <1>9, <1>10, <1>11
     DEF Next, StopStep, TetherStep
-----------------------------------------------------------------------------
(***************************************************************************)
(* What follows for every set of tethers and stoppers and every file.      *)
(***************************************************************************)
LEMMA LInvariance == Spec => []LInv
<1>1. ASSUME LInv, [Next]_vars  PROVE LInv'
  BY <1>1, TypeStep, PhaseStep, LiveStep, StopStepInv, CallStep, WireStep,
     PanicStep DEF LInv
<1>2. QED  BY <1>1, InitLInv, PTL DEF Spec

\* Every variable keeps its type.
THEOREM TypeCorrect == Spec => []TypeOK
<1>1. LInv => TypeOK
  BY DEF LInv
<1>2. QED  BY <1>1, LInvariance, PTL

\* The counter of the wait group is the number of goroutines that will call
\* Done, whatever the configuration starts and whenever a function is tethered.
THEOREM WaitGroupCorrect == Spec => []WaitGroupExact
<1>1. LInv => WaitGroupExact
  BY DEF LInv, LiveInv
<1>2. QED  BY <1>1, LInvariance, PTL

\* Whatever panics, the caller had it so: Stop or the stop of a tether was called
\* twice, or Tether when Stop had closed `done`: in the moment in which the last
\* goroutine leaves, or after Stop was through its Wait.
THEOREM PanicsCorrect == Spec => []PanicExplained
<1>1. LInv => PanicExplained
  BY DEF LInv
<1>2. QED  BY <1>1, LInvariance, PTL

\* A constructor that fails leaves nothing behind but what NewStorage leaves, and
\* that stands in the way of every client with offline storage.
THEOREM FailureCorrect == Spec => []NothingLeft
<1>1. LInv => NothingLeft
  BY DEF LInv, PhaseInv, Early, NothingLeft, Storing
<1>2. QED  BY <1>1, LInvariance, PTL

\* Stop closes the store after the goroutines it knows of are gone.
THEOREM StoreCorrect == Spec => []StoreClosedLast
<1>1. ASSUME LInv  PROVE StoreClosedLast
  <2>1. SUFFICES ASSUME phase = "ready", config.switch["offline_storage"],
                        store # "open"
                 PROVE  live \subseteq late
    BY DEF StoreClosedLast
  <2>2. CASE ~Managed
    BY <1>1, <2>1, <2>2 DEF LInv, PhaseInv
  <2>3. CASE Managed
    <3>1. PICK s \in Stopper : stop[s] = "returned"
      BY <1>1, <2>1, <2>3 DEF LInv, StopInv, Storing
    <3>2. QED  BY <1>1, <2>3, <3>1 DEF LInv, StopInv, Waited
  <2>4. QED  BY <2>2, <2>3
<1>2. QED  BY <1>1, LInvariance, PTL

\* The mode and the file decide what runs.
THEOREM FeaturesCorrect == Spec => []FeaturesAsAsked
<1>1. ASSUME LInv  PROVE FeaturesAsAsked
  <2>0. SUFFICES ASSUME phase \in {"announcing", "ready"}
                 PROVE  FeaturesAsAsked
    BY DEF FeaturesAsAsked
  <2>1. ConfigRight
    BY <1>1, <2>0 DEF LInv, PhaseInv
  <2>2. /\ {"proc", "met", "poll"} \subseteq Core
        /\ "ret" \in Core <=> config.switch["offline_storage"]
                                /\ config.switch["offline_retry_enabled"]
        /\ "mon" \in Core <=> config.switch["connectivity_check_enabled"]
    BY DEF Core
  <2>3. /\ "offline_storage" \in Feature /\ "offline_retry_enabled" \in Feature
        /\ "connectivity_check_enabled" \in Feature
    BY DEF Feature, Switch, DefaultSwitch
  <2>4. ASSUME ~done
        PROVE  /\ {"proc", "met", "poll"} \subseteq live <=> AskedManaged
               /\ "ret" \in live <=> AskedManaged /\ Wanted("offline_storage")
                                       /\ Wanted("offline_retry_enabled")
               /\ "mon" \in live <=> AskedManaged
                                       /\ Wanted("connectivity_check_enabled")
               /\ store = "open" <=> AskedManaged /\ Wanted("offline_storage")
    <3>1. CASE Managed
      <4>1. /\ \A g \in {"proc", "met", "poll", "ret", "mon"} :
                   g \in live <=> g \in Core
            /\ store = "open" <=> Storing
        <5>1. CASE phase = "announcing"
          BY <1>1, <5>1 DEF LInv, PhaseInv
        <5>2. CASE phase = "ready"
          <6>1. live \ Tethers = Core /\ (store = "open" <=> Storing)
            BY <1>1, <2>4, <3>1, <5>2 DEF LInv, StopInv
          <6>2. QED  BY <6>1, LifecycleAssumption
        <5>3. QED  BY <2>0, <5>1, <5>2
      <4>2. QED  BY <2>1, <2>2, <2>3, <3>1, <4>1 DEF ConfigRight, Storing
    <3>2. CASE ~Managed
      <4>1. live = {} /\ store # "open"
        BY <1>1, <2>0, <3>2 DEF LInv, PhaseInv
      <4>2. QED  BY <2>1, <3>2, <4>1 DEF ConfigRight
    <3>3. QED  BY <3>1, <3>2
  <2>5. QED  BY <2>1, <2>4 DEF FeaturesAsAsked, ConfigRight
<1>2. QED  BY <1>1, LInvariance, PTL

\* The entity's status at the backend follows the client's life.
THEOREM PresenceCorrect == Spec => []Presence
<1>1. ASSUME LInv  PROVE Presence
  <2>1. SUFFICES ASSUME ~astray, phase = "ready", Managed
                 PROVE  /\ (\A s \in Stopper : stop[s] = "idle") => status
                        /\ (\E s \in Stopper : stop[s] \notin {"idle", "status"})
                              => ~status
    BY DEF Presence
  <2>2. status <=> \A s \in Stopper : call[s] # "answered"
    BY <1>1, <2>1 DEF LInv, WireInv
  <2>3. \A s \in Stopper : stop[s] = "idle" => call[s] # "answered"
    BY <1>1 DEF LInv, CallInv
  <2>4. ASSUME NEW s \in Stopper, stop[s] \notin {"idle", "status"}
        PROVE  call[s] = "answered"
    <3>1. call[s] # "none" /\ call[s] # "sent"
      BY <1>1, <2>1, <2>4 DEF LInv, CallInv
    <3>2. call[s] \in {"none", "sent", "answered"}
      BY <1>1 DEF LInv, TypeOK, Caller
    <3>3. QED  BY <3>1, <3>2
  <2>5. QED  BY <2>2, <2>3, <2>4
<1>2. QED  BY <1>1, LInvariance, PTL

\* A Stop in its Wait is released when everyone it waits for has left; whoever
\* has not can, or is the caller himself, or in the Stop of another caller.
THEOREM WaitCorrect == Spec => []WaitExplained
<1>1. ASSUME LInv  PROVE WaitExplained
  <2>1. SUFFICES ASSUME NEW s \in Stopper, Alive, stop[s] = "blocked", wg # 0,
                        s \notin live
                 PROVE  \E g \in live :
                           CanLeave(g) \/ (g \in Stopper /\ stop[g] = "status" /\ done)
    BY DEF WaitExplained
  <2>2. /\ stop \in [Stopper -> StopState]
        /\ LiveInv /\ StopInv /\ WaitGroupExact
    BY <1>1 DEF LInv, LiveInv, TypeOK
  <2>3. Managed /\ done
    BY <2>1, <2>2 DEF StopInv, Past, StopState
  <2>4. live # {}
    <3>1. wg = Cardinality(live)
      BY <2>1, <2>2 DEF WaitGroupExact
    <3> QED  BY <2>1, <3>1, FS_EmptySet
  <2>5. PICK g \in live : TRUE
    BY <2>4
  <2>6. g \in Tethers => tether[g] = "select"
    BY <2>2, <2>5 DEF LiveInv
  <2>7. CASE ~InStop(g)
    BY <2>3, <2>5, <2>6, <2>7 DEF CanLeave
  <2>8. CASE InStop(g)
    <3>1. g \in Stopper /\ g # s /\ stop[g] \notin {"idle", "returned"}
      BY <2>1, <2>5, <2>8 DEF InStop
    <3>2. stop[g] \notin Past
      BY <2>1, <2>2, <2>3, <3>1 DEF StopInv, Past, StopState
    <3>3. stop[g] = "status"
      BY <2>2, <3>1, <3>2 DEF Past
    <3> QED  BY <2>3, <2>5, <3>1, <3>3
  <2> QED  BY <2>7, <2>8
<1>2. QED  BY <1>1, LInvariance, PTL

-----------------------------------------------------------------------------
(***************************************************************************)
(* The example file.                                                       *)
(***************************************************************************)
\* Nothing of the example is lost when it is written, and reading it gives what
\* reading no file gives: the two lists of defaults are the same.
LEMMA ExampleDefaults ==
    toConfig(Saved(GenerateExampleConfig)) = toConfig(EmptyFile)
<1> DEFINE g == GenerateExampleConfig
<1>1. g.switch = DefaultSwitch /\ g.number = DefaultNumber
  BY DEF GenerateExampleConfig, DefaultSwitch, DefaultNumber
<1>2. DOMAIN g = {"switch", "number"}
  BY DEF GenerateExampleConfig
<1> HIDE DEF g
<1>3. {n \in DOMAIN g.number : g.number[n] # 0} = Number
  BY <1>1, Defaults DEF Number
<1>4. Restrict(g.number, Number) = DefaultNumber
  BY <1>1, Defaults DEF Restrict, Number
<1>5. Saved(g).switch = DefaultSwitch /\ Saved(g).number = DefaultNumber
  <2>1. Saved(g) = [g EXCEPT !.number = Restrict(g.number, Number)]
    BY <1>3 DEF Saved
  <2> QED  BY <1>1, <1>2, <1>4, <2>1
<1>6. ASSUME NEW f, f.switch = DefaultSwitch, f.number = DefaultNumber
      PROVE  toConfig(f) = [switch |-> [s \in Switch |-> DefaultSwitch[s]],
                            number |-> [n \in Number |-> DefaultNumber[n]]]
  BY <1>6 DEF toConfig, Switch, Number
<1>7. toConfig(EmptyFile) = [switch |-> [s \in Switch |-> DefaultSwitch[s]],
                             number |-> [n \in Number |-> DefaultNumber[n]]]
  BY DEF toConfig, EmptyFile, Nothing
<1> QED  BY <1>5, <1>6, <1>7 DEF g

\* InitializeConfig does not change what a host without another file gives its
\* clients, whether it ends or not, and whatever Unreadable stands for.
THEOREM InitializeCorrect == Spec => InitializeNeutral
<1>1. ASSUME TypeOK, [Next]_vars, disk["etc"] = Unreadable, Defaulted(disk)
      PROVE  Defaulted(disk')
  <2>1. DOMAIN disk = {"home", "etc"}
    BY <1>1 DEF TypeOK, IsDisk
  <2>2. CASE disk' = disk
    BY <1>1, <2>2
  <2>3. CASE SaveBegins
    <3>1. disk'["home"] = Unreadable /\ disk'["etc"] = Unreadable
      BY <1>1, <2>1, <2>3 DEF SaveBegins
    <3> QED  BY <3>1 DEF Defaulted, LoadConfigFile
  <2>4. CASE InitializeConfig
    <3>1. /\ disk'["home"] = Saved(GenerateExampleConfig)
          /\ disk'["etc"] = Unreadable
      BY <1>1, <2>1, <2>4 DEF InitializeConfig
    <3>2. LoadConfigFile(disk') \in {Saved(GenerateExampleConfig), EmptyFile}
      BY <3>1 DEF LoadConfigFile
    <3> QED  BY <3>2, ExampleDefaults DEF Defaulted
  <2>5. QED
    BY <1>1, <2>2, <2>3, <2>4
       DEF Next, Load, SetupKey, Validate, OpenStore, Collect, Start, Announced, Deliver,
           Drop, Timeout, Exit, TetherStep, Tether, TetherExit, StopTether,
           StopStep, StopCall, StopDone, StopWait, StopReleased, StopWoken,
           StopClose, Restart, vars, confVars
<1>2. TypeOK /\ [Next]_vars =>
          [disk["etc"] = Unreadable /\ Defaulted(disk) => Defaulted(disk')]_vars
  BY <1>1
<1>3. QED  BY <1>2, TypeCorrect, PTL DEF Spec, InitializeNeutral
=============================================================================
