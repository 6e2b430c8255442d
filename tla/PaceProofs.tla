----------------------------- MODULE PaceProofs -----------------------------
(***************************************************************************)
(* Proofs about Pace, for every value of its constants: how large the      *)
(* batch grows and how long a message waits in it, how long the processor  *)
(* is away from its select, and how regular the heartbeats are.            *)
(***************************************************************************)
EXTENDS Pace, TLAPS

\* What the proofs need of the types.
BatchType ==
    /\ queue \in Int
    /\ batch \in Nat
    /\ metrics.cpu \in Int /\ metrics.mem \in Int /\ metrics.load \in Int
    /\ tick \in [next : 1..Tick, ready : BOOLEAN]
    /\ proc \in {"select", "flight", "sleep", "swept"}
    /\ DOMAIN age = DOMAIN EventAge
    /\ age.batch \in Nat

\* The batch is empty when the processor is through with a tick, and so is
\* what a heartbeat finds; a batch being sent may be full.
BatchPlace ==
    /\ proc = "swept" => batch = 0
    /\ proc \in {"flight", "sleep"} /\ job = "beat" => batch = 0
    /\ proc = "select" => batch < LargestBatch

\* A message that waits was read after the last tick, and time passes in the
\* select only until the next one is there.
BatchWait ==
    proc = "select" /\ batch > 0 =>
        age.batch <= IF tick.ready THEN Tick ELSE Tick - tick.next

BInv == BatchType /\ BatchPlace /\ BatchWait

-----------------------------------------------------------------------------
LEMMA Numbers ==
    /\ Tick \in Nat \ {0}
    /\ TargetCPUPercent \in Nat \ {0} /\ TargetMemPercent \in Nat \ {0}
    /\ MaxQueueSize \in Nat \ {0} /\ MinBatchSize \in Nat \ {0}
    /\ MaxBatchSize \in Nat \ {0} /\ LargestBatch \in Nat \ {0}
    /\ Percents \subseteq Int
BY PaceAssumption DEF LargestBatch, AtLeast

LEMMA Events == {"last", "current", "trouble", "batch", "away"} = DOMAIN EventAge
BY DEF EventAge

\* Whatever the metrics are, the clamps keep the computed size in the limits.
LEMMA SizeBounded ==
    ASSUME BatchType
    PROVE  calculateDynamicBatchSize \in 1..LargestBatch
<1>1. \A a, b \in Int : AtLeast(a, b) \in Int /\ AtMost(a, b) \in Int
  BY DEF AtLeast, AtMost
<1>2. ASSUME NEW p \in Int, NEW t \in Nat \ {0} PROVE Factor(p, t) \in Int
  <2>1. 100 * p \in Int /\ (100 * p) \div t \in Int
    OBVIOUS
  <2>2. 100 - (100 * p) \div t \in Int
    BY <2>1
  <2> QED  BY <1>1, <2>2 DEF Factor
<1> DEFINE r == 4 * Factor(metrics.cpu, TargetCPUPercent)
                   + 4 * Factor(metrics.mem, TargetMemPercent)
                   + 2 * AtMost(100, 2 * metrics.load)
           n == (MaxBatchSize * r) \div 1000
<1>3. /\ Factor(metrics.cpu, TargetCPUPercent) \in Int
      /\ Factor(metrics.mem, TargetMemPercent) \in Int
      /\ 2 * metrics.load \in Int
  <2>1. metrics.cpu \in Int /\ metrics.mem \in Int /\ metrics.load \in Int
    BY DEF BatchType
  <2>2. 2 * metrics.load \in Int
    BY <2>1
  <2>3. TargetCPUPercent \in Nat \ {0} /\ TargetMemPercent \in Nat \ {0}
    BY Numbers
  <2> QED  BY <1>2, <2>1, <2>2, <2>3, Zenon
<1>4. AtMost(100, 2 * metrics.load) \in Int
  <2>1. 100 \in Int
    OBVIOUS
  <2> QED  BY <1>1, <1>3, <2>1, Zenon
<1>5. r \in Int
  BY <1>3, <1>4
<1> HIDE DEF r
<1>6. MaxBatchSize * r \in Int
  BY <1>5, Numbers
<1>7. n \in Int
  BY <1>6
<1> HIDE DEF n
<1>8. AtLeast(MinBatchSize, AtMost(n, MaxBatchSize)) \in 1..LargestBatch
  BY <1>7, Numbers DEF LargestBatch, AtLeast, AtMost
<1> QED  BY <1>8 DEF calculateDynamicBatchSize, n, r

LEMMA InitBatch == Init => BInv
<1> SUFFICES ASSUME Init PROVE BInv
  OBVIOUS
<1>1. DOMAIN age = DOMAIN EventAge /\ age.batch = 0
  BY Events DEF Init
<1>2. BatchType
  BY <1>1, Numbers DEF Init, BatchType
<1>3. BatchPlace /\ BatchWait
  BY <1>1, Numbers DEF Init, BatchPlace, BatchWait
<1> QED  BY <1>2, <1>3 DEF BInv

-----------------------------------------------------------------------------
\* Where a call that ends, or goes on, leaves the batch.
LEMMA ReturnBatch ==
    ASSUME BInv, Return, proc \in {"flight", "sleep"}
    PROVE  /\ batch' \in Nat
           /\ proc' \in {"select", "swept"}
           /\ batch' = 0
BY DEF BInv, BatchType, BatchPlace, Return

LEMMA NextBatch == BInv /\ [Next]_vars => BInv'
<1> SUFFICES ASSUME BInv, [Next]_vars PROVE BInv'
  OBVIOUS
<1>1. /\ BatchType /\ BatchPlace /\ BatchWait /\ batch \in Nat
      /\ DOMAIN age = DOMAIN EventAge /\ age.batch \in Nat
      /\ tick \in [next : 1..Tick, ready : BOOLEAN]
  BY DEF BInv, BatchType
\* Steps that leave the batch, its age and the ticker as they are.
<1>2. ASSUME UNCHANGED <<batch, tick, proc, job>>, queue' \in Int,
             DOMAIN age' = DOMAIN age, age'.batch = age.batch,
             metrics'.cpu \in Int, metrics'.mem \in Int, metrics'.load \in Int
      PROVE  BInv'
  BY <1>1, <1>2 DEF BInv, BatchType, BatchPlace, BatchWait
\* Steps of a call: it goes on, or it leaves an empty batch.
<1>3. ASSUME UNCHANGED <<queue, metrics, tick, job>>, proc \in {"flight", "sleep"},
             DOMAIN age' = DOMAIN age, age'.batch = age.batch,
             \/ batch' = batch /\ proc' \in {"flight", "sleep"}
             \/ batch' = 0 /\ proc' \in {"select", "swept"}
      PROVE  BInv'
  BY <1>1, <1>3, Numbers DEF BInv, BatchType, BatchPlace, BatchWait
<1>4. \A e, v : /\ DOMAIN [age EXCEPT ![e] = v] = DOMAIN age
                /\ e # "batch" => [age EXCEPT ![e] = v].batch = age.batch
  BY <1>1, Events
<1>5. CASE updateMetrics
  <2>1. PICK c, m \in Percents :
           metrics' = [cpu |-> c, mem |-> m, load |-> (100 * queue) \div MaxQueueSize]
    BY <1>5 DEF updateMetrics
  <2>2. (100 * queue) \div MaxQueueSize \in Int
    BY <1>1, Numbers DEF BatchType
  <2>3. metrics'.cpu \in Int /\ metrics'.mem \in Int /\ metrics'.load \in Int
    BY <2>1, <2>2, Numbers
  <2> QED  BY <1>1, <1>2, <1>5, <2>3 DEF updateMetrics, BatchType
<1>6. CASE Publish
  BY <1>1, <1>2, <1>6 DEF Publish, BatchType
<1>7. CASE Connectivity
  BY <1>1, <1>2, <1>4, <1>7 DEF Connectivity, BatchType
<1>8. CASE Succeed
  <2>1. /\ UNCHANGED <<queue, metrics, tick, job>> /\ proc = "flight"
        /\ batch' = 0 /\ proc' \in {"select", "swept"}
    BY <1>8, ReturnBatch DEF Succeed
  <2>2. DOMAIN age' = DOMAIN age /\ age'.batch = age.batch
    BY <1>4, <1>8 DEF Succeed
  <2> QED  BY <1>3, <2>1, <2>2
<1>9. CASE Fail
  <2>1. UNCHANGED <<queue, metrics, tick, job>> /\ proc = "flight"
    BY <1>9 DEF Fail
  <2>2. \/ batch' = batch /\ proc' \in {"flight", "sleep"}
        \/ batch' = 0 /\ proc' \in {"select", "swept"}
    BY <1>9, <2>1, ReturnBatch DEF Fail, Again
  <2>3. DOMAIN age' = DOMAIN age /\ age'.batch = age.batch
    BY <1>4, <1>9 DEF Fail
  <2> QED  BY <1>3, <2>1, <2>2, <2>3
<1>10. CASE Wake
  <2>1. UNCHANGED <<queue, metrics, tick, job, age>> /\ proc = "sleep"
    BY <1>10 DEF Wake
  <2>2. \/ batch' = batch /\ proc' \in {"flight", "sleep"}
        \/ batch' = 0 /\ proc' \in {"select", "swept"}
    BY <1>10, <2>1, ReturnBatch DEF Wake, Do
  <2> QED  BY <1>3, <2>1, <2>2
<1>11. CASE Receive
  <2>1. /\ proc = "select" /\ batch < LargestBatch
        /\ UNCHANGED <<metrics, tick>> /\ queue' = queue - 1 /\ batch' = batch + 1
    BY <1>1, <1>11 DEF Receive, BatchPlace
  <2>2. /\ DOMAIN age' = DOMAIN age
        /\ age'.batch = IF batch = 0 THEN 0 ELSE age.batch
    BY <1>1, <1>11, Events DEF Receive
  <2>3. \/ proc' = "flight" /\ job' = "full"
        \/ proc' = "select" /\ batch + 1 < LargestBatch
    <3>1. \/ proc' = "flight" /\ job' = "full"
          \/ proc' = proc /\ ~(batch + 1 >= calculateDynamicBatchSize)
      BY <1>11 DEF Receive, Send, Do
    <3> QED  BY <1>1, <2>1, <3>1, SizeBounded, Numbers
  <2>4. BatchType'
    BY <1>1, <2>1, <2>2, <2>3 DEF BatchType
  <2>5. BatchPlace'
    BY <1>1, <2>1, <2>3 DEF BatchPlace
  <2>6. BatchWait'
    BY <1>1, <2>1, <2>2, Numbers DEF BatchWait
  <2> QED  BY <2>4, <2>5, <2>6 DEF BInv
<1>12. CASE Ticked
  <2>1. /\ UNCHANGED <<queue, batch, metrics>>
        /\ tick' = [tick EXCEPT !.ready = FALSE]
        /\ \/ proc' = "flight" /\ job' = "tick"
           \/ proc' = "swept" /\ batch = 0
    BY <1>1, <1>12 DEF Ticked, Send, Do
  <2>2. DOMAIN age' = DOMAIN age /\ age'.batch = age.batch
    BY <1>4, <1>12 DEF Ticked
  <2>3. BatchType'
    BY <1>1, <2>1, <2>2 DEF BatchType
  <2> QED  BY <2>1, <2>3 DEF BInv, BatchPlace, BatchWait
<1>13. CASE Heartbeat
  <2>1. /\ UNCHANGED <<queue, batch, metrics, tick>> /\ batch = 0
        /\ proc' \in {"flight", "select"}
    BY <1>1, <1>13 DEF Heartbeat, Send, Do, BatchPlace
  <2>2. DOMAIN age' = DOMAIN age /\ age'.batch = age.batch
    <3>1. age' = [age EXCEPT !.current = 0] \/ age' = age
      BY <1>13 DEF Heartbeat
    <3>2. [age EXCEPT !.current = 0].batch = age.batch
      BY <1>1, Events
    <3> QED  BY <3>1, <3>2
  <2>3. BatchType'
    BY <1>1, <2>1, <2>2 DEF BatchType
  <2> QED  BY <2>1, <2>3, Numbers DEF BInv, BatchPlace, BatchWait
<1>14. CASE Pass
  <2>1. /\ UNCHANGED <<queue, batch, metrics, proc, job>>
        /\ proc = "select" => ~tick.ready
    BY <1>14 DEF Pass, Waiting
  <2>2. \/ tick.next > 1 /\ tick' = [tick EXCEPT !.next = @ - 1]
        \/ tick.next = 1 /\ tick' = [next |-> Tick, ready |-> TRUE]
    BY <1>1, <1>14 DEF Pass
  <2>3. tick' \in [next : 1..Tick, ready : BOOLEAN]
    <3>1. CASE tick.next > 1 /\ tick' = [tick EXCEPT !.next = @ - 1]
      <4>1. tick.next - 1 \in 1..Tick
        BY <1>1, <3>1, Numbers
      <4> QED  BY <1>1, <3>1, <4>1
    <3>2. CASE tick' = [next |-> Tick, ready |-> TRUE]
      BY <3>2, Numbers
    <3> QED  BY <2>2, <3>1, <3>2
  <2>4. /\ DOMAIN age' = DOMAIN age
        /\ age'.batch \in Nat
        /\ age'.batch <= age.batch + 1
    <3>1. /\ DOMAIN age' = DOMAIN age
          /\ \/ age'.batch = 0
             \/ age'.batch = AtMost(age.batch + 1, EventAge.batch)
      BY <1>1, <1>14, Events DEF Pass
    <3>2. EventAge.batch = Tick + 1
      BY DEF EventAge
    <3> QED  BY <1>1, <3>1, <3>2, Numbers DEF AtMost
  <2>5. BatchType'
    BY <1>1, <2>1, <2>3, <2>4 DEF BatchType
  <2>6. BatchPlace'
    BY <1>1, <2>1 DEF BatchPlace
  <2>7. BatchWait'
    <3> SUFFICES ASSUME proc = "select", batch > 0
                 PROVE  age'.batch <= IF tick'.ready THEN Tick ELSE Tick - tick'.next
      BY <2>1 DEF BatchWait
    <3>1. ~tick.ready /\ age.batch <= Tick - tick.next
      BY <1>1, <2>1 DEF BatchWait
    <3>2. CASE tick.next > 1 /\ tick' = [tick EXCEPT !.next = @ - 1]
      <4>1. ~tick'.ready /\ tick'.next = tick.next - 1
        BY <1>1, <3>1, <3>2
      <4> QED  BY <1>1, <2>4, <3>1, <4>1, Numbers
    <3>3. CASE tick.next = 1 /\ tick' = [next |-> Tick, ready |-> TRUE]
      BY <1>1, <2>4, <3>1, <3>3, Numbers
    <3> QED  BY <2>2, <3>2, <3>3
  <2> QED  BY <2>5, <2>6, <2>7 DEF BInv
<1>15. CASE sendOfflineBatch
  BY <1>1, <1>2, <1>15 DEF sendOfflineBatch, BatchType
<1>16. CASE UNCHANGED vars
  BY <1>1, <1>2, <1>16 DEF vars, BatchType
<1> QED
  BY <1>5, <1>6, <1>7, <1>8, <1>9, <1>10, <1>11, <1>12, <1>13, <1>14, <1>15,
     <1>16 DEF Next

LEMMA BInvariance == Spec => []BInv
BY InitBatch, NextBatch, PTL DEF Spec

\* processQueue hands a batch over before it outgrows its limits, whatever
\* the metrics were when it was begun, and for every clamp and target.
THEOREM BatchAlwaysFits == Spec => []BatchFits
<1>1. BInv => BatchFits
  BY Numbers DEF BInv, BatchType, BatchPlace, BatchFits
<1> QED  BY <1>1, BInvariance, PTL

\* A message that processQueue read leaves the batch with the next tick at the
\* latest, whatever the sends before it took.
THEOREM BatchAgeBounded == Spec => []BatchAge
<1>1. BInv => BatchAge
  BY Numbers DEF BInv, BatchType, BatchWait, BatchAge
<1> QED  BY <1>1, BInvariance, PTL

-----------------------------------------------------------------------------
(***************************************************************************)
(* The types, and the time away from the select.                           *)
(***************************************************************************)
\* What n attempts that fail, and the sleeps after them, take at the most.
Spent(n) == n * Longest + Second * ((n * (n + 1)) \div 2)

LEMMA Amounts ==
    /\ Second \in Nat \ {0} /\ Interval \in Nat \ {0}
    /\ Slow \in Nat /\ Unlucky \in Nat
    /\ Percents \subseteq 0..100
    /\ Longest \in Nat \ {0} /\ MostRetries \in Nat
    /\ CurrentTimeout \in 1..Longest /\ CurrentTimeout \in {Timeout, ReplayTimeout}
    /\ CurrentRetries <= MostRetries /\ CurrentRetries \in Nat
<1>1. /\ Second \in Nat \ {0} /\ Timeout \in Nat \ {0} /\ Interval \in Nat \ {0}
      /\ MaxRetries \in Nat /\ Slow \in Nat /\ Unlucky \in Nat
      /\ Percents \subseteq 0..100
  BY PaceAssumption
<1>2. /\ ReplayTimeout \in Nat \ {0} /\ Longest \in Nat \ {0}
      /\ Timeout <= Longest /\ ReplayTimeout <= Longest
  BY <1>1 DEF ReplayTimeout, Longest, AtLeast
<1>3. /\ MostRetries \in Nat /\ MaxRetries <= MostRetries
      /\ ReplayRetries \in Nat /\ ReplayRetries <= MostRetries
  BY <1>1 DEF ReplayRetries, MostRetries, AtLeast
<1>4. CurrentTimeout \in 1..Longest /\ CurrentTimeout \in {Timeout, ReplayTimeout}
  BY <1>1, <1>2 DEF CurrentTimeout
<1>5. CurrentRetries <= MostRetries /\ CurrentRetries \in Nat
  BY <1>1, <1>3 DEF CurrentRetries
<1> QED  BY <1>1, <1>2, <1>3, <1>4, <1>5

\* One attempt more costs a request and the sleep after it.
LEMMA SpentNext ==
    ASSUME NEW n \in Nat
    PROVE  /\ Spent(n) \in Nat
           /\ Spent(n + 1) = Spent(n) + Longest + (n + 1) * Second
<1> DEFINE triangle(k) == (k * (k + 1)) \div 2
<1>1. n * (n + 1) \in Nat /\ (n + 1) * (n + 2) = n * (n + 1) + 2 * (n + 1)
  OBVIOUS
<1>2. triangle(n) \in Nat /\ triangle(n + 1) = triangle(n) + (n + 1)
  <2>1. (n + 1) + 1 = n + 2
    OBVIOUS
  <2>2. \A x, k \in Nat : x \div 2 \in Nat /\ (x + 2 * k) \div 2 = x \div 2 + k
    OBVIOUS
  <2> QED  BY <1>1, <2>1, <2>2
<1> HIDE DEF triangle
<1>3. /\ Second * (triangle(n) + (n + 1)) = Second * triangle(n) + (n + 1) * Second
      /\ (n + 1) * Longest = n * Longest + Longest
      /\ n * Longest \in Nat /\ Second * triangle(n) \in Nat
      /\ (n + 1) * Second \in Nat
  BY <1>2, Amounts
<1>4. /\ Spent(n) = n * Longest + Second * triangle(n)
      /\ Spent(n + 1) = (n + 1) * Longest + Second * triangle(n + 1)
  BY DEF Spent, triangle
<1> QED  BY <1>2, <1>3, <1>4, Amounts

LEMMA Ordered ==
    ASSUME NEW a \in Nat, NEW b \in Nat, NEW c \in Nat, a <= b
    PROVE  a * c \in Nat /\ a * c <= b * c /\ c * a <= c * b
OBVIOUS

LEMMA SpentAtMost ==
    ASSUME NEW n \in 0..MostRetries
    PROVE  Spent(n) + Longest <= Effort /\ Effort \in Nat
<1> DEFINE triangle(k) == (k * (k + 1)) \div 2
<1>1. n \in Nat /\ n <= MostRetries /\ MostRetries \in Nat
  BY Amounts
<1>2. n * (n + 1) \in Nat /\ MostRetries * (MostRetries + 1) \in Nat
      /\ n * (n + 1) <= MostRetries * (MostRetries + 1)
  BY <1>1
<1>3. triangle(n) \in Nat /\ triangle(MostRetries) \in Nat
      /\ triangle(n) <= triangle(MostRetries)
  BY <1>2
<1> HIDE DEF triangle
<1>4. Second * triangle(n) <= Second * triangle(MostRetries)
  BY <1>3, Ordered, Amounts
<1>5. n * Longest <= MostRetries * Longest
  BY <1>1, Ordered, Amounts
<1>6. /\ (MostRetries + 1) * Longest = MostRetries * Longest + Longest
      /\ n * Longest \in Nat /\ MostRetries * Longest \in Nat
      /\ Second * triangle(n) \in Nat /\ Second * triangle(MostRetries) \in Nat
  BY <1>1, <1>3, Amounts
<1>7. /\ Spent(n) = n * Longest + Second * triangle(n)
      /\ Effort = (MostRetries + 1) * Longest + Second * triangle(MostRetries)
  BY DEF Spent, Effort, triangle
<1> QED  BY <1>4, <1>5, <1>6, <1>7, Amounts

\* What the processor may have spent on the batch before it began the call.
Base == IF job = "beat" THEN Effort ELSE 0

\* The time away from the select is that of the attempts behind it and of the
\* request or the sleep it is in.
AwayInv ==
    /\ proc = "flight" =>
          /\ limit \in 1..Longest /\ left \in 0..limit
          /\ age.away <= Base + Spent(attempt) + limit - left
    /\ proc = "sleep" =>
          /\ attempt < MostRetries
          /\ left \in 0..((attempt + 1) * Second)
          /\ age.away <= Base + Spent(attempt + 1) - left
    /\ proc = "swept" => age.away <= Effort

\* What the ages are counted up to.
LEMMA Limits ==
    /\ EventAge.last = Interval /\ EventAge.current = Gap
    /\ EventAge.trouble = Gap /\ EventAge.batch = Tick + 1
    /\ EventAge.away = 2 * Effort + 1
    /\ Gap = Interval + Tick + Slow * Unlucky + Slow
    /\ Slow * Unlucky \in Nat
    /\ Effort \in Nat
    /\ \A e \in DOMAIN EventAge : EventAge[e] \in Nat
<1>1. Slow * Unlucky \in Nat /\ (Unlucky + 1) * Slow = Slow * Unlucky + Slow
  BY Amounts
<1>2. Gap = Interval + Tick + Slow * Unlucky + Slow
  BY <1>1, Amounts, Numbers DEF Gap
<1>3. Effort \in Nat
  <2>1. 0 \in 0..MostRetries
    BY Amounts
  <2> QED  BY <2>1, SpentAtMost
<1>4. /\ EventAge.last = Interval /\ EventAge.current = Gap
      /\ EventAge.trouble = Gap /\ EventAge.batch = Tick + 1
      /\ EventAge.away = 2 * Effort + 1
  BY DEF EventAge
<1>5. Gap \in Nat
  BY <1>1, <1>2, Amounts, Numbers
<1> QED  BY <1>1, <1>2, <1>3, <1>4, <1>5, Amounts, Numbers, Events

\* What the passing of time does to the ages.
LEMMA Ageing ==
    ASSUME TypeOK, Pass
    PROVE  /\ DOMAIN age' = DOMAIN EventAge
           /\ \A e \in DOMAIN EventAge :
                 age'[e] \in 0..EventAge[e] /\ age'[e] <= age[e] + 1
           /\ age'.last = AtMost(age.last + 1, Interval)
           /\ ~Healthy => age'.trouble = 0
<1>1. /\ DOMAIN age = DOMAIN EventAge
      /\ \A e \in DOMAIN EventAge : age[e] \in 0..EventAge[e]
  BY DEF TypeOK
<1>2. age' = [e \in DOMAIN age |->
                 IF \/ e = "trouble" /\ ~Healthy
                    \/ e = "batch" /\ batch = 0
                    \/ e = "away" /\ proc = "select" THEN 0
                 ELSE AtMost(age[e] + 1, EventAge[e])]
  BY DEF Pass
<1>3. ASSUME NEW e \in DOMAIN EventAge
      PROVE  age'[e] \in 0..EventAge[e] /\ age'[e] <= age[e] + 1
  <2>1. age[e] \in 0..EventAge[e] /\ EventAge[e] \in Nat
    BY <1>1, Limits
  <2>2. age'[e] = 0 \/ age'[e] = AtMost(age[e] + 1, EventAge[e])
    BY <1>1, <1>2
  <2> QED  BY <2>1, <2>2 DEF AtMost
<1>4. age'.last = AtMost(age.last + 1, Interval)
  BY <1>1, <1>2, Limits, Events
<1>5. ~Healthy => age'.trouble = 0
  BY <1>1, <1>2, Events
<1> QED  BY <1>1, <1>2, <1>3, <1>4, <1>5

\* What an assignment to one age does.
LEMMA AgeSet ==
    ASSUME TypeOK, NEW d \in DOMAIN EventAge, NEW v \in 0..EventAge[d]
    PROVE  LET new == [age EXCEPT ![d] = v] IN
           /\ DOMAIN new = DOMAIN EventAge
           /\ new[d] = v
           /\ \A e \in DOMAIN EventAge : new[e] \in 0..EventAge[e]
           /\ \A e \in DOMAIN EventAge \ {d} : new[e] = age[e]
BY DEF TypeOK

LEMMA InitAway == Init => TypeOK /\ AwayInv
<1> SUFFICES ASSUME Init PROVE TypeOK /\ AwayInv
  OBVIOUS
<1>1. DOMAIN age = DOMAIN EventAge
  BY DEF Init
<1>2. \A e \in DOMAIN age : age[e] \in 0..EventAge[e]
  BY Limits DEF Init
<1>3. 0 \in 0..(Longest + MostRetries * Second)
  <2>1. MostRetries * Second \in Nat
    BY Amounts
  <2> QED  BY <2>1, Amounts
<1>4. TypeOK
  BY <1>1, <1>2, <1>3, Numbers, Amounts DEF Init, TypeOK, ReplayState
<1> QED  BY <1>4 DEF Init, AwayInv

\* The percentage of the queue in use.
LEMMA LoadRange ==
    ASSUME NEW q \in 0..MaxQueueSize
    PROVE  (100 * q) \div MaxQueueSize \in 0..100
<1>1. 100 * q \in Nat /\ 100 * q <= 100 * MaxQueueSize
  BY Numbers
<1>2. \A x, y \in Nat : y > 0 /\ x <= 100 * y => x \div y \in 0..100
  OBVIOUS
<1> QED  BY <1>1, <1>2, Numbers

\* A request and the longest sleep fit what TypeOK allows of `left`.
LEMMA LeftRange ==
    ASSUME NEW n \in 0..MostRetries
    PROVE  /\ n * Second \in Nat /\ n * Second <= MostRetries * Second
           /\ MostRetries * Second \in Nat
BY Amounts, Ordered

LEMMA TypeStep == TypeOK /\ BInv /\ AwayInv /\ [Next]_vars => TypeOK'
<1> SUFFICES ASSUME TypeOK, BInv, AwayInv, [Next]_vars PROVE TypeOK'
  OBVIOUS
<1> USE Amounts, Numbers
<1>1. /\ queue \in 0..MaxQueueSize /\ batch \in 0..LargestBatch
      /\ tick \in [next : 1..Tick, ready : BOOLEAN]
      /\ passed \in 0..Unlucky /\ attempt \in 0..MostRetries
      /\ left \in 0..(Longest + MostRetries * Second)
      /\ limit \in {0, Timeout, ReplayTimeout}
      /\ DOMAIN age = DOMAIN EventAge
      /\ \A e \in DOMAIN EventAge : age[e] \in 0..EventAge[e]
  BY DEF TypeOK
<1>2. \A n \in 0..MostRetries : /\ n * Second \in Nat /\ MostRetries * Second \in Nat
                               /\ n * Second <= MostRetries * Second
  BY LeftRange
<1>3. /\ 0 \in 0..(Longest + MostRetries * Second)
      /\ CurrentTimeout \in 0..(Longest + MostRetries * Second)
  <2>1. 0 \in 0..MostRetries
    OBVIOUS
  <2> QED  BY <1>2, <2>1
\* The ages, in the steps that do not take time.
<1>4. ASSUME \/ age' = age
             \/ \E d \in DOMAIN EventAge : \E v \in 0..EventAge[d] :
                    age' = [age EXCEPT ![d] = v]
             \/ \E v \in 0..EventAge.batch : age' = [age EXCEPT !.away = 0, !.batch = v]
      PROVE  DOMAIN age' = DOMAIN EventAge /\ \A e \in DOMAIN age' : age'[e] \in 0..EventAge[e]
  <2>1. CASE \E d \in DOMAIN EventAge : \E v \in 0..EventAge[d] :
                    age' = [age EXCEPT ![d] = v]
    BY <1>1, <2>1
  <2>2. CASE \E v \in 0..EventAge.batch : age' = [age EXCEPT !.away = 0, !.batch = v]
    <3>1. PICK v \in 0..EventAge.batch : age' = [age EXCEPT !.away = 0, !.batch = v]
      BY <2>2
    <3>2. /\ DOMAIN age' = DOMAIN age
          /\ \A e \in DOMAIN age :
                age'[e] = IF e = "batch" THEN v ELSE IF e = "away" THEN 0 ELSE age[e]
      BY <1>1, <3>1, Events, Zenon
    <3> QED  BY <1>1, <3>2, Limits
  <2> QED  BY <1>1, <1>4, <2>1, <2>2
<1>5. \A e \in DOMAIN EventAge : 0 \in 0..EventAge[e]
  BY Limits
\* The end of a call, or its next sleep or attempt.
<1>6. ASSUME Return
      PROVE  /\ batch' \in 0..LargestBatch /\ attempt' \in 0..MostRetries
             /\ left' \in 0..(Longest + MostRetries * Second)
             /\ limit' \in {0, Timeout, ReplayTimeout}
             /\ proc' \in {"select", "swept"}
  BY <1>1, <1>3, <1>6 DEF Return
<1>7. ASSUME Again, proc = "flight"
      PROVE  /\ batch' \in 0..LargestBatch /\ attempt' \in 0..MostRetries
             /\ left' \in 0..(Longest + MostRetries * Second)
             /\ limit' \in {0, Timeout, ReplayTimeout}
             /\ proc' \in {"select", "swept", "sleep"}
  <2>1. CASE attempt < CurrentRetries
    <3>1. attempt + 1 \in 0..MostRetries
      BY <1>1, <2>1
    <3>2. (attempt + 1) * Second \in 0..(Longest + MostRetries * Second)
      BY <1>2, <3>1
    <3> QED  BY <1>1, <1>7, <2>1, <3>2 DEF Again
  <2>2. CASE ~(attempt < CurrentRetries)
    BY <1>6, <1>7, <2>2 DEF Again
  <2> QED  BY <2>1, <2>2
<1>8. CASE updateMetrics
  <2>1. PICK c, m \in Percents :
           metrics' = [cpu |-> c, mem |-> m, load |-> (100 * queue) \div MaxQueueSize]
    BY <1>8 DEF updateMetrics
  <2>2. (100 * queue) \div MaxQueueSize \in 0..100
    BY <1>1, LoadRange
  <2>3. metrics' \in [cpu : 0..100, mem : 0..100, load : 0..100]
    BY <2>1, <2>2
  <2> QED  BY <1>8, <2>3 DEF updateMetrics, TypeOK
<1>9. CASE Publish
  BY <1>9 DEF Publish, TypeOK
<1>10. CASE Connectivity
  <2>1. DOMAIN age' = DOMAIN EventAge /\ \A e \in DOMAIN age' : age'[e] \in 0..EventAge[e]
    BY <1>4, <1>5, <1>10, Events DEF Connectivity
  <2> QED  BY <1>10, <2>1 DEF Connectivity, TypeOK
<1>11. CASE Succeed
  <2>1. AtMost(age.current, Interval) \in 0..EventAge.last
    BY <1>1, Limits, Events DEF AtMost
  <2>2. DOMAIN age' = DOMAIN EventAge /\ \A e \in DOMAIN age' : age'[e] \in 0..EventAge[e]
    BY <1>4, <1>11, <2>1, Events DEF Succeed
  <2> QED  BY <1>6, <1>11, <2>2 DEF Succeed, TypeOK
<1>12. CASE Fail
  <2>1. DOMAIN age' = DOMAIN EventAge /\ \A e \in DOMAIN age' : age'[e] \in 0..EventAge[e]
    BY <1>4, <1>5, <1>12, Events DEF Fail
  <2>2. Again \/ Return
    BY <1>12 DEF Fail
  <2> QED  BY <1>6, <1>7, <1>12, <2>1, <2>2 DEF Fail, TypeOK
<1>13. CASE Wake
  <2>1. /\ batch' \in 0..LargestBatch /\ attempt' \in 0..MostRetries
        /\ left' \in 0..(Longest + MostRetries * Second)
        /\ limit' \in {0, Timeout, ReplayTimeout}
        /\ proc' \in {"select", "swept", "flight"}
    BY <1>1, <1>3, <1>6, <1>13 DEF Wake, Do
  <2> QED  BY <1>13, <2>1 DEF Wake, TypeOK
<1>14. CASE Receive
  <2>1. batch < LargestBatch
    BY <1>14 DEF Receive, BInv, BatchPlace
  <2>2. passed' \in 0..Unlucky
    BY <1>1, <1>14 DEF Receive
  <2>3. /\ proc' \in {"select", "flight"} /\ job' \in {"full", "tick", "beat"}
        /\ attempt' \in 0..MostRetries
        /\ left' \in 0..(Longest + MostRetries * Second)
        /\ limit' \in {0, Timeout, ReplayTimeout}
    BY <1>1, <1>3, <1>14 DEF Receive, Send, Do, TypeOK
  <2>4. DOMAIN age' = DOMAIN EventAge /\ \A e \in DOMAIN age' : age'[e] \in 0..EventAge[e]
    <3>1. \E v \in 0..EventAge.batch : age' = [age EXCEPT !.away = 0, !.batch = v]
      <4>1. age' = [age EXCEPT !.away = 0, !.batch = IF batch = 0 THEN 0 ELSE age.batch]
        BY <1>1, <1>14, Events DEF Receive
      <4> QED  BY <1>1, <1>5, <4>1, Events
    <3> QED  BY <1>4, <3>1
  <2> QED  BY <1>1, <1>14, <2>1, <2>2, <2>3, <2>4 DEF Receive, TypeOK
<1>15. CASE Ticked
  <2>1. DOMAIN age' = DOMAIN EventAge /\ \A e \in DOMAIN age' : age'[e] \in 0..EventAge[e]
    BY <1>4, <1>5, <1>15, Events DEF Ticked
  <2>2. /\ proc' \in {"swept", "flight"} /\ job' \in {"full", "tick", "beat"}
        /\ attempt' \in 0..MostRetries
        /\ left' \in 0..(Longest + MostRetries * Second)
        /\ limit' \in {0, Timeout, ReplayTimeout}
    BY <1>1, <1>3, <1>15 DEF Ticked, Send, Do, TypeOK
  <2>3. tick' \in [next : 1..Tick, ready : BOOLEAN] /\ passed' \in 0..Unlucky
    <3>1. tick' = [tick EXCEPT !.ready = FALSE] /\ passed' = 0
      BY <1>15 DEF Ticked
    <3>2. tick' = [next |-> tick.next, ready |-> FALSE] /\ tick.next \in 1..Tick
      BY <1>1, <3>1
    <3>3. tick' \in [next : 1..Tick, ready : BOOLEAN]
      BY <3>2
    <3>4. passed' \in 0..Unlucky
      BY <3>1
    <3> QED  BY <3>3, <3>4
  <2> QED  BY <1>1, <1>15, <2>1, <2>2, <2>3 DEF Ticked, TypeOK
<1>16. CASE Heartbeat
  <2>1. DOMAIN age' = DOMAIN EventAge /\ \A e \in DOMAIN age' : age'[e] \in 0..EventAge[e]
    BY <1>4, <1>5, <1>16, Events DEF Heartbeat
  <2>2. /\ proc' \in {"select", "flight"} /\ job' \in {"full", "tick", "beat"}
        /\ attempt' \in 0..MostRetries
        /\ left' \in 0..(Longest + MostRetries * Second)
        /\ limit' \in {0, Timeout, ReplayTimeout}
    BY <1>1, <1>3, <1>16 DEF Heartbeat, Send, Do, TypeOK
  <2> QED  BY <1>1, <1>16, <2>1, <2>2 DEF Heartbeat, TypeOK
<1>17. CASE Pass
  <2>1. DOMAIN age' = DOMAIN EventAge /\ \A e \in DOMAIN age' : age'[e] \in 0..EventAge[e]
    BY <1>17, Ageing
  <2>2. left' \in 0..(Longest + MostRetries * Second)
    BY <1>1, <1>2, <1>17 DEF Pass, Waiting
  <2>3. tick' \in [next : 1..Tick, ready : BOOLEAN]
    BY <1>17, NextBatch DEF BInv, BatchType
  <2> QED  BY <1>17, <2>1, <2>2, <2>3 DEF Pass, TypeOK
<1>18. CASE sendOfflineBatch
  <2>1. replay' \in ReplayState
    BY <1>18 DEF sendOfflineBatch, ReplayState, TypeOK
  <2> QED  BY <1>18, <2>1 DEF sendOfflineBatch, TypeOK
<1>19. CASE UNCHANGED vars
  BY <1>1, <1>19 DEF vars, TypeOK
<1> QED
  BY <1>8, <1>9, <1>10, <1>11, <1>12, <1>13, <1>14, <1>15, <1>16, <1>17, <1>18,
     <1>19 DEF Next

-----------------------------------------------------------------------------
\* A request that failed: its timeout covers what it took, and the next sleep
\* is not begun if there is no attempt after it.
LEMMA AgainAway ==
    ASSUME TypeOK, AwayInv, Again, UNCHANGED job, age'.away = age.away, proc = "flight"
    PROVE  AwayInv'
<1> USE Amounts
<1>1. /\ attempt \in 0..MostRetries /\ attempt \in Nat /\ age.away \in Nat
      /\ job \in {"full", "tick", "beat"} /\ Base \in Nat /\ Effort \in Nat
      /\ limit \in 1..Longest /\ left \in 0..limit
  BY Limits, Events DEF TypeOK, AwayInv, Base
<1>2. age.away <= Base + Spent(attempt) + limit - left
  BY DEF AwayInv
<1>3. /\ Spent(attempt) \in Nat
      /\ Spent(attempt + 1) = Spent(attempt) + Longest + (attempt + 1) * Second
      /\ Spent(attempt) + Longest <= Effort
  BY <1>1, SpentNext, SpentAtMost
<1>4. Base' = Base
  BY DEF Base
<1>5. CASE attempt < CurrentRetries
  <2>1. proc' = "sleep" /\ left' = (attempt + 1) * Second /\ attempt' = attempt
    BY <1>5 DEF Again
  <2>2. (attempt + 1) * Second \in Nat
    BY <1>1
  <2>3. age.away <= Base + Spent(attempt + 1) - (attempt + 1) * Second
    BY <1>1, <1>2, <1>3, <2>2
  <2>4. attempt < MostRetries
    BY <1>1, <1>5
  <2> QED  BY <1>4, <2>1, <2>2, <2>3, <2>4 DEF AwayInv
<1>6. CASE ~(attempt < CurrentRetries)
  <2>1. proc' = IF job = "tick" THEN "swept" ELSE "select"
    BY <1>6 DEF Again, Return
  <2>2. proc' = "swept" => age.away <= Effort
    BY <1>1, <1>2, <1>3, <2>1 DEF Base
  <2> QED  BY <2>1, <2>2 DEF AwayInv
<1> QED  BY <1>5, <1>6

\* The call is over: what is left to do is at most a heartbeat.
LEMMA ReturnAway ==
    ASSUME TypeOK, AwayInv, Return, UNCHANGED job, age'.away = age.away, proc = "flight"
    PROVE  AwayInv'
<1> USE Amounts
<1>1. /\ attempt \in 0..MostRetries /\ attempt \in Nat /\ age.away \in Nat
      /\ limit \in 1..Longest /\ left \in 0..limit
      /\ age.away <= Base + Spent(attempt) + limit - left
  BY Limits, Events DEF TypeOK, AwayInv
<1>2. Spent(attempt) \in Nat /\ Spent(attempt) + Longest <= Effort /\ Effort \in Nat
  BY <1>1, SpentNext, SpentAtMost
<1>3. proc' = IF job = "tick" THEN "swept" ELSE "select"
  BY DEF Return
<1>4. proc' = "swept" => age.away <= Effort
  BY <1>1, <1>2, <1>3 DEF Base
<1> QED  BY <1>3, <1>4 DEF AwayInv

LEMMA AwayStep == TypeOK /\ AwayInv /\ [Next]_vars => AwayInv'
<1> SUFFICES ASSUME TypeOK, AwayInv, [Next]_vars PROVE AwayInv'
  OBVIOUS
<1> USE Amounts
<1>1. /\ DOMAIN age = DOMAIN EventAge /\ age.away \in Nat
      /\ attempt \in 0..MostRetries
      /\ job \in {"full", "tick", "beat"}
      /\ Effort \in Nat
  BY Limits, Events DEF TypeOK
<1>2. ASSUME UNCHANGED <<proc, job, attempt, left, limit>>, age'.away = age.away
      PROVE  AwayInv'
  BY <1>2 DEF AwayInv, Base
\* A call that begins.
<1>3. ASSUME NEW j \in {"full", "tick", "beat"}, Send(j),
             age'.away <= IF j = "beat" THEN Effort ELSE 0
      PROVE  AwayInv'
  <2>1. /\ proc' = "flight" /\ attempt' = 0 /\ job' = j
        /\ limit' \in 1..Longest /\ left' = limit'
    BY <1>3 DEF Send, Do
  <2>2. Spent(0) = 0
    BY DEF Spent
  <2>3. Base' = IF j = "beat" THEN Effort ELSE 0
    BY <2>1 DEF Base
  <2>4. Base' + Spent(attempt') + limit' - left' = Base'
    BY <1>1, <2>1, <2>2, <2>3
  <2> QED  BY <1>3, <2>1, <2>3, <2>4 DEF AwayInv
<1>4. \A e, v : e # "away" => [age EXCEPT ![e] = v].away = age.away
  BY <1>1, Events
<1>5. CASE updateMetrics
  BY <1>2, <1>5 DEF updateMetrics
<1>6. CASE Publish
  BY <1>2, <1>6 DEF Publish
<1>7. CASE Connectivity
  BY <1>2, <1>4, <1>7 DEF Connectivity
<1>8. CASE Succeed
  <2>1. age'.away = age.away
    BY <1>4, <1>8 DEF Succeed
  <2> QED  BY <1>8, <2>1, ReturnAway DEF Succeed
<1>9. CASE Fail
  <2>1. age'.away = age.away
    BY <1>4, <1>9 DEF Fail
  <2>2. /\ Again \/ Return
        /\ proc = "flight" /\ UNCHANGED job
    BY <1>9 DEF Fail
  <2> QED  BY <2>1, <2>2, AgainAway, ReturnAway
<1>10. CASE Wake
  <2>1. /\ attempt < MostRetries /\ attempt \in Nat
        /\ age.away <= Base + Spent(attempt + 1)
    <3>1. /\ proc = "sleep" /\ left = 0 /\ attempt < MostRetries
          /\ age.away <= Base + Spent(attempt + 1) - left
      BY <1>10 DEF Wake, AwayInv
    <3>2. attempt \in Nat /\ attempt + 1 \in Nat
      BY <1>1
    <3>3. Spent(attempt + 1) \in Nat
      BY <3>2, SpentNext
    <3> QED  BY <1>1, <3>1, <3>2, <3>3 DEF Base
  <2>2. UNCHANGED <<job, age>>
    BY <1>10 DEF Wake
  <2>3. Base' = Base /\ Base \in Nat
    BY <1>1, <2>2 DEF Base
  <2>4. Spent(attempt + 1) \in Nat
    <3>1. attempt + 1 \in Nat
      BY <2>1
    <3> QED  BY <3>1, SpentNext
  <2>5. CASE Do(attempt + 1)
    <3>1. /\ proc' = "flight" /\ attempt' = attempt + 1
          /\ limit' \in 1..Longest /\ left' = limit'
      BY <2>5 DEF Do
    <3> QED  BY <1>1, <2>1, <2>2, <2>3, <2>4, <3>1 DEF AwayInv
  <2>6. CASE Return
    <3>1. Spent(attempt + 1) <= Effort
      <4>1. attempt + 1 \in 0..MostRetries
        BY <2>1
      <4> QED  BY <4>1, <2>4, SpentAtMost
    <3>2. proc' = IF job = "tick" THEN "swept" ELSE "select"
      BY <2>6 DEF Return
    <3>3. proc' = "swept" => age.away <= Effort
      BY <1>1, <2>1, <2>4, <3>1, <3>2 DEF Base
    <3> QED  BY <2>2, <3>2, <3>3 DEF AwayInv
  <2> QED  BY <1>10, <2>5, <2>6 DEF Wake
<1>11. CASE Receive
  <2>1. age'.away = 0
    BY <1>1, <1>11, Events DEF Receive
  <2>2. CASE Send("full")
    BY <1>3, <2>1, <2>2
  <2>3. CASE UNCHANGED <<proc, job, attempt, left, limit>>
    BY <1>11, <2>3 DEF Receive, AwayInv
  <2> QED  BY <1>11, <2>2, <2>3 DEF Receive
<1>12. CASE Ticked
  <2>1. age'.away = 0
    BY <1>1, <1>12, Events DEF Ticked
  <2>2. CASE Send("tick")
    BY <1>3, <2>1, <2>2
  <2>3. CASE proc' = "swept"
    BY <1>1, <2>1, <2>3 DEF AwayInv
  <2> QED  BY <1>12, <2>2, <2>3 DEF Ticked
<1>13. CASE Heartbeat
  <2>1. proc = "swept" /\ age.away <= Effort
    BY <1>13 DEF Heartbeat, AwayInv
  <2>2. CASE Send("beat") /\ age' = [age EXCEPT !.current = 0]
    <3>1. age'.away = age.away
      BY <1>4, <2>2
    <3> QED  BY <1>3, <2>1, <2>2, <3>1
  <2>3. CASE proc' = "select"
    BY <2>3 DEF AwayInv
  <2> QED  BY <1>13, <2>2, <2>3 DEF Heartbeat
<1>14. CASE Pass
  <2>1. age'.away \in Nat /\ age'.away <= age.away + 1
    BY <1>14, Ageing, Limits, Events
  <2>2. UNCHANGED <<proc, job, attempt, limit>> /\ Base' = Base /\ Base \in Nat
    BY <1>1, <1>14 DEF Pass, Base
  <2>3. CASE proc = "select"
    BY <2>2, <2>3 DEF AwayInv
  <2>4. CASE proc \in {"flight", "sleep"} /\ left > 0
    <3>1. left' = left - 1
      BY <1>14, <2>4 DEF Pass
    <3>2. attempt \in Nat /\ attempt + 1 \in Nat /\ (attempt + 1) * Second \in Nat
      BY <1>1
    <3>5. Spent(attempt) \in Nat /\ Spent(attempt + 1) \in Nat
      BY <3>2, SpentNext
    <3>3. CASE proc = "flight"
      BY <1>1, <2>1, <2>2, <2>4, <3>1, <3>2, <3>5, <3>3 DEF AwayInv
    <3>4. CASE proc = "sleep"
      BY <1>1, <2>1, <2>2, <2>4, <3>1, <3>2, <3>5, <3>4 DEF AwayInv
    <3> QED  BY <2>4, <3>3, <3>4
  <2> QED  BY <1>14, <2>3, <2>4 DEF Pass, Waiting
<1>15. CASE sendOfflineBatch
  BY <1>2, <1>15 DEF sendOfflineBatch
<1>16. CASE UNCHANGED vars
  BY <1>2, <1>16 DEF vars
<1> QED
  BY <1>5, <1>6, <1>7, <1>8, <1>9, <1>10, <1>11, <1>12, <1>13, <1>14, <1>15,
     <1>16 DEF Next

LEMMA AwayInvariance == Spec => [](TypeOK /\ BInv /\ AwayInv)
BY InitAway, InitBatch, TypeStep, NextBatch, AwayStep, PTL DEF Spec

\* The types of the processor in time; in particular no sleep is longer than
\* MostRetries seconds, even if the limit grows under it, and every age stays in
\* its range.
THEOREM TypeCorrect == Spec => []TypeOK
BY AwayInvariance, PTL

\* processQueue is back in its select, where it sees `done` and the queue, within
\* two calls of sendMessages, whatever the backend does, for every timeout and
\* number of retries, and whenever sendOfflineBatch overwrites the two.
THEOREM AbsenceBounded == Spec => []Absence
<1>1. TypeOK /\ AwayInv => Absence
  <2> SUFFICES ASSUME TypeOK, AwayInv, proc # "select"
               PROVE  age.away <= Base + Effort
    BY Limits DEF Absence, Base
  <2>1. /\ attempt \in 0..MostRetries /\ age.away \in Nat /\ Base \in Nat
        /\ Effort \in Nat /\ proc \in {"flight", "sleep", "swept"}
    BY Limits, Events DEF TypeOK, Base
  <2>2. CASE proc = "flight"
    <3>1. Spent(attempt) + Longest <= Effort /\ Spent(attempt) \in Nat
      BY <2>1, SpentAtMost, SpentNext
    <3>2. limit \in 1..Longest /\ left \in 0..limit
      BY <2>2 DEF AwayInv
    <3> QED  BY <2>1, <2>2, <3>1, <3>2, Amounts DEF AwayInv
  <2>3. CASE proc = "sleep"
    <3>1. attempt + 1 \in 0..MostRetries
      BY <2>1, <2>3, Amounts DEF AwayInv
    <3>2. Spent(attempt + 1) + Longest <= Effort /\ Spent(attempt + 1) \in Nat
      BY <3>1, SpentAtMost, SpentNext
    <3>3. left >= 0 /\ left \in Int
      BY <2>3, LeftRange, <3>1 DEF AwayInv
    <3> QED  BY <2>1, <2>3, <3>2, <3>3, Amounts DEF AwayInv
  <2>4. CASE proc = "swept"
    BY <2>1, <2>4 DEF AwayInv
  <2> QED  BY <2>1, <2>2, <2>3, <2>4
<1> QED  BY <1>1, AwayInvariance, PTL

-----------------------------------------------------------------------------
(***************************************************************************)
(* Heartbeats.                                                             *)
(***************************************************************************)
\* For how long a client in good health has not begun a heartbeat.
Unbeaten == AtMost(age.current, age.trouble)

\* A heartbeat is due, and the tick that is to begin it is there.
Due == Interval + Tick

\* What a backend in good health needs at most for n requests.
Requests(n) == Slow * n

\* Any failure is trouble, and so is a request that takes longer than Slow.
HealthInv ==
    age.trouble > 0 =>
        /\ online /\ proc # "sleep"
        /\ proc = "flight" => left >= limit - Slow

\* lastHeartbeat is no later than the last heartbeat, so at the latest an
\* Interval after it the next one is due.
BeatInv == age.last >= AtMost(age.current, Interval)

\* Where a heartbeat that is due is held up: until the tick comes; then by the
\* request under way and those of the receives that the select prefers to the
\* tick, one each, of which the last may be that of the tick itself; and from
\* the tick's request on by nothing.
PulseInv ==
    /\ ~tick.ready => passed = 0
    /\ ~tick.ready /\ (proc = "select" \/ (proc = "flight" /\ job # "tick")) =>
          Unbeaten < Due - tick.next
    /\ tick.ready /\ proc = "select" =>
          Unbeaten < Due + Requests(passed) + IF batch > 0 THEN 0 ELSE Slow
    /\ tick.ready /\ proc = "flight" /\ job # "tick" =>
          Unbeaten < Due + Requests(passed) + limit - left
    /\ proc = "flight" /\ job = "tick" =>
          Unbeaten < Due + Requests(Unlucky) + limit - left
    /\ proc = "swept" => Unbeaten < Gap

LEMMA RequestsAdd ==
    ASSUME NEW n \in 0..Unlucky
    PROVE  /\ Requests(n) \in Nat /\ Requests(n) <= Requests(Unlucky)
           /\ Requests(Unlucky) \in Nat /\ Requests(0) = 0
           /\ Requests(n + 1) = Requests(n) + Slow
           /\ Gap = Due + Requests(Unlucky) + Slow /\ Due \in Nat /\ Due > Tick
<1>1. n \in Nat /\ Unlucky \in Nat /\ Slow \in Nat /\ n <= Unlucky
  BY Amounts
<1>2. Slow * n <= Slow * Unlucky
  BY <1>1, Ordered
<1>3. Gap = Due + Slow * Unlucky + Slow /\ Due \in Nat /\ Due > Tick
  BY Limits, Amounts, Numbers DEF Due
<1> QED  BY <1>1, <1>2, <1>3 DEF Requests

\* What the steps below need of the types.
LEMMA Values ==
    ASSUME TypeOK, AwayInv
    PROVE  /\ DOMAIN age = DOMAIN EventAge
           /\ age.last \in 0..Interval /\ age.current \in Nat /\ age.trouble \in Nat
           /\ Unbeaten \in Nat
           /\ tick.next \in 1..Tick /\ tick.ready \in BOOLEAN
           /\ passed \in 0..Unlucky /\ batch \in Nat
           /\ proc = "flight" => limit \in Nat /\ left \in 0..limit
           /\ Requests(passed) \in Nat /\ Requests(passed) <= Requests(Unlucky)
           /\ Requests(Unlucky) \in Nat
           /\ Gap = Due + Requests(Unlucky) + Slow /\ Due \in Nat
           /\ Due > Tick /\ Requests(0) = 0
<1>1. /\ DOMAIN age = DOMAIN EventAge
      /\ age.last \in 0..Interval /\ age.current \in Nat /\ age.trouble \in Nat
  BY Limits, Events DEF TypeOK
<1>2. Unbeaten \in Nat
  BY <1>1 DEF Unbeaten, AtMost
<1>3. /\ tick.next \in 1..Tick /\ tick.ready \in BOOLEAN
      /\ passed \in 0..Unlucky /\ batch \in Nat
      /\ proc = "flight" => limit \in Nat /\ left \in 0..limit
  BY Numbers DEF TypeOK, AwayInv
<1> QED  BY <1>1, <1>2, <1>3, RequestsAdd

\* Trouble, or a heartbeat, starts the count anew.
LEMMA Restarted ==
    ASSUME TypeOK', AwayInv', (~tick.ready => passed = 0)',
           age'.current = 0 \/ age'.trouble = 0
    PROVE  PulseInv'
<1> USE Amounts, Numbers
<1>1. Unbeaten' = 0
  <2>1. age'.current \in Nat /\ age'.trouble \in Nat
    BY Limits, Events DEF TypeOK
  <2> QED  BY <2>1 DEF Unbeaten, AtMost
<1>2. /\ tick'.next \in 1..Tick /\ passed' \in 0..Unlucky
      /\ proc' = "flight" => limit' \in Nat /\ left' \in 0..limit'
      /\ batch' \in Nat
  BY DEF TypeOK, AwayInv
<1>3. /\ Requests(passed') \in Nat /\ Requests(Unlucky) \in Nat
      /\ Gap = Due + Requests(Unlucky) + Slow /\ Due \in Nat /\ Due > Tick
  BY <1>2, RequestsAdd
<1> QED  BY <1>1, <1>2, <1>3 DEF PulseInv

LEMMA InitPulse == Init => HealthInv /\ BeatInv /\ PulseInv
<1> SUFFICES ASSUME Init PROVE HealthInv /\ BeatInv /\ PulseInv
  OBVIOUS
<1>1. TypeOK /\ AwayInv
  BY InitAway
<1>2. age.current = 0 /\ age.trouble = 0 /\ age.last = 0
  BY Events DEF Init
<1>3. Unbeaten = 0
  BY <1>2 DEF Unbeaten, AtMost
<1> QED
  BY <1>1, <1>2, <1>3, Values, Amounts, Numbers
     DEF Init, HealthInv, BeatInv, PulseInv, AtMost

HeartInv == HealthInv /\ BeatInv /\ PulseInv

LEMMA HeartStep ==
    ASSUME TypeOK, BInv, AwayInv, HeartInv, [Next]_vars, TypeOK', AwayInv'
    PROVE  HeartInv'
<1> USE Amounts, Numbers
<1>1. /\ DOMAIN age = DOMAIN EventAge
      /\ age.last \in 0..Interval /\ age.current \in Nat /\ age.trouble \in Nat
      /\ Unbeaten \in Nat
      /\ tick.next \in 1..Tick /\ tick.ready \in BOOLEAN
      /\ passed \in 0..Unlucky /\ batch \in Nat
      /\ proc = "flight" => limit \in Nat /\ left \in 0..limit
      /\ Requests(passed) \in Nat /\ Requests(passed) <= Requests(Unlucky)
      /\ Requests(Unlucky) \in Nat
      /\ Gap = Due + Requests(Unlucky) + Slow /\ Due \in Nat
      /\ Due > Tick /\ Requests(0) = 0
  BY Values
<1>2. HealthInv /\ BeatInv /\ PulseInv /\ (~tick.ready => passed = 0)
  BY DEF HeartInv, PulseInv
<1>3. \A e, d, v :
         d # e => [age EXCEPT ![d] = v][e] = age[e]
  BY <1>1
<1>4. ASSUME UNCHANGED <<batch, online, tick, passed, proc, job, left, limit>>,
             age' = age
      PROVE  HeartInv'
  BY <1>2, <1>4 DEF HeartInv, HealthInv, BeatInv, PulseInv, Unbeaten
<1>5. CASE updateMetrics
  BY <1>4, <1>5 DEF updateMetrics
<1>6. CASE Publish
  BY <1>4, <1>6 DEF Publish
<1>7. CASE Connectivity
  <2>1. age'.trouble = 0 /\ age'.last = age.last /\ age'.current = age.current
    BY <1>1, <1>7, Events DEF Connectivity
  <2>2. UNCHANGED <<tick, passed>>
    BY <1>7 DEF Connectivity
  <2>3. PulseInv'
    BY <1>2, <2>1, <2>2, Restarted
  <2> QED  BY <1>2, <2>1, <2>3 DEF HeartInv, HealthInv, BeatInv
<1>8. CASE Succeed
  <2>1. /\ proc = "flight" /\ online' = TRUE /\ UNCHANGED <<tick, passed, job>>
        /\ proc' = IF job = "tick" THEN "swept" ELSE "select"
        /\ batch' = 0
    BY <1>8 DEF Succeed, Return, BInv, BatchPlace
  <2>2. age'.current = age.current /\ age'.trouble = age.trouble
    BY <1>1, <1>8, Events DEF Succeed
  <2>3. age'.last = age.last \/ age'.last = AtMost(age.current, Interval)
    BY <1>1, <1>8, Events DEF Succeed
  <2>4. Unbeaten' = Unbeaten
    BY <2>2 DEF Unbeaten
  <2>5. HealthInv'
    BY <2>1 DEF HealthInv
  <2>6. BeatInv'
    BY <1>1, <1>2, <2>2, <2>3 DEF BeatInv, AtMost
  <2>7. PulseInv'
    <3>1. CASE age.trouble = 0
      BY <1>2, <2>1, <2>2, <3>1, Restarted
    <3>2. CASE age.trouble > 0
      <4>1. limit - left <= Slow
        BY <1>1, <1>2, <2>1, <3>2 DEF HealthInv
      <4> QED  BY <1>1, <1>2, <2>1, <2>4, <4>1 DEF PulseInv
    <3> QED  BY <1>1, <3>1, <3>2
  <2> QED  BY <2>5, <2>6, <2>7 DEF HeartInv
<1>9. CASE Fail
  <2>1. age'.trouble = 0 /\ age'.last = age.last /\ age'.current = age.current
    BY <1>1, <1>9, Events DEF Fail
  <2>2. UNCHANGED <<tick, passed>>
    BY <1>9 DEF Fail
  <2>3. PulseInv'
    BY <1>2, <2>1, <2>2, Restarted
  <2> QED  BY <1>2, <2>1, <2>3 DEF HeartInv, HealthInv, BeatInv
<1>10. CASE Wake
  <2>1. age.trouble = 0 /\ UNCHANGED <<age, tick, passed>>
    BY <1>1, <1>2, <1>10 DEF Wake, HealthInv
  <2>2. PulseInv'
    BY <1>2, <2>1, Restarted
  <2> QED  BY <1>2, <2>1, <2>2 DEF HeartInv, HealthInv, BeatInv
<1>11. CASE Receive
  <2>1. /\ age'.last = age.last /\ age'.current = age.current
        /\ age'.trouble = age.trouble
    BY <1>1, <1>11, Events DEF Receive
  <2>2. Unbeaten' = Unbeaten
    BY <2>1 DEF Unbeaten
  <2>3. /\ proc = "select" /\ UNCHANGED <<tick, online>> /\ batch' = batch + 1
        /\ passed' = IF tick.ready THEN passed + 1 ELSE 0
        /\ tick.ready => passed < Unlucky
    BY <1>11 DEF Receive
  <2>4. \/ proc' = "flight" /\ left' = limit' /\ limit' \in Nat /\ job' = "full"
        \/ proc' = "select"
    BY <1>11, <2>3 DEF Receive, Send, Do
  <2>5. HealthInv'
    BY <1>2, <2>1, <2>3, <2>4 DEF HealthInv
  <2>6. BeatInv'
    BY <1>2, <2>1 DEF BeatInv
  <2>7. PulseInv'
    <3>1. CASE tick.ready
      <4>1. Requests(passed)' = Requests(passed) + Slow
        BY <1>1, <2>3, <3>1, RequestsAdd
      <4>2. Unbeaten < Due + Requests(passed)'
        BY <1>1, <1>2, <2>3, <3>1, <4>1 DEF PulseInv
      <4> QED  BY <1>1, <2>2, <2>3, <2>4, <3>1, <4>1, <4>2 DEF PulseInv
    <3>2. CASE ~tick.ready
      BY <1>1, <1>2, <2>2, <2>3, <2>4, <3>2 DEF PulseInv
    <3> QED  BY <3>1, <3>2
  <2> QED  BY <2>5, <2>6, <2>7 DEF HeartInv
<1>12. CASE Ticked
  <2>1. /\ age'.last = age.last /\ age'.current = age.current
        /\ age'.trouble = age.trouble
    BY <1>1, <1>12, Events DEF Ticked
  <2>2. Unbeaten' = Unbeaten
    BY <2>1 DEF Unbeaten
  <2>3. /\ proc = "select" /\ tick.ready /\ passed' = 0 /\ UNCHANGED online
        /\ \/ /\ batch > 0 /\ proc' = "flight" /\ job' = "tick"
              /\ left' = limit' /\ limit' \in Nat
           \/ ~(batch > 0) /\ proc' = "swept"
    BY <1>12 DEF Ticked, Send, Do
  <2>4. ~tick'.ready
    BY <1>12 DEF Ticked, TypeOK
  <2>5. HealthInv'
    BY <1>2, <2>1, <2>3 DEF HealthInv
  <2>6. BeatInv'
    BY <1>2, <2>1 DEF BeatInv
  <2>7. PulseInv'
    BY <1>1, <1>2, <2>2, <2>3, <2>4 DEF PulseInv
  <2> QED  BY <2>5, <2>6, <2>7 DEF HeartInv
<1>13. CASE Heartbeat
  <2>1. proc = "swept" /\ UNCHANGED <<online, tick, passed, batch>>
    BY <1>13 DEF Heartbeat
  <2>2. CASE Send("beat") /\ age' = [age EXCEPT !.current = 0]
    <3>1. /\ proc' = "flight" /\ left' = limit' /\ limit' \in Nat /\ age'.current = 0
          /\ age'.last = age.last /\ age'.trouble = age.trouble
      BY <1>1, <2>2, Events DEF Send, Do
    <3>2. PulseInv'
      BY <1>2, <2>1, <3>1, Restarted
    <3> QED  BY <1>1, <1>2, <2>1, <3>1, <3>2
             DEF HeartInv, HealthInv, BeatInv, AtMost
  <2>3. CASE /\ ~(online /\ age.last >= Interval)
             /\ proc' = "select" /\ UNCHANGED <<job, left, limit, age>>
    <3>1. HealthInv' /\ BeatInv'
      BY <1>2, <2>1, <2>3 DEF HealthInv, BeatInv
    <3>2. PulseInv'
      <4>1. CASE ~online
        BY <1>1, <1>2, <2>1, <2>3, <4>1, Restarted DEF HealthInv
      <4>2. CASE ~(age.last >= Interval)
        <5>1. Unbeaten < Interval
          BY <1>1, <1>2, <4>2 DEF BeatInv, Unbeaten, AtMost
        <5>2. Unbeaten' = Unbeaten
          BY <2>3 DEF Unbeaten
        <5> QED  BY <1>1, <1>2, <2>1, <2>3, <5>1, <5>2 DEF PulseInv, Due
      <4> QED  BY <2>3, <4>1, <4>2
    <3> QED  BY <3>1, <3>2 DEF HeartInv
  <2> QED  BY <1>13, <2>2, <2>3 DEF Heartbeat
<1>14. CASE Pass
  <2>1. /\ age'.current \in Nat /\ age'.trouble \in Nat
        /\ age'.current <= age.current + 1 /\ age'.trouble <= age.trouble + 1
        /\ age'.last = AtMost(age.last + 1, Interval)
        /\ ~Healthy => age'.trouble = 0
    BY <1>14, Ageing, Limits, Events
  <2>2. /\ UNCHANGED <<online, passed, batch, proc, job, limit>>
        /\ \/ proc = "select" /\ ~tick.ready
           \/ proc \in {"flight", "sleep"} /\ left' = left - 1
    BY <1>14 DEF Pass, Waiting
  <2>3. \/ tick.next > 1 /\ tick'.next = tick.next - 1 /\ tick'.ready = tick.ready
        \/ tick.next = 1 /\ tick'.next = Tick /\ tick'.ready
    <3>1. CASE tick.next > 1
      <4>1. tick' = [tick EXCEPT !.next = tick.next - 1]
        BY <1>14, <3>1 DEF Pass
      <4>2. tick' = [next |-> tick.next - 1, ready |-> tick.ready]
        BY <4>1 DEF TypeOK
      <4> QED  BY <3>1, <4>2
    <3>2. CASE ~(tick.next > 1)
      <4>1. tick' = [next |-> Tick, ready |-> TRUE]
        BY <1>14, <3>2 DEF Pass
      <4>2. tick.next = 1
        BY <1>1, <3>2
      <4>3. tick'.next = Tick /\ tick'.ready = TRUE
        BY <4>1
      <4> QED  BY <4>2, <4>3, Zenon
    <3> QED  BY <3>1, <3>2
  <2>4. Unbeaten' \in Nat /\ Unbeaten' <= Unbeaten + 1
    BY <1>1, <2>1 DEF Unbeaten, AtMost
  <2>5. HealthInv'
    BY <1>1, <2>1, <2>2 DEF HealthInv, Healthy
  <2>6. BeatInv'
    BY <1>1, <1>2, <2>1 DEF BeatInv, AtMost
  <2>7. PulseInv'
    <3>1. CASE proc = "sleep"
      BY <1>2, <2>1, <2>2, <2>3, <3>1, Restarted DEF Healthy
    <3>2. CASE proc = "select" /\ ~tick.ready
      <4>1. Unbeaten < Due - tick.next /\ passed = 0
        BY <1>2, <3>2 DEF PulseInv
      <4>2. CASE tick.next > 1 /\ tick'.next = tick.next - 1 /\ tick'.ready = tick.ready
        BY <1>1, <2>2, <2>4, <3>2, <4>1, <4>2 DEF PulseInv
      <4>3. CASE tick.next = 1 /\ tick'.next = Tick /\ tick'.ready
        <5>1. Unbeaten' < Due
          BY <1>1, <2>4, <4>1, <4>3
        <5> QED  BY <1>1, <2>2, <2>4, <3>2, <4>1, <4>3, <5>1 DEF PulseInv
      <4> QED  BY <2>3, <4>2, <4>3
    <3>3. CASE proc = "flight" /\ job # "tick" /\ left' = left - 1
      <4>1. CASE tick.ready
        <5>1. tick'.ready /\ Unbeaten < Due + Requests(passed) + limit - left
          BY <1>2, <2>3, <3>3, <4>1 DEF PulseInv
        <5> QED  BY <1>1, <2>2, <2>4, <3>3, <5>1 DEF PulseInv
      <4>2. CASE ~tick.ready
        <5>1. Unbeaten < Due - tick.next /\ passed = 0
          BY <1>2, <3>3, <4>2 DEF PulseInv
        <5>2. Unbeaten' < Due - tick.next + 1
          BY <1>1, <2>4, <5>1
        <5> QED  BY <1>1, <2>2, <2>3, <2>4, <3>3, <4>2, <5>1, <5>2 DEF PulseInv
      <4> QED  BY <4>1, <4>2
    <3>4. CASE proc = "flight" /\ job = "tick" /\ left' = left - 1
      <4>1. Unbeaten < Due + Requests(Unlucky) + limit - left
        BY <1>2, <3>4 DEF PulseInv
      <4>2. ~tick'.ready => passed' = 0
        BY <1>2, <2>2, <2>3
      <4> QED  BY <1>1, <2>2, <2>4, <3>4, <4>1, <4>2 DEF PulseInv
    <3> QED  BY <2>2, <3>1, <3>2, <3>3, <3>4
  <2> QED  BY <2>5, <2>6, <2>7 DEF HeartInv
<1>15. CASE sendOfflineBatch
  BY <1>4, <1>15 DEF sendOfflineBatch
<1>16. CASE UNCHANGED vars
  BY <1>4, <1>16 DEF vars
<1> QED
  BY <1>5, <1>6, <1>7, <1>8, <1>9, <1>10, <1>11, <1>12, <1>13, <1>14, <1>15,
     <1>16 DEF Next

\* sendHeartbeat: as long as the client is in good health the time between the
\* beginnings of two heartbeats is below the Gap, for every interval, tick and
\* request time, and however the select of processQueue chooses.
THEOREM PulseRegular == Spec => []Pulse
<1>1. Init => HeartInv
  BY InitPulse DEF HeartInv
<1>2. TypeOK /\ BInv /\ AwayInv /\ HeartInv /\ [Next]_vars => HeartInv'
  BY TypeStep, AwayStep, HeartStep
<1>3. TypeOK /\ AwayInv /\ HeartInv => Pulse
  <2> SUFFICES ASSUME TypeOK, AwayInv, HeartInv PROVE Unbeaten < Gap
    BY DEF Pulse, Unbeaten
  <2>1. HealthInv /\ PulseInv /\ proc \in {"select", "flight", "sleep", "swept"}
    BY DEF HeartInv, TypeOK
  <2>2. CASE age.trouble = 0
    BY <2>2, Values, Amounts, Numbers DEF Unbeaten, AtMost
  <2>3. CASE age.trouble > 0
    <3>1. proc # "sleep" /\ (proc = "flight" => limit - left <= Slow)
      BY <2>1, <2>3, Values, Amounts DEF HealthInv
    <3> QED  BY <2>1, <3>1, Values, Amounts, Numbers DEF PulseInv
  <2> QED  BY <2>2, <2>3, Values
<1> QED  BY <1>1, <1>2, <1>3, AwayInvariance, PTL DEF Spec
=============================================================================
