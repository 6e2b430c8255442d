-------------------------- MODULE DeliveryPromises --------------------------
(***************************************************************************)
(* Proofs that Delivery keeps what Outbox promises and uses sendMessages   *)
(* as Calls offers it, that it keeps one copy of a message at a time, that *)
(* it keeps what it stored, and that its memory is bounded: for every      *)
(* value of the constants.                                                 *)
(***************************************************************************)
EXTENDS DeliveryProofs

\* What the retrier resends was accepted.
HeldAccepted == Stored(held) \subseteq Accepted

\* A direct call is under way only while its Publish is.
CallInv == \A m \in Sync : http[m] # "idle" => pub[m] = "direct"

\* The processor waits for messages with less than a batch.
MemoryInv ==
    /\ Len(queue) <= MaxQueueSize
    /\ stop = "running" =>
          /\ \E n \in DynamicBatchSizes : Len(batch) <= n
          /\ proc = "select" =>
                batch = <<>> \/ \E n \in DynamicBatchSizes : Len(batch) < n

PInv == IInv /\ OneCopy /\ HeldAccepted /\ CallInv /\ MemoryInv

-----------------------------------------------------------------------------
(***************************************************************************)
(* Sequences without repetitions, and parts of buckets.                    *)
(***************************************************************************)
NoRepeat(s) == \A i, j \in DOMAIN s : s[i] = s[j] => i = j

OneEach(b) == \A j, k \in DOMAIN b : b[j].msg = b[k].msg => j = k

Part(c, b) == DOMAIN c \subseteq DOMAIN b /\ \A k \in DOMAIN c : c[k] = b[k]

LEMMA AppendNoRepeat ==
    ASSUME NEW s \in Seq(Msg), NEW m \in Msg, NoRepeat(s), m \notin Elements(s)
    PROVE  NoRepeat(Append(s, m))
<1>1. /\ Append(s, m) \in Seq(Msg)
      /\ Len(Append(s, m)) = Len(s) + 1
      /\ Append(s, m)[Len(s) + 1] = m
      /\ \A i \in 1..Len(s) : Append(s, m)[i] = s[i]
  OBVIOUS
<1>2. DOMAIN s = 1..Len(s) /\ DOMAIN Append(s, m) = 1..(Len(s) + 1) /\ Len(s) \in Nat
  BY <1>1
<1>3. \A i \in 1..Len(s) : s[i] # m
  BY <1>2 DEF Elements
<1> QED  BY <1>1, <1>2, <1>3 DEF NoRepeat

LEMMA TailNoRepeat ==
    ASSUME NEW s \in Seq(Msg), s # <<>>, NoRepeat(s)
    PROVE  NoRepeat(Tail(s)) /\ Head(s) \notin Elements(Tail(s))
<1>1. /\ Head(s) = s[1]
      /\ Tail(s) \in Seq(Msg)
      /\ Len(s) \in Nat \ {0}
      /\ Len(Tail(s)) = Len(s) - 1
      /\ \A i \in 1..(Len(s) - 1) : Tail(s)[i] = s[i + 1]
  OBVIOUS
<1>2. DOMAIN s = 1..Len(s) /\ DOMAIN Tail(s) = 1..(Len(s) - 1)
  BY <1>1
<1>3. \A i \in 1..(Len(s) - 1) : i + 1 \in 1..Len(s) /\ i + 1 # 1 /\ 1 \in 1..Len(s)
  BY <1>1
<1>4. NoRepeat(Tail(s))
  <2> SUFFICES ASSUME NEW i \in 1..(Len(s) - 1), NEW j \in 1..(Len(s) - 1),
                      Tail(s)[i] = Tail(s)[j]
               PROVE  i = j
    BY <1>2 DEF NoRepeat
  <2>1. s[i + 1] = s[j + 1]
    BY <1>1
  <2>2. i + 1 = j + 1
    BY <1>2, <1>3, <2>1 DEF NoRepeat
  <2> QED  BY <2>2
<1>5. \A i \in 1..(Len(s) - 1) : Tail(s)[i] # Head(s)
  BY <1>1, <1>2, <1>3 DEF NoRepeat
<1> QED  BY <1>2, <1>4, <1>5 DEF Elements

LEMMA PartOne ==
    ASSUME NEW b, NEW c, Part(c, b), OneEach(b)
    PROVE  /\ OneEach(c)
           /\ Stored(c) \subseteq Stored(b)
           /\ \A ks \in SUBSET (DOMAIN b \ DOMAIN c) :
                 /\ MessagesAt(b, ks) \cap Stored(c) = {}
                 /\ MessagesAt(b, ks) \subseteq Stored(b)
BY DEF Part, OneEach, Stored, MessagesAt

LEMMA DeletePart ==
    ASSUME NEW b, NEW ids
    PROVE  Part(DeleteBatch(b, ids), b)
BY DeleteKeeps DEF Part

LEMMA CopyParts ==
    OneCopy <=> /\ NoRepeat(queue)
                /\ NoRepeat(batch)
                /\ OneEach(bucket)
                /\ Elements(queue) \cap Elements(batch) = {}
                /\ (Elements(queue) \cup Elements(batch)) \cap Stored(bucket) = {}
                /\ Elements(queue) \cup Elements(batch) \cup Stored(bucket)
                      \subseteq Accepted
BY DEF OneCopy, NoRepeat, OneEach

LEMMA CopyPartsNext ==
    OneCopy' <=> /\ NoRepeat(queue')
                 /\ NoRepeat(batch')
                 /\ OneEach(bucket')
                 /\ Elements(queue') \cap Elements(batch') = {}
                 /\ (Elements(queue') \cup Elements(batch')) \cap Stored(bucket') = {}
                 /\ Elements(queue') \cup Elements(batch') \cup Stored(bucket')
                       \subseteq Accepted'
BY DEF OneCopy, NoRepeat, OneEach

LEMMA EmptyNoRepeat == NoRepeat(<<>>) /\ Elements(<<>>) = {}
BY DEF NoRepeat, Elements
-----------------------------------------------------------------------------
(***************************************************************************)
(* Steps, by what they do to the copies of the messages.                   *)
(***************************************************************************)
\* Publish has accepted a message for good.
LEMMA AcceptedGrows ==
    ASSUME TypeOK, [Next]_vars
    PROVE  Accepted \subseteq Accepted'
<1> USE DEF appVars, procVars, retVars, dbVars, lifeVars, envVars
<1>1. ASSUME \A m \in Msg : pub[m] = "ok" => pub'[m] = "ok"
      PROVE  Accepted \subseteq Accepted'
  BY <1>1 DEF Accepted
<1>2. ASSUME NEW m \in Msg,
             Publish(m) \/ Enqueue(m) \/ StorePublished(m) \/ SentDirectly(m)
      PROVE  Accepted \subseteq Accepted'
  BY <1>1, <1>2 DEF TypeOK, Publish, Enqueue, StorePublished, SentDirectly
<1>3. ASSUME NEW s \in Sender, SendMessages(s)
      PROVE  Accepted \subseteq Accepted'
  BY <1>1, <1>3
     DEF SendMessages, Arrive, Succeed, Refuse, NetworkError,
         ServerError, GiveUp
<1>4. CASE ProcStep
  BY <1>1, <1>4
     DEF ProcStep, ProcReceive, ProcTick, ProcDone, ProcDrain, ProcDrained,
         ProcSent, ProcFailed, ProcStore, ProcTidy, ProcBeaten
<1>5. CASE RetStep
  BY <1>1, <1>5
     DEF RetStep, RetTick, RetFetch, RetSent, RetFailed, RetDone
<1>6. CASE \/ Probe \/ Poll \/ NetChange \/ Tick \/ TetherDone \/ TetherStopped
           \/ StopClose \/ StopFinish
           \/ \E g \in {"mon", "poll"} : Leave(g)
  BY <1>1, <1>6
     DEF Probe, Poll, NetChange, Tick, TetherDone, TetherStopped, TetherReturn,
         StopClose, StopFinish, Leave
<1>7. CASE Reboot
  <2>1. \A m \in Msg : pub[m] = "ok" => pub'[m] = "ok"
    BY <1>7 DEF Reboot, InProgress
  <2> QED  BY <1>1, <2>1
<1>8. CASE UNCHANGED vars
  BY <1>1, <1>8 DEF vars
<1> QED
  BY <1>2, <1>3, <1>4, <1>5, <1>6, <1>7, <1>8, SenderFacts DEF Next

\* Steps that add no copy and move none.
Shrinks ==
    /\ queue' \in {queue, <<>>}
    /\ batch' \in {batch, <<>>}
    /\ Part(bucket', bucket)

LEMMA PartSelf == Part(bucket, bucket)
BY DEF Part

\* The others: Publish puts a message in the queue or the store, the processor
\* takes one from the queue, or stores one of a batch that failed.
LEMMA StepKinds ==
    ASSUME TypeOK, [Next]_vars
    PROVE  \/ Shrinks
           \/ \E m \in Msg : Enqueue(m) /\ queue' = Append(queue, m) /\ pub'[m] = "ok"
           \/ \E m \in Msg : /\ StorePublished(m) /\ pub'[m] = "ok"
                             /\ bucket' = Put(bucket, NanoKey(nano), m, clock)
           \/ ProcReceive \/ ProcDrain \/ ProcStore
<1> USE DEF appVars, procVars, retVars, dbVars, lifeVars, envVars
<1>1. ASSUME UNCHANGED <<queue, bucket>>, batch' \in {batch, <<>>}
      PROVE  Shrinks
  BY <1>1, PartSelf DEF Shrinks
<1>2. ASSUME UNCHANGED <<queue, batch>>, NEW ids, bucket' = DeleteBatch(bucket, ids)
      PROVE  Shrinks
  BY <1>2, DeletePart DEF Shrinks
<1>3. ASSUME NEW m \in Msg, Publish(m) \/ SentDirectly(m)
      PROVE  Shrinks
  BY <1>1, <1>3 DEF Publish, SentDirectly
<1>4. ASSUME NEW m \in Msg, Enqueue(m)
      PROVE  \/ Shrinks
             \/ queue' = Append(queue, m) /\ pub'[m] = "ok"
  <2>1. CASE Len(queue) < MaxQueueSize
    BY <1>4, <2>1 DEF Enqueue, TypeOK
  <2>2. CASE ~(Len(queue) < MaxQueueSize)
    <3>1. queue' = queue /\ bucket' = bucket /\ batch' = batch
      BY <1>4, <2>2 DEF Enqueue
    <3>2. Shrinks
      BY <3>1, PartSelf DEF Shrinks
    <3> QED  BY <3>2, Zenon
  <2> QED  BY <2>1, <2>2
<1>5. ASSUME NEW m \in Msg, StorePublished(m)
      PROVE  \/ Shrinks
             \/ bucket' = Put(bucket, NanoKey(nano), m, clock) /\ pub'[m] = "ok"
  BY <1>1, <1>5 DEF StorePublished, TypeOK
<1>6. ASSUME NEW s \in Sender, SendMessages(s)
      PROVE  Shrinks
  BY <1>1, <1>6
     DEF SendMessages, Arrive, Succeed, Refuse, NetworkError,
         ServerError, GiveUp
<1>7. CASE ProcTick \/ ProcDone \/ ProcDrained \/ ProcSent \/ ProcFailed \/ ProcBeaten
  BY <1>1, <1>7
     DEF ProcTick, ProcDone, ProcDrained, ProcSent, ProcFailed, ProcBeaten, ProcSend
<1>8. CASE ProcTidy
  <2>1. CASE bucket' \in CleanupExpired(bucket, clock)
    <3>1. Part(bucket', bucket)
      BY <2>1, CleanupType DEF Part, TypeOK
    <3> QED  BY <1>8, <3>1 DEF ProcTidy, Shrinks
  <2> QED  BY <1>1, <1>8, <2>1 DEF ProcTidy
<1>9. CASE RetFetch \/ RetSent
  BY <1>2, <1>9 DEF RetFetch, RetSent
<1>10. CASE Reboot
  BY <1>10, PartSelf DEF Reboot, Shrinks
<1>11. CASE \/ RetTick \/ RetFailed \/ RetDone
            \/ Probe \/ Poll \/ NetChange \/ Tick \/ TetherDone \/ TetherStopped
            \/ StopClose \/ StopFinish \/ \E g \in {"mon", "poll"} : Leave(g)
  BY <1>1, <1>11
     DEF RetTick, RetFailed, RetDone, Probe, Poll, NetChange, Tick, TetherDone,
         TetherStopped, TetherReturn, StopClose, StopFinish, Leave
<1>12. CASE UNCHANGED vars
  BY <1>1, <1>12 DEF vars
<1> QED
  BY <1>3, <1>4, <1>5, <1>6, <1>7, <1>8, <1>9, <1>10, <1>11, <1>12, SenderFacts
     DEF Next, ProcStep, RetStep
-----------------------------------------------------------------------------
(***************************************************************************)
(* One copy.                                                               *)
(***************************************************************************)
LEMMA OneCopyStep ==
    ASSUME IInv, OneCopy, [Next]_vars
    PROVE  OneCopy'
<1> USE DEF appVars, procVars, retVars, dbVars, lifeVars, envVars
<1>1. /\ TypeOK /\ ProcLifeCycle /\ NanoKeysUnique
      /\ queue \in Seq(Msg) /\ batch \in Seq(Msg) /\ IsBucket(bucket)
  BY DEF IInv, TypeOK
<1>2. /\ NoRepeat(queue) /\ NoRepeat(batch) /\ OneEach(bucket)
      /\ Elements(queue) \cap Elements(batch) = {}
      /\ (Elements(queue) \cup Elements(batch)) \cap Stored(bucket) = {}
      /\ Elements(queue) \cup Elements(batch) \cup Stored(bucket) \subseteq Accepted
  BY CopyParts
<1>3. Accepted \subseteq Accepted'
  BY <1>1, AcceptedGrows
<1>4. CASE Shrinks
  <2>1. NoRepeat(queue') /\ Elements(queue') \subseteq Elements(queue)
    BY <1>2, <1>4, EmptyNoRepeat DEF Shrinks
  <2>2. NoRepeat(batch') /\ Elements(batch') \subseteq Elements(batch)
    BY <1>2, <1>4, EmptyNoRepeat DEF Shrinks
  <2>3. OneEach(bucket') /\ Stored(bucket') \subseteq Stored(bucket)
    BY <1>2, <1>4, PartOne DEF Shrinks
  <2> QED  BY <1>2, <1>3, <2>1, <2>2, <2>3, CopyPartsNext
<1>5. ASSUME NEW m \in Msg, Enqueue(m), queue' = Append(queue, m), pub'[m] = "ok"
      PROVE  OneCopy'
  <2>1. m \notin Accepted /\ m \in Accepted' /\ UNCHANGED <<batch, bucket>>
    BY <1>5 DEF Enqueue, Accepted
  <2>2. NoRepeat(queue') /\ Elements(queue') = Elements(queue) \cup {m}
    BY <1>1, <1>2, <1>5, <2>1, AppendNoRepeat, AppendElements
  <2> QED  BY <1>2, <1>3, <2>1, <2>2, CopyPartsNext
<1>6. ASSUME NEW m \in Msg, StorePublished(m), pub'[m] = "ok",
             bucket' = Put(bucket, NanoKey(nano), m, clock)
      PROVE  OneCopy'
  <2>1. m \notin Accepted /\ m \in Accepted' /\ UNCHANGED <<queue, batch>>
    BY <1>6 DEF StorePublished, Accepted
  <2>2. NanoKey(nano) \notin DOMAIN bucket
    BY <1>1, KeyFacts DEF NanoKeysUnique, TypeOK
  <2>3. /\ DOMAIN bucket' = DOMAIN bucket \cup {NanoKey(nano)}
        /\ bucket'[NanoKey(nano)].msg = m
        /\ \A k \in DOMAIN bucket : bucket'[k] = bucket[k]
    BY <1>6, <2>2 DEF Put
  <2>4. OneEach(bucket') /\ Stored(bucket') = Stored(bucket) \cup {m}
    <3>1. m \notin Stored(bucket)
      BY <1>2, <2>1
    <3> QED  BY <1>2, <2>3, <3>1 DEF OneEach, Stored, MessagesAt
  <2> QED  BY <1>2, <1>3, <2>1, <2>4, CopyPartsNext
<1>7. CASE ProcReceive \/ ProcDrain
  <2> DEFINE m == Head(queue)
  <2>1. /\ queue # <<>> /\ queue' = Tail(queue) /\ batch' = Append(batch, m)
        /\ bucket' = bucket
    BY <1>7 DEF ProcReceive, ProcDrain, ProcSend
  <2>2. m \in Msg /\ Elements(queue) = {m} \cup Elements(queue')
    BY <1>1, <2>1, TailElements
  <2>3. NoRepeat(queue') /\ m \notin Elements(queue')
    BY <1>1, <1>2, <2>1, TailNoRepeat
  <2> HIDE DEF m
  <2>4. NoRepeat(batch') /\ Elements(batch') = Elements(batch) \cup {m}
    BY <1>1, <1>2, <2>1, <2>2, AppendNoRepeat, AppendElements
  <2> QED  BY <1>2, <1>3, <2>1, <2>2, <2>3, <2>4, CopyPartsNext
<1>8. CASE ProcStore
  <2> DEFINE m == Head(batch)
             k == SecondKey(clock)
  <2>1. /\ batch # <<>> /\ batch' = Tail(batch) /\ queue' = queue
        /\ bucket' = bucket \/ bucket' = Put(bucket, k, m, clock)
    BY <1>1, <1>8 DEF ProcStore, ProcLifeCycle
  <2>2. m \in Msg /\ Elements(batch) = {m} \cup Elements(batch')
    BY <1>1, <2>1, TailElements
  <2>3. NoRepeat(batch') /\ m \notin Elements(batch')
    BY <1>1, <1>2, <2>1, TailNoRepeat
  <2>4. OneEach(bucket') /\ Stored(bucket') \subseteq Stored(bucket) \cup {m}
    <3>1. CASE bucket' = bucket
      BY <1>2, <3>1
    <3>2. CASE bucket' = Put(bucket, k, m, clock)
      <4>1. /\ DOMAIN bucket' = DOMAIN bucket \cup {k}
            /\ bucket'[k].msg = m
            /\ \A j \in DOMAIN bucket \ {k} : bucket'[j] = bucket[j]
        BY <3>2 DEF Put
      <4>2. m \notin Stored(bucket)
        BY <1>2, <2>2
      <4> QED  BY <1>2, <4>1, <4>2 DEF OneEach, Stored, MessagesAt
    <3> QED  BY <2>1, <3>1, <3>2
  <2> HIDE DEF m
  <2> QED  BY <1>2, <1>3, <2>1, <2>2, <2>3, <2>4, CopyPartsNext
<1> QED  BY <1>1, <1>4, <1>5, <1>6, <1>7, <1>8, StepKinds

\* What is resent was in the store, and so was accepted.
LEMMA HeldStep ==
    ASSUME IInv, OneCopy, HeldAccepted, [Next]_vars
    PROVE  HeldAccepted'
<1> USE DEF appVars, procVars, retVars, dbVars, lifeVars, envVars
<1>1. TypeOK /\ IsBucket(bucket)
  BY DEF IInv, TypeOK
<1>2. Accepted \subseteq Accepted'
  BY <1>1, AcceptedGrows
<1>3. ASSUME held' = held \/ DOMAIN held' = {}
      PROVE  HeldAccepted'
  BY <1>2, <1>3 DEF HeldAccepted, Stored, MessagesAt
<1>4. CASE RetFetch
  <2> DEFINE read == GetBatch(bucket, RetryBatchSize)
             old  == ExpiredKeys(read, clock)
             live == DeleteBatch(read, old)
  <2>1. CASE held' = live
    <3>1. /\ DOMAIN read \subseteq DOMAIN bucket
          /\ \A j \in DOMAIN read : read[j] = bucket[j]
      BY <1>1, GetBatchType
    <3>2. Part(live, read)
      BY DeletePart
    <3>3. Stored(live) \subseteq Stored(bucket)
      BY <3>1, <3>2 DEF Part, Stored, MessagesAt
    <3>4. Stored(bucket) \subseteq Accepted
      BY CopyParts
    <3> QED  BY <1>2, <2>1, <3>3, <3>4 DEF HeldAccepted
  <2> QED  BY <1>3, <1>4, <2>1 DEF RetFetch
<1>5. CASE RetSent \/ RetFailed \/ Reboot
  BY <1>3, <1>5, EmptyBucketType DEF RetSent, RetFailed, Reboot
<1>6. ASSUME NEW m \in Msg,
             Publish(m) \/ Enqueue(m) \/ StorePublished(m) \/ SentDirectly(m)
      PROVE  HeldAccepted'
  BY <1>3, <1>6 DEF Publish, Enqueue, StorePublished, SentDirectly
<1>7. ASSUME NEW s \in Sender, SendMessages(s)
      PROVE  HeldAccepted'
  BY <1>3, <1>7
     DEF SendMessages, Arrive, Succeed, Refuse, NetworkError,
         ServerError, GiveUp
<1>8. CASE ProcStep
  BY <1>3, <1>8
     DEF ProcStep, ProcReceive, ProcTick, ProcDone, ProcDrain, ProcDrained,
         ProcSent, ProcFailed, ProcStore, ProcTidy, ProcBeaten
<1>9. CASE \/ RetTick \/ RetDone
           \/ Probe \/ Poll \/ NetChange \/ Tick \/ TetherDone \/ TetherStopped
           \/ StopClose \/ StopFinish \/ \E g \in {"mon", "poll"} : Leave(g)
  BY <1>3, <1>9
     DEF RetTick, RetDone, Probe, Poll, NetChange, Tick, TetherDone,
         TetherStopped, TetherReturn, StopClose, StopFinish, Leave
<1>10. CASE UNCHANGED vars
  BY <1>3, <1>10 DEF vars
<1> QED
  BY <1>4, <1>5, <1>6, <1>7, <1>8, <1>9, <1>10, SenderFacts DEF Next, RetStep

LEMMA CallStep ==
    ASSUME TypeOK, CallInv, [Next]_vars
    PROVE  CallInv'
<1> USE DEF appVars, procVars, retVars, dbVars, lifeVars, envVars
<1>1. ASSUME \A m \in Sync : pub'[m] = pub[m] /\ http'[m] = http[m]
      PROVE  CallInv'
  BY <1>1 DEF CallInv
<1>2. ASSUME NEW m \in Msg, Publish(m)
      PROVE  CallInv'
  BY <1>2, SenderFacts DEF CallInv, Publish, TypeOK
<1>3. ASSUME NEW m \in Msg, Enqueue(m) \/ StorePublished(m)
      PROVE  CallInv'
  <2>1. pub[m] # "direct" /\ http' = http /\ \A n \in Msg \ {m} : pub'[n] = pub[n]
    BY <1>3 DEF Enqueue, StorePublished, TypeOK
  <2> QED  BY <2>1, SenderFacts DEF CallInv
<1>4. ASSUME NEW m \in Sync, SentDirectly(m)
      PROVE  CallInv'
  BY <1>4, SenderFacts DEF CallInv, SentDirectly, TypeOK
<1>5. ASSUME NEW s \in Sender, SendMessages(s)
      PROVE  CallInv'
  <2>1. http[s] # "idle" /\ pub' = pub /\ \A t \in Sender \ {s} : http'[t] = http[t]
    BY <1>5
       DEF SendMessages, Arrive, Succeed, Refuse, NetworkError,
           ServerError, GiveUp, TypeOK
  <2> QED  BY <2>1, SenderFacts DEF CallInv
<1>6. CASE ProcStep
  <2>1. pub' = pub /\ \A m \in Msg : m \in Sender => http'[m] = http[m]
    BY <1>6, SenderFacts
       DEF ProcStep, ProcReceive, ProcTick, ProcDone, ProcDrain, ProcDrained,
           ProcSent, ProcFailed, ProcStore, ProcTidy, ProcBeaten, ProcSend, TypeOK
  <2> QED  BY <1>1, <2>1, SenderFacts
<1>7. CASE RetStep
  <2>1. pub' = pub /\ \A m \in Msg : m \in Sender => http'[m] = http[m]
    BY <1>7, SenderFacts
       DEF RetStep, RetTick, RetFetch, RetSent, RetFailed, RetDone, TypeOK
  <2> QED  BY <1>1, <2>1, SenderFacts
<1>8. CASE Reboot
  BY <1>8, SenderFacts DEF Reboot, CallInv
<1>9. CASE \/ Probe \/ Poll \/ NetChange \/ Tick \/ TetherDone \/ TetherStopped
           \/ StopClose \/ StopFinish \/ \E g \in {"mon", "poll"} : Leave(g)
  BY <1>1, <1>9
     DEF Probe, Poll, NetChange, Tick, TetherDone, TetherStopped, TetherReturn,
         StopClose, StopFinish, Leave
<1>10. CASE UNCHANGED vars
  BY <1>1, <1>10 DEF vars
<1> QED
  BY <1>2, <1>3, <1>4, <1>5, <1>6, <1>7, <1>8, <1>9, <1>10, SenderFacts DEF Next

-----------------------------------------------------------------------------
(***************************************************************************)
(* Memory.                                                                 *)
(***************************************************************************)
LEMMA Sizes ==
    /\ MaxQueueSize \in Nat
    /\ MinBatchSize \in DynamicBatchSizes
    /\ \A n \in DynamicBatchSizes : n \in Nat \ {0}
BY DeliveryAssumption DEF DynamicBatchSizes

LEMMA MemoryStep ==
    ASSUME TypeOK, ProcLifeCycle, MemoryInv, [Next]_vars
    PROVE  MemoryInv'
<1> USE DEF appVars, procVars, retVars, dbVars, lifeVars, envVars
<1>1. /\ queue \in Seq(Msg) /\ batch \in Seq(Msg)
      /\ Len(queue) \in Nat /\ Len(batch) \in Nat /\ Len(<<>>) = 0
      /\ Len(queue) <= MaxQueueSize
  BY DEF TypeOK, MemoryInv
<1> DEFINE Fits(b)  == \E n \in DynamicBatchSizes : Len(b) <= n
           Short(b) == b = <<>> \/ \E n \in DynamicBatchSizes : Len(b) < n
<1>2. Fits(<<>>)
  BY <1>1, Sizes
<1>3. ASSUME Len(queue') <= MaxQueueSize,
             stop' = "running" =>
                Fits(batch') /\ (proc' = "select" => Short(batch'))
      PROVE  MemoryInv'
  BY <1>3 DEF MemoryInv
<1>4. stop = "running" => Fits(batch) /\ (proc = "select" => Short(batch))
  BY DEF MemoryInv
<1> HIDE DEF Fits, Short
<1>5. ASSUME UNCHANGED <<queue, batch, proc, stop>>
      PROVE  MemoryInv'
  BY <1>1, <1>3, <1>4, <1>5
<1>6. Short(<<>>)
  BY DEF Short
<1>7. ASSUME NEW m \in Msg, Enqueue(m)
      PROVE  MemoryInv'
  <2>1. UNCHANGED <<batch, proc, stop>>
    BY <1>7 DEF Enqueue
  <2>2. CASE queue' = Append(queue, m) /\ Len(queue) < MaxQueueSize
    <3>1. Len(Append(queue, m)) = Len(queue) + 1
      BY <1>1
    <3>2. Len(queue') <= MaxQueueSize
      BY <1>1, <2>2, <3>1, Sizes
    <3> QED  BY <1>3, <1>4, <2>1, <3>2
  <2>3. CASE queue' = queue
    BY <1>5, <2>1, <2>3
  <2> QED  BY <1>7, <2>2, <2>3 DEF Enqueue
<1>8. CASE ProcReceive
  <2> DEFINE b == Append(batch, Head(queue))
  <2>1. queue' = Tail(queue) /\ Len(queue') <= MaxQueueSize
    <3>1. queue # <<>> /\ queue' = Tail(queue)
      BY <1>8 DEF ProcReceive
    <3>2. Len(Tail(queue)) = Len(queue) - 1
      BY <1>1, <3>1
    <3> QED  BY <1>1, <3>1, <3>2, Sizes
  <2>2. proc = "select" /\ queue # <<>> /\ stop' = stop
    BY <1>8 DEF ProcReceive
  <2>3. CASE stop = "running"
    <3>1. Head(queue) \in Msg
      BY <1>1, <2>2, TailElements
    <3>2. Len(b) = Len(batch) + 1
      BY <1>1, <3>1
    <3>3. Fits(b)
      <4>1. CASE batch = <<>>
        BY <1>1, <3>2, <4>1, Sizes DEF Fits
      <4>2. ASSUME NEW n \in DynamicBatchSizes, Len(batch) < n
            PROVE  Fits(b)
        BY <1>1, <3>2, <4>2, Sizes DEF Fits
      <4> QED  BY <1>4, <2>2, <2>3, <4>1, <4>2 DEF Short
    <3>4. \/ batch' = b /\ proc' = "send"
          \/ batch' = b /\ \E n \in DynamicBatchSizes : ~(Len(b) >= n)
      BY <1>8 DEF ProcReceive, ProcSend
    <3>5. ASSUME NEW n \in DynamicBatchSizes, ~(Len(b) >= n)
          PROVE  Short(b)
      BY <1>1, <3>2, <3>5, Sizes DEF Short
    <3> HIDE DEF b
    <3> QED  BY <1>3, <2>1, <3>3, <3>4, <3>5
  <2> QED  BY <1>3, <2>1, <2>2, <2>3
<1>9. CASE ProcTick
  BY <1>1, <1>3, <1>4, <1>9 DEF ProcTick, ProcSend
<1>10. CASE ProcDone
  BY <1>1, <1>3, <1>10 DEF ProcDone
<1>11. CASE ProcDrain \/ ProcDrained
  <2>1. stop' = stop /\ stop # "running"
    BY <1>11 DEF ProcDrain, ProcDrained, ProcLifeCycle
  <2>2. Len(queue') <= MaxQueueSize
    <3>1. queue' = queue \/ (queue # <<>> /\ queue' = Tail(queue))
      BY <1>11 DEF ProcDrain, ProcDrained
    <3>2. queue # <<>> => Len(Tail(queue)) = Len(queue) - 1
      BY <1>1
    <3> QED  BY <1>1, <3>1, <3>2, Sizes
  <2> QED  BY <1>3, <2>1, <2>2
<1>12. CASE ProcSent
  BY <1>1, <1>2, <1>3, <1>6, <1>12 DEF ProcSent
<1>13. CASE ProcFailed
  <2>1. /\ queue' = queue /\ stop' = stop
        /\ \/ batch' = batch /\ proc' = "store"
           \/ batch' = <<>>
    BY <1>13 DEF ProcFailed
  <2> QED  BY <1>1, <1>2, <1>3, <1>4, <1>6, <2>1
<1>14. CASE ProcStore
  <2>1. /\ queue' = queue /\ stop' = stop /\ batch' = Tail(batch) /\ batch # <<>>
        /\ (proc' = "store" \/ batch' = <<>>)
    BY <1>14 DEF ProcStore, ProcLifeCycle
  <2>2. Len(batch') = Len(batch) - 1
    BY <1>1, <2>1
  <2>3. Fits(batch) => Fits(batch')
    BY <1>1, <2>2, Sizes DEF Fits
  <2> QED  BY <1>1, <1>3, <1>4, <1>6, <2>1, <2>3
<1>15. CASE ProcTidy \/ ProcBeaten
  <2>1. UNCHANGED <<queue, stop, batch>> /\ batch = <<>>
    BY <1>15 DEF ProcTidy, ProcBeaten, ProcLifeCycle
  <2> QED  BY <1>1, <1>2, <1>3, <1>6, <2>1
<1>16. CASE Reboot
  <2>1. queue' = <<>> /\ batch' = <<>>
    BY <1>16 DEF Reboot
  <2> QED  BY <1>1, <1>2, <1>3, <1>6, <2>1, Sizes
<1>17. CASE StopClose \/ StopFinish
  BY <1>1, <1>3, <1>17 DEF StopClose, StopFinish
<1>18. ASSUME NEW m \in Msg, Publish(m) \/ StorePublished(m) \/ SentDirectly(m)
       PROVE  MemoryInv'
  BY <1>5, <1>18 DEF Publish, StorePublished, SentDirectly
<1>19. ASSUME NEW s \in Sender, SendMessages(s)
       PROVE  MemoryInv'
  BY <1>5, <1>19
     DEF SendMessages, Arrive, Succeed, Refuse, NetworkError,
         ServerError, GiveUp
<1>20. CASE RetStep
  BY <1>5, <1>20 DEF RetStep, RetTick, RetFetch, RetSent, RetFailed, RetDone
<1>21. CASE \/ Probe \/ Poll \/ NetChange \/ Tick \/ TetherDone \/ TetherStopped
            \/ \E g \in {"mon", "poll"} : Leave(g)
  BY <1>5, <1>21
     DEF Probe, Poll, NetChange, Tick, TetherDone, TetherStopped, TetherReturn,
         Leave
<1>22. CASE UNCHANGED vars
  BY <1>5, <1>22 DEF vars
<1> QED
  BY <1>7, <1>8, <1>9, <1>10, <1>11, <1>12, <1>13, <1>14, <1>15, <1>16, <1>17,
     <1>18, <1>19, <1>20, <1>21, <1>22, SenderFacts DEF Next, ProcStep
-----------------------------------------------------------------------------
(***************************************************************************)
(* The invariant.                                                          *)
(***************************************************************************)
LEMMA InitPInv == Init => PInv
<1> SUFFICES ASSUME Init PROVE PInv
  OBVIOUS
<1>1. IInv
  BY InitIInv
<1>2. queue = <<>> /\ batch = <<>> /\ DOMAIN bucket = {} /\ DOMAIN held = {}
  BY EmptyBucketType DEF Init
<1>3. Stored(bucket) = {} /\ Stored(held) = {} /\ OneEach(bucket)
  BY <1>2 DEF Stored, MessagesAt, OneEach
<1>4. OneCopy
  BY <1>2, <1>3, EmptyNoRepeat, CopyParts
<1>5. HeldAccepted
  BY <1>3 DEF HeldAccepted
<1>6. CallInv
  BY SenderFacts DEF Init, CallInv
<1>7. MemoryInv
  <2>1. Len(<<>>) = 0
    OBVIOUS
  <2> QED  BY <1>2, <2>1, Sizes DEF MemoryInv
<1> QED  BY <1>1, <1>4, <1>5, <1>6, <1>7 DEF PInv

LEMMA NextPInv == PInv /\ [Next]_vars => PInv'
<1> SUFFICES ASSUME PInv, [Next]_vars PROVE PInv'
  OBVIOUS
<1>1. IInv /\ IInv' /\ TypeOK /\ ProcLifeCycle
  BY NextIInv DEF PInv, IInv
<1>2. OneCopy' /\ HeldAccepted'
  BY <1>1, OneCopyStep, HeldStep DEF PInv
<1>3. CallInv' /\ MemoryInv'
  BY <1>1, CallStep, MemoryStep DEF PInv
<1> QED  BY <1>1, <1>2, <1>3 DEF PInv

LEMMA PInvariance == Spec => []PInv
BY InitPInv, NextPInv, PTL DEF Spec

\* A message has one copy at a time: whatever way it takes, the processor and
\* the retrier never both have it to send.
THEOREM OneCopyKept == Spec => []OneCopy
<1>1. PInv => OneCopy
  BY DEF PInv
<1> QED  BY PInvariance, <1>1, PTL

\* The queue and the batch are bounded by the configured sizes.
THEOREM MemoryCorrect == Spec => []MemoryBounded
<1>1. PInv => MemoryBounded
  BY DEF PInv, MemoryInv, MemoryBounded
<1> QED  BY PInvariance, <1>1, PTL
-----------------------------------------------------------------------------
(***************************************************************************)
(* What Publish stored.                                                    *)
(***************************************************************************)
\* What StoredUntilDelivered says of one step.
NanoStays ==
    \A k \in DOMAIN bucket :
       k.kind = "nano" =>
           \/ k \in DOMAIN bucket' /\ bucket'[k] = bucket[k]
           \/ bucket[k].msg \in Arrived
           \/ Expired(bucket[k], clock)

LEMMA NanoStep ==
    ASSUME IInv, [Next]_vars
    PROVE  NanoStays
<1> USE DEF appVars, procVars, retVars, dbVars, lifeVars, envVars
<1>1. TypeOK /\ NanoKeysUnique /\ AnswerMeansArrived /\ IsBucket(bucket)
  BY DEF IInv, TypeOK
<1>2. ASSUME bucket' = bucket
      PROVE  NanoStays
  BY <1>2 DEF NanoStays
<1>3. ASSUME NEW k, NEW m, bucket' = Put(bucket, k, m, clock),
             k \notin DOMAIN bucket \/ k.kind = "sec"
      PROVE  NanoStays
  <2>1. \A j \in DOMAIN bucket \ {k} : j \in DOMAIN bucket' /\ bucket'[j] = bucket[j]
    BY <1>3 DEF Put
  <2> QED  BY <1>3, <2>1 DEF NanoStays
<1>4. ASSUME NEW m \in Msg, StorePublished(m)
      PROVE  NanoStays
  <2>1. NanoKey(nano) \notin DOMAIN bucket
    BY <1>1, KeyFacts DEF NanoKeysUnique, TypeOK
  <2>2. bucket' = bucket \/ bucket' = Put(bucket, NanoKey(nano), m, clock)
    BY <1>4 DEF StorePublished
  <2> QED  BY <1>2, <1>3, <2>1, <2>2
<1>5. CASE ProcStore
  <2>1. bucket' = bucket \/ bucket' = Put(bucket, SecondKey(clock), Head(batch), clock)
    BY <1>5 DEF ProcStore
  <2> QED  BY <1>2, <1>3, <2>1, KeyFacts
<1>6. CASE ProcTidy
  <2>1. CASE bucket' \in CleanupExpired(bucket, clock)
    BY <1>1, <2>1, CleanupType DEF NanoStays
  <2> QED  BY <1>2, <1>6, <2>1 DEF ProcTidy
<1>7. CASE RetFetch
  <2> DEFINE read == GetBatch(bucket, RetryBatchSize)
             old  == ExpiredKeys(read, clock)
  <2>1. bucket' = DeleteBatch(bucket, old)
    BY <1>7 DEF RetFetch
  <2>2. \A k \in DOMAIN bucket \ old : k \in DOMAIN bucket' /\ bucket'[k] = bucket[k]
    BY <1>1, <2>1, DeleteType
  <2>3. \A k \in old : Expired(bucket[k], clock)
    BY <1>1, GetBatchType DEF ExpiredKeys
  <2> HIDE DEF old
  <2> QED  BY <2>2, <2>3 DEF NanoStays
<1>8. CASE RetSent
  <2>1. bucket' = DeleteBatch(bucket, DOMAIN held) /\ Stored(held) \subseteq Arrived
    BY <1>1, <1>8 DEF RetSent, AnswerMeansArrived
  <2>2. \A k \in DOMAIN bucket \ DOMAIN held :
           k \in DOMAIN bucket' /\ bucket'[k] = bucket[k]
    BY <1>1, <2>1, DeleteType
  <2>3. \A k \in DOMAIN bucket \cap DOMAIN held :
           k.kind = "nano" => bucket[k].msg \in Stored(held)
    BY <1>1 DEF NanoKeysUnique, Stored, MessagesAt
  <2> QED  BY <2>1, <2>2, <2>3 DEF NanoStays
<1>9. ASSUME NEW m \in Msg, Publish(m) \/ Enqueue(m) \/ SentDirectly(m)
      PROVE  NanoStays
  BY <1>2, <1>9 DEF Publish, Enqueue, SentDirectly
<1>10. ASSUME NEW s \in Sender, SendMessages(s)
       PROVE  NanoStays
  BY <1>2, <1>10
     DEF SendMessages, Arrive, Succeed, Refuse, NetworkError,
         ServerError, GiveUp
<1>11. CASE \/ ProcReceive \/ ProcTick \/ ProcDone \/ ProcDrain \/ ProcDrained
            \/ ProcSent \/ ProcFailed \/ ProcBeaten
            \/ RetTick \/ RetFailed \/ RetDone
  BY <1>2, <1>11
     DEF ProcReceive, ProcTick, ProcDone, ProcDrain, ProcDrained, ProcSent,
         ProcFailed, ProcBeaten, RetTick, RetFailed, RetDone
<1>12. CASE \/ Probe \/ Poll \/ NetChange \/ Tick \/ TetherDone \/ TetherStopped
            \/ StopClose \/ StopFinish \/ Reboot
            \/ \E g \in {"mon", "poll"} : Leave(g)
  BY <1>2, <1>12
     DEF Probe, Poll, NetChange, Tick, TetherDone, TetherStopped, TetherReturn,
         StopClose, StopFinish, Reboot, Leave
<1>13. CASE UNCHANGED vars
  BY <1>2, <1>13 DEF vars
<1> QED
  BY <1>4, <1>5, <1>6, <1>7, <1>8, <1>9, <1>10, <1>11, <1>12, <1>13, SenderFacts
     DEF Next, ProcStep, RetStep

\* What Publish put into the store stays there until the backend has it or its
\* hour is over: a replay deletes by key, and a nanosecond key still holds what
\* was replayed.
THEOREM StoredKept == Spec => StoredUntilDelivered
<1>1. IInv /\ [Next]_vars => NanoStays
  BY NanoStep
<1> QED
  BY <1>1, Invariance, PTL DEF Spec, StoredUntilDelivered, NanoStays
-----------------------------------------------------------------------------
(***************************************************************************)
(* The refinement of Outbox.                                               *)
(***************************************************************************)
OutboxNow == <<Accepted, Kept, Arrived, LostMsgs>>

\* Publish accepts m, and keeps it.
LEMMA Accepts ==
    ASSUME NEW m \in Msg, m \notin Accepted, m \notin Sync,
           Accepted' = Accepted \cup {m}, Kept' = Kept \cup {m},
           received' = received, lost' = lost
    PROVE  Promise!Accept(m)
<1>1. Arrived' = Arrived /\ LostMsgs' = LostMsgs
  BY DEF Arrived, LostMsgs
<1> QED  BY <1>1 DEF Promise!Accept

\* Copies go whose losses are recorded as T.
LEMMA Forgets ==
    ASSUME PInv, [Next]_vars, NEW T \in SUBSET Kept,
           Accepted' = Accepted, received' = received,
           Kept' \subseteq Kept, T \cap Kept' = {}, LostMsgs' = LostMsgs \cup T
    PROVE  \E S \in SUBSET Msg : Promise!Forget(S)
<1> DEFINE S == Kept \ Kept'
<1>1. Kept \subseteq Accepted /\ Accepted \subseteq Msg
  BY CopyParts DEF PInv, Kept, Accepted
<1>2. S \subseteq Arrived \cup LostMsgs'
  BY KeptStep DEF PInv, IInv
<1>3. T \in SUBSET S /\ S \in SUBSET Msg /\ Kept' = Kept \ S
  BY <1>1
<1>4. Arrived' = Arrived
  BY DEF Arrived
<1>5. Promise!Forget(S)
  BY <1>2, <1>3, <1>4 DEF Promise!Forget
<1> QED  BY <1>3, <1>5

\* What the parts of Kept say of it.
LEMMA KeptParts ==
    /\ Kept = Elements(queue) \cup Elements(batch) \cup Stored(bucket)
    /\ Kept' = Elements(queue') \cup Elements(batch') \cup Stored(bucket')
BY DEF Kept

LEMMA OutboxStep ==
    ASSUME PInv, PInv', [Next]_vars
    PROVE  [Promise!OutboxNext]_OutboxNow
<1> USE DEF appVars, procVars, retVars, dbVars, lifeVars, envVars
<1> DEFINE Goal == [Promise!OutboxNext]_OutboxNow
<1>1. /\ TypeOK /\ ProcLifeCycle /\ AnswerMeansArrived /\ DirectStaysDirect
      /\ NanoKeysUnique /\ IsBucket(bucket)
      /\ queue \in Seq(Msg) /\ batch \in Seq(Msg)
  BY DEF PInv, IInv, TypeOK
<1>2. /\ NoRepeat(queue) /\ NoRepeat(batch) /\ OneEach(bucket)
      /\ Elements(queue) \cap Elements(batch) = {}
      /\ (Elements(queue) \cup Elements(batch)) \cap Stored(bucket) = {}
      /\ Elements(queue) \cup Elements(batch) \cup Stored(bucket) \subseteq Accepted
  BY CopyParts DEF PInv
<1>3. ASSUME Accepted' = Accepted, Kept' = Kept, received' = received, lost' = lost
      PROVE  Goal
  <2>1. Arrived' = Arrived /\ LostMsgs' = LostMsgs
    BY <1>3 DEF Arrived, LostMsgs
  <2> QED  BY <1>3, <2>1 DEF OutboxNow
<1>4. ASSUME UNCHANGED <<pub, queue, batch, bucket, received, lost>>
      PROVE  Goal
  BY <1>3, <1>4 DEF Accepted, Kept
<1>5. ASSUME NEW T \in SUBSET Kept, Accepted' = Accepted, received' = received,
             Kept' \subseteq Kept, T \cap Kept' = {}, LostMsgs' = LostMsgs \cup T
      PROVE  Goal
  BY <1>5, Forgets DEF Promise!OutboxNext
<1>6. ASSUME NEW m \in Msg, Promise!Accept(m)
      PROVE  Goal
  BY <1>6 DEF Promise!OutboxNext
<1> SUFFICES Goal
  OBVIOUS
<1> HIDE DEF Goal
<1>7. pub' = pub => Accepted' = Accepted
  BY DEF Accepted
<1>8. ASSUME NEW m \in Msg, Publish(m)
      PROVE  Goal
  <2>1. Accepted' = Accepted
    BY <1>1, <1>8 DEF TypeOK, Publish, Accepted
  <2>2. Kept' = Kept
    BY <1>8 DEF Publish, Kept
  <2> QED  BY <1>3, <1>8, <2>1, <2>2 DEF Publish
<1>9. ASSUME NEW m \in Msg, Enqueue(m)
      PROVE  Goal
  <2>1. UNCHANGED <<batch, bucket, received, lost>> /\ m \notin Accepted
    BY <1>9 DEF Enqueue, Accepted
  <2>2. CASE queue' = queue /\ pub' = [pub EXCEPT ![m] =
                                          IF OfflineStorage THEN "store" ELSE "error"]
    <3>1. Accepted' = Accepted
      BY <1>1, <2>1, <2>2 DEF TypeOK, Accepted
    <3> QED  BY <1>3, <2>1, <2>2, <3>1 DEF Kept
  <2>3. CASE queue' = Append(queue, m) /\ pub' = [pub EXCEPT ![m] = "ok"]
    <3>1. Elements(queue') = Elements(queue) \cup {m}
      BY <1>1, <2>3, AppendElements
    <3>2. Kept' = Kept \cup {m}
      BY <2>1, <3>1, KeptParts
    <3>3. Accepted' = Accepted \cup {m}
      BY <1>1, <2>3 DEF TypeOK, Accepted
    <3>4. m \notin Sync
      BY <1>1, <1>9 DEF DirectStaysDirect, Enqueue
    <3> QED  BY <1>6, <2>1, <3>2, <3>3, <3>4, Accepts
  <2> QED  BY <1>9, <2>2, <2>3 DEF Enqueue
<1>10. ASSUME NEW m \in Msg, StorePublished(m)
       PROVE  Goal
  <2>1. UNCHANGED <<queue, batch, received, lost>> /\ m \notin Accepted
    BY <1>10 DEF StorePublished, Accepted
  <2>2. CASE bucket' = bucket /\ pub' = [pub EXCEPT ![m] = "error"]
    <3>1. Accepted' = Accepted
      BY <1>1, <2>1, <2>2 DEF TypeOK, Accepted
    <3> QED  BY <1>3, <2>1, <2>2, <3>1 DEF Kept
  <2>3. CASE /\ bucket' = Put(bucket, NanoKey(nano), m, clock)
             /\ pub' = [pub EXCEPT ![m] = "ok"]
    <3>1. NanoKey(nano) \notin DOMAIN bucket
      BY <1>1, KeyFacts DEF NanoKeysUnique, TypeOK
    <3>2. /\ DOMAIN bucket' = DOMAIN bucket \cup {NanoKey(nano)}
          /\ bucket'[NanoKey(nano)].msg = m
          /\ \A k \in DOMAIN bucket : bucket'[k] = bucket[k]
      BY <2>3, <3>1 DEF Put
    <3>3. Stored(bucket') = Stored(bucket) \cup {m}
      BY <3>2 DEF Stored, MessagesAt
    <3>4. Kept' = Kept \cup {m}
      BY <2>1, <3>3, KeptParts
    <3>5. Accepted' = Accepted \cup {m}
      BY <1>1, <2>3 DEF TypeOK, Accepted
    <3>6. m \notin Sync
      BY <1>1, <1>10 DEF DirectStaysDirect, StorePublished
    <3> QED  BY <1>6, <2>1, <3>4, <3>5, <3>6, Accepts
  <2> QED  BY <1>10, <2>2, <2>3 DEF StorePublished
<1>11. ASSUME NEW m \in Sync, SentDirectly(m)
       PROVE  Goal
  <2>1. /\ UNCHANGED <<queue, batch, bucket, received, lost>>
        /\ m \in Msg /\ m \notin Accepted
    BY <1>11, SenderFacts DEF SentDirectly, Accepted
  <2>2. Kept' = Kept /\ Arrived' = Arrived /\ LostMsgs' = LostMsgs
    BY <2>1 DEF Kept, Arrived, LostMsgs
  <2>3. CASE http[m] = "ok"
    <3>1. Accepted' = Accepted \cup {m}
      BY <1>1, <1>11, <2>1, <2>3 DEF TypeOK, SentDirectly, Accepted
    <3>2. m \in Arrived
      BY <1>1, <2>3 DEF AnswerMeansArrived
    <3>3. Promise!Accept(m)
      BY <2>1, <2>2, <3>1, <3>2 DEF Promise!Accept
    <3> QED  BY <1>6, <2>1, <3>3
  <2>4. CASE http[m] # "ok"
    <3>1. Accepted' = Accepted
      BY <1>1, <1>11, <2>1, <2>4 DEF TypeOK, SentDirectly, Accepted
    <3> QED  BY <1>3, <2>1, <2>2, <3>1
  <2> QED  BY <2>3, <2>4
<1>12. ASSUME NEW s \in Sender, Arrive(s)
       PROVE  Goal
  <2>1. UNCHANGED <<pub, queue, batch, bucket, lost>>
    BY <1>12 DEF Arrive
  <2>2. Accepted' = Accepted /\ Kept' = Kept /\ LostMsgs' = LostMsgs
    BY <2>1 DEF Accepted, Kept, LostMsgs
  <2>3. Payload(s) \subseteq Accepted \cup Sync
    BY <1>2 DEF Payload, Sender, PInv, HeldAccepted
  <2>4. Arrived' = Arrived \cup Payload(s)
    <3>1. \A w \in received' : w \in received \/ w.msg \in Payload(s)
      BY <1>12 DEF Arrive, Wire
    <3>2. Arrived' \subseteq Arrived \cup Payload(s)
      BY <3>1 DEF Arrived
    <3> QED  BY <1>12, <3>2, ArrivePayload, ArrivedGrows
  <2>5. Payload(s) \in SUBSET Msg
    BY <1>1, PayloadType
  <2>6. Promise!Deliver(Payload(s))
    BY <2>2, <2>3, <2>4 DEF Promise!Deliver
  <2> QED  BY <2>5, <2>6 DEF Goal, Promise!OutboxNext
<1>13. ASSUME NEW s \in Sender,
              \/ Succeed(s) \/ Refuse(s) \/ NetworkError(s) \/ ServerError(s)
              \/ GiveUp(s)
       PROVE  Goal
  BY <1>4, <1>13 DEF Succeed, Refuse, NetworkError, ServerError, GiveUp
<1>14. CASE ProcReceive \/ ProcDrain
  <2> DEFINE m == Head(queue)
  <2>1. /\ queue # <<>> /\ queue' = Tail(queue) /\ batch' = Append(batch, m)
        /\ UNCHANGED <<pub, bucket, received, lost>>
    BY <1>14 DEF ProcReceive, ProcDrain, ProcSend
  <2>2. m \in Msg /\ Elements(queue) = {m} \cup Elements(queue')
    BY <1>1, <2>1, TailElements
  <2>3. Elements(batch') = Elements(batch) \cup {m}
    BY <1>1, <2>1, <2>2, AppendElements
  <2> HIDE DEF m
  <2>4. Kept' = Kept
    BY <2>1, <2>2, <2>3, KeptParts
  <2> QED  BY <1>3, <1>7, <2>1, <2>4
<1>15. CASE ProcTick \/ ProcDone \/ ProcDrained \/ ProcBeaten
  BY <1>4, <1>15 DEF ProcTick, ProcDone, ProcDrained, ProcBeaten, ProcSend
<1>16. ASSUME UNCHANGED <<pub, queue, bucket, received>>, batch' = <<>>,
              LostMsgs' \in {LostMsgs, LostMsgs \cup Elements(batch)}
       PROVE  Goal
  <2>1. Kept' = Elements(queue) \cup Stored(bucket)
    BY <1>16, EmptyNoRepeat, KeptParts
  <2>2. Kept' \subseteq Kept /\ Elements(batch) \cap Kept' = {}
    BY <1>2, <2>1, KeptParts
  <2>3. PICK T \in {{}, Elements(batch)} : LostMsgs' = LostMsgs \cup T
    BY <1>16
  <2>4. T \in SUBSET Kept
    BY <2>3, KeptParts
  <2> QED  BY <1>5, <1>7, <1>16, <2>2, <2>3, <2>4
<1>17. CASE ProcSent
  BY <1>16, <1>17 DEF ProcSent, LostMsgs
<1>18. CASE ProcFailed
  <2>1. CASE UNCHANGED <<batch, lost>>
    BY <1>4, <1>18, <2>1 DEF ProcFailed
  <2>2. CASE batch' = <<>> /\ Lose(Elements(batch), "dropped")
    BY <1>16, <1>18, <2>2, LostGrows DEF ProcFailed
  <2> QED  BY <1>18, <2>1, <2>2 DEF ProcFailed
<1>19. CASE ProcStore
  <2> DEFINE m == Head(batch)
             k == SecondKey(clock)
             over == MessagesAt(bucket, {k} \cap DOMAIN bucket)
  <2>1. batch # <<>> /\ batch' = Tail(batch) /\ UNCHANGED <<pub, queue, received>>
    BY <1>1, <1>19 DEF ProcStore, ProcLifeCycle
  <2>2. m \in Msg /\ Elements(batch) = {m} \cup Elements(batch')
    BY <1>1, <2>1, TailElements
  <2>3. m \notin Elements(batch')
    BY <1>1, <1>2, <2>1, TailNoRepeat
  <2>4. m \notin Elements(queue) /\ m \notin Stored(bucket) /\ m \in Kept
    BY <1>2, <2>2, KeptParts
  <2>5. CASE bucket' = bucket /\ \E r : Lose({m}, r)
    <3>1. LostMsgs' = LostMsgs \cup {m}
      BY <2>5, LostGrows
    <3> HIDE DEF m
    <3>2. Kept' \subseteq Kept /\ {m} \cap Kept' = {}
      BY <2>1, <2>2, <2>3, <2>4, <2>5, KeptParts
    <3> QED  BY <1>5, <1>7, <2>1, <2>4, <3>1, <3>2
  <2>6. CASE bucket' = Put(bucket, k, m, clock) /\ Lose(over, "overwritten")
    <3>1. LostMsgs' = LostMsgs \cup over
      BY <2>6, LostGrows
    <3>2. /\ DOMAIN bucket' = DOMAIN bucket \cup {k}
          /\ bucket'[k].msg = m
          /\ \A j \in DOMAIN bucket \ {k} : bucket'[j] = bucket[j]
      BY <2>6 DEF Put
    <3>3. over \subseteq Stored(bucket)
      BY DEF Stored, MessagesAt
    <3>4. Stored(bucket') \subseteq Stored(bucket) \cup {m}
      BY <3>2 DEF Stored, MessagesAt
    <3>5. over \cap Stored(bucket') = {}
      BY <1>2, <2>4, <3>2, <3>3 DEF OneEach, Stored, MessagesAt
    <3> HIDE DEF m, over
    <3>6. Kept' \subseteq Kept
      BY <2>1, <2>2, <2>4, <3>4, KeptParts
    <3>7. over \cap Kept' = {} /\ over \in SUBSET Kept
      BY <1>2, <2>1, <2>2, <3>3, <3>5, KeptParts
    <3> QED  BY <1>5, <1>7, <2>1, <3>1, <3>6, <3>7
  <2> QED  BY <1>19, <2>5, <2>6 DEF ProcStore
<1>20. ASSUME UNCHANGED <<pub, queue, batch, received>>, Part(bucket', bucket),
              NEW ks \in SUBSET (DOMAIN bucket \ DOMAIN bucket'), NEW r,
              Lose(MessagesAt(bucket, ks), r)
       PROVE  Goal
  <2>1. /\ Stored(bucket') \subseteq Stored(bucket)
        /\ MessagesAt(bucket, ks) \cap Stored(bucket') = {}
        /\ MessagesAt(bucket, ks) \subseteq Stored(bucket)
    BY <1>2, <1>20, PartOne
  <2>2. LostMsgs' = LostMsgs \cup MessagesAt(bucket, ks)
    BY <1>20, LostGrows
  <2>3. Kept' \subseteq Kept /\ MessagesAt(bucket, ks) \in SUBSET Kept
    BY <1>20, <2>1, KeptParts
  <2>4. MessagesAt(bucket, ks) \cap Kept' = {}
    BY <1>2, <1>20, <2>1, KeptParts
  <2> QED  BY <1>5, <1>7, <1>20, <2>2, <2>3, <2>4
<1>21. CASE ProcTidy
  <2>1. UNCHANGED <<pub, queue, batch, received>>
    BY <1>21 DEF ProcTidy
  <2>2. CASE UNCHANGED <<bucket, lost>>
    BY <1>4, <2>1, <2>2
  <2>3. CASE /\ bucket' \in CleanupExpired(bucket, clock)
             /\ Lose(MessagesAt(bucket, DOMAIN bucket \ DOMAIN bucket'), "expired")
    <3>1. Part(bucket', bucket)
      BY <1>1, <2>3, CleanupType DEF Part
    <3> QED  BY <1>20, <2>1, <2>3, <3>1
  <2> QED  BY <1>21, <2>2, <2>3 DEF ProcTidy
<1>22. CASE RetFetch
  <2> DEFINE read == GetBatch(bucket, RetryBatchSize)
             old  == ExpiredKeys(read, clock)
  <2>1. /\ UNCHANGED <<pub, queue, batch, received>>
        /\ bucket' = DeleteBatch(bucket, old)
        /\ Lose(MessagesAt(read, old), "expired")
    BY <1>22 DEF RetFetch
  <2>2. /\ old \subseteq DOMAIN read /\ DOMAIN read \subseteq DOMAIN bucket
        /\ \A j \in old : read[j] = bucket[j]
    BY <1>1, GetBatchType DEF ExpiredKeys
  <2>3. MessagesAt(read, old) = MessagesAt(bucket, old)
    BY <2>2 DEF MessagesAt
  <2>4. Part(bucket', bucket) /\ DOMAIN bucket' = DOMAIN bucket \ old
    BY <1>1, <2>1, DeletePart, DeleteType
  <2>5. old \in SUBSET (DOMAIN bucket \ DOMAIN bucket')
    BY <2>2, <2>4
  <2> QED  BY <1>20, <2>1, <2>3, <2>4, <2>5
<1>23. CASE RetSent
  <2> DEFINE other == {k \in DOMAIN held \cap DOMAIN bucket :
                          bucket[k] # held[k]}
  <2>1. /\ UNCHANGED <<pub, queue, batch, received>>
        /\ bucket' = DeleteBatch(bucket, DOMAIN held)
        /\ Lose(MessagesAt(bucket, other), "wiped")
    BY <1>23 DEF RetSent
  <2>2. Part(bucket', bucket) /\ DOMAIN bucket' = DOMAIN bucket \ DOMAIN held
    BY <1>1, <2>1, DeletePart, DeleteType
  <2>3. other \in SUBSET (DOMAIN bucket \ DOMAIN bucket')
    BY <2>2
  <2> HIDE DEF other
  <2> QED  BY <1>20, <2>1, <2>2, <2>3
<1>24. CASE Reboot
  <2> DEFINE T == Elements(queue) \cup Elements(batch)
  <2>1. UNCHANGED <<bucket, received>> /\ queue' = <<>> /\ batch' = <<>>
    BY <1>24 DEF Reboot
  <2>2. Accepted' = Accepted
    <3>1. \A m \in Msg : pub'[m] = IF pub[m] \in InProgress THEN "error" ELSE pub[m]
      BY <1>24 DEF Reboot
    <3> QED  BY <3>1 DEF Accepted, InProgress
  <2>3. LostMsgs' = LostMsgs \cup T
    BY <1>24, LostGrows DEF Reboot
  <2>4. Kept' = Stored(bucket)
    BY <2>1, EmptyNoRepeat, KeptParts
  <2>5. Kept' \subseteq Kept /\ T \in SUBSET Kept /\ T \cap Kept' = {}
    BY <1>2, <2>4, KeptParts
  <2> HIDE DEF T
  <2> QED  BY <1>5, <2>1, <2>2, <2>3, <2>5
<1>25. CASE \/ RetTick \/ RetFailed \/ RetDone
            \/ Probe \/ Poll \/ NetChange \/ Tick \/ TetherDone \/ TetherStopped
            \/ StopClose \/ StopFinish \/ \E g \in {"mon", "poll"} : Leave(g)
  BY <1>4, <1>25
     DEF RetTick, RetFailed, RetDone, Probe, Poll, NetChange, Tick, TetherDone,
         TetherStopped, TetherReturn, StopClose, StopFinish, Leave
<1>26. CASE UNCHANGED vars
  BY <1>4, <1>26 DEF vars
<1>27. CASE \E s \in Sender : SendMessages(s)
  BY <1>12, <1>13, <1>27 DEF SendMessages
<1>28. CASE ProcStep
  BY <1>14, <1>15, <1>17, <1>18, <1>19, <1>21, <1>28 DEF ProcStep
<1> QED
  BY <1>8, <1>9, <1>10, <1>11, <1>22, <1>23, <1>24, <1>25, <1>26, <1>27, <1>28
     DEF Next, RetStep

\* Delivery implements Outbox: whatever the goroutines, the faults and the
\* crashes do, and for every size and switch, an accepted message is kept until
\* the backend has it or its loss is on record.
THEOREM OutboxImplemented == Spec => ImplementsOutbox
<1>1. Init => Promise!OutboxInit
  <2> SUFFICES ASSUME Init PROVE Promise!OutboxInit
    OBVIOUS
  <2>1. /\ queue = <<>> /\ batch = <<>> /\ DOMAIN bucket = {}
        /\ received = {} /\ lost = {} /\ \A m \in Msg : pub[m] = "idle"
    BY EmptyBucketType DEF Init
  <2>2. Accepted = {} /\ Kept = {} /\ Arrived = {} /\ LostMsgs = {}
    BY <2>1, EmptyNoRepeat DEF Accepted, Kept, Stored, MessagesAt, Arrived, LostMsgs
  <2> QED  BY <2>2 DEF Promise!OutboxInit
<1>2. PInv /\ PInv' /\ [Next]_vars => [Promise!OutboxNext]_OutboxNow
  BY OutboxStep
<1>3. OutboxNow = Promise!outboxVars
  BY DEF OutboxNow, Promise!outboxVars
<1> QED
  BY <1>1, <1>2, <1>3, PInvariance, PTL
     DEF Spec, ImplementsOutbox, Promise!OutboxSpec, OutboxNow, Promise!outboxVars
-----------------------------------------------------------------------------
(***************************************************************************)
(* The use of sendMessages.                                                *)
(***************************************************************************)
\* One call moves: the moves Calls allows.
LEMMA CallMoves ==
    ASSUME TypeOK, NEW s \in Sender, NEW to, http' = [http EXCEPT ![s] = to],
           \/ http[s] = "idle" /\ to \in {"unread", "failed"}
           \/ http[s] \in {"unread", "read"} /\ to = "accepted"
           \/ http[s] \in {"unread", "accepted"} /\ to = "read"
           \/ http[s] = "accepted" /\ to = "ok"
           \/ http[s] \in {"unread", "accepted", "read"} /\ to = "failed"
           \/ http[s] \in {"ok", "failed"} /\ to = "idle"
    PROVE  Service!CallsNext
BY DEF Service!CallsNext, Service!Move

LEMMA CallsStep ==
    ASSUME IInv, CallInv, [Next]_vars
    PROVE  [Service!CallsNext]_http
<1> USE DEF appVars, procVars, retVars, dbVars, lifeVars, envVars
<1>1. TypeOK /\ ProcLifeCycle /\ RetLifeCycle
  BY DEF IInv
<1>2. "proc" \in Sender /\ "ret" \in Sender
  BY SenderFacts
<1> DEFINE Goal == Service!CallsNext \/ http' = http
<1> SUFFICES Goal
  OBVIOUS
<1>3. \A ms : Begin(ms) \in {"unread", "failed"}
  BY BeginType
<1>4. http \in [Sender -> HttpState]
  BY <1>1 DEF TypeOK
<1>5. ASSUME NEW m \in Msg, Publish(m)
      PROVE  Goal
  <2>1. CASE m \in Sync
    <3>1. m \in Sender /\ http[m] = "idle"
      BY <1>5, <2>1, SenderFacts DEF Publish, CallInv
    <3>2. http' = [http EXCEPT ![m] = Begin({m})]
      BY <1>5, <2>1 DEF Publish
    <3> QED  BY <1>1, <1>3, <3>1, <3>2, CallMoves
  <2> QED  BY <1>5, <2>1 DEF Publish
<1>6. ASSUME NEW m \in Sync, SentDirectly(m)
      PROVE  Goal
  <2>1. m \in Sender /\ http[m] \in {"ok", "failed"} /\ http' = [http EXCEPT ![m] = "idle"]
    BY <1>6, SenderFacts DEF SentDirectly
  <2> QED  BY <1>1, <2>1, CallMoves
<1>7. ASSUME NEW s \in Sender, SendMessages(s)
      PROVE  Goal
  <2>1. CASE Arrive(s)
    BY <1>1, <2>1, CallMoves DEF Arrive
  <2>2. CASE Succeed(s)
    BY <1>1, <2>2, CallMoves DEF Succeed
  <2>3. CASE Refuse(s)
    BY <1>1, <2>3, CallMoves DEF Refuse
  <2>4. CASE GiveUp(s)
    BY <1>1, <2>4, CallMoves DEF GiveUp
  <2>5. CASE NetworkError(s)
    <3>1. CASE http[s] = "accepted"
      <4>1. http' = [http EXCEPT ![s] = "read"]
        BY <2>5, <3>1 DEF NetworkError
      <4> QED  BY <1>1, <3>1, <4>1, CallMoves
    <3>2. CASE http[s] \in {"unread", "read"}
      BY <1>4, <2>5, <3>2 DEF NetworkError
    <3> QED  BY <2>5, <3>1, <3>2 DEF NetworkError
  <2>6. CASE ServerError(s)
    <3>1. http' = [http EXCEPT ![s] = "read"] /\ http[s] \in {"unread", "read"}
      BY <2>6 DEF ServerError
    <3>2. CASE http[s] = "unread"
      BY <1>1, <3>1, <3>2, CallMoves
    <3>3. CASE http[s] = "read"
      BY <1>4, <3>1, <3>3
    <3> QED  BY <3>1, <3>2, <3>3
  <2> QED  BY <1>7, <2>1, <2>2, <2>3, <2>4, <2>5, <2>6 DEF SendMessages
<1>8. CASE ProcReceive \/ ProcTick \/ ProcDrained \/ ProcTidy
  <2>1. http["proc"] = "idle"
    BY <1>1, <1>8
       DEF ProcReceive, ProcTick, ProcDrained, ProcTidy, ProcLifeCycle
  <2>2. \/ http' = http
        \/ \E ms : http' = [http EXCEPT !["proc"] = Begin(ms)]
    BY <1>8 DEF ProcReceive, ProcTick, ProcDrained, ProcTidy, ProcSend
  <2> QED  BY <1>1, <1>2, <1>3, <2>1, <2>2, CallMoves
<1>9. CASE ProcSent \/ ProcFailed \/ ProcBeaten
  <2>1. http["proc"] \in {"ok", "failed"} /\ http' = [http EXCEPT !["proc"] = "idle"]
    BY <1>9 DEF ProcSent, ProcFailed, ProcBeaten
  <2> QED  BY <1>1, <1>2, <2>1, CallMoves
<1>10. CASE RetFetch
  <2>1. http["ret"] = "idle"
    BY <1>1, <1>10 DEF RetFetch, RetLifeCycle
  <2>2. http' = http \/ http' = [http EXCEPT !["ret"] = "unread"]
    BY <1>10 DEF RetFetch
  <2> QED  BY <1>1, <1>2, <2>1, <2>2, CallMoves
<1>11. CASE RetSent \/ RetFailed
  <2>1. http["ret"] \in {"ok", "failed"} /\ http' = [http EXCEPT !["ret"] = "idle"]
    BY <1>11 DEF RetSent, RetFailed
  <2> QED  BY <1>1, <1>2, <2>1, CallMoves
<1>12. CASE Reboot
  BY <1>12 DEF Reboot, Service!CallsNext
<1>13. ASSUME NEW m \in Msg, Enqueue(m) \/ StorePublished(m)
       PROVE  Goal
  BY <1>13 DEF Enqueue, StorePublished
<1>14. CASE \/ ProcDone \/ ProcDrain \/ ProcStore \/ RetTick \/ RetDone
            \/ Probe \/ Poll \/ NetChange \/ Tick \/ TetherDone \/ TetherStopped
            \/ StopClose \/ StopFinish \/ \E g \in {"mon", "poll"} : Leave(g)
  BY <1>14
     DEF ProcDone, ProcDrain, ProcStore, RetTick, RetDone, Probe, Poll,
         NetChange, Tick, TetherDone, TetherStopped, TetherReturn,
         StopClose, StopFinish, Leave
<1>15. CASE UNCHANGED vars
  BY <1>15 DEF vars
<1> QED
  BY <1>5, <1>6, <1>7, <1>8, <1>9, <1>10, <1>11, <1>12, <1>13, <1>14, <1>15
     DEF Next, ProcStep, RetStep

\* Publish, the processor and the retrier use sendMessages as Calls offers it,
\* the interface LoopImplementsCalls of SendProofs shows the loop to implement:
\* one call at a time, and its result taken once.
THEOREM CallsUsed == Spec => UsesCalls
<1>1. Init => Service!CallsInit
  BY DEF Init, Service!CallsInit
<1>2. PInv /\ [Next]_vars => [Service!CallsNext]_http
  BY CallsStep DEF PInv
<1> QED
  BY <1>1, <1>2, PInvariance, PTL DEF Spec, UsesCalls, Service!CallsSpec
=============================================================================
