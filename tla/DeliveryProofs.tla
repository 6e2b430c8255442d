--------------------------- MODULE DeliveryProofs ---------------------------
(***************************************************************************)
(* Proofs of the safety properties of Delivery, for every value of its     *)
(* constants.                                                              *)
(***************************************************************************)
EXTENDS DeliveryInv, TLAPS, SequenceTheorems

-----------------------------------------------------------------------------
(***************************************************************************)
(* The operators of Storage.                                               *)
(***************************************************************************)
LEMMA EmptyBucketType == IsBucket(EmptyBucket) /\ DOMAIN EmptyBucket = {}
BY DEF IsBucket, EmptyBucket

LEMMA PutType ==
    ASSUME NEW b, IsBucket(b), NEW k \in Key, NEW m \in Msg, NEW now \in Nat
    PROVE  /\ IsBucket(Put(b, k, m, now))
           /\ DOMAIN Put(b, k, m, now) = DOMAIN b \cup {k}
           /\ Put(b, k, m, now)[k] = [msg |-> m, ts |-> now]
           /\ \A j \in DOMAIN b \ {k} : Put(b, k, m, now)[j] = b[j]
BY DEF IsBucket, Put, Entry

LEMMA DeleteType ==
    ASSUME NEW b, IsBucket(b), NEW ids
    PROVE  /\ IsBucket(DeleteBatch(b, ids))
           /\ DOMAIN DeleteBatch(b, ids) = DOMAIN b \ ids
           /\ \A j \in DOMAIN b \ ids : DeleteBatch(b, ids)[j] = b[j]
BY DEF IsBucket, DeleteBatch, Restrict

LEMMA DeleteKeeps ==
    \A b, ids :
        /\ DOMAIN DeleteBatch(b, ids) = DOMAIN b \ ids
        /\ \A j \in DOMAIN DeleteBatch(b, ids) :
              j \in DOMAIN b \ ids /\ DeleteBatch(b, ids)[j] = b[j]
BY DEF DeleteBatch, Restrict

LEMMA GetBatchType ==
    ASSUME NEW b, IsBucket(b), NEW limit
    PROVE  /\ IsBucket(GetBatch(b, limit))
           /\ DOMAIN GetBatch(b, limit) \subseteq DOMAIN b
           /\ \A j \in DOMAIN GetBatch(b, limit) : GetBatch(b, limit)[j] = b[j]
BY DEF IsBucket, GetBatch, Restrict

LEMMA CleanupType ==
    ASSUME NEW b, IsBucket(b), NEW now, NEW c \in CleanupExpired(b, now)
    PROVE  /\ IsBucket(c)
           /\ DOMAIN c \subseteq DOMAIN b
           /\ \A j \in DOMAIN c : c[j] = b[j]
           /\ \A j \in DOMAIN b \ DOMAIN c : Expired(b[j], now)
<1>1. PICK ids \in SUBSET ExpiredKeys(b, now) : c = DeleteBatch(b, ids)
  BY DEF CleanupExpired
<1>2. /\ IsBucket(c)
      /\ DOMAIN c = DOMAIN b \ ids
      /\ \A j \in DOMAIN b \ ids : c[j] = b[j]
  BY <1>1, DeleteType
<1>3. \A j \in ids : Expired(b[j], now)
  BY <1>1 DEF ExpiredKeys
<1>4. QED  BY <1>2, <1>3

LEMMA StoredType ==
    ASSUME NEW b, IsBucket(b)
    PROVE  /\ Stored(b) \subseteq Msg
           /\ \A k \in DOMAIN b : b[k].msg \in Stored(b) /\ b[k] \in Entry
           /\ \A ks \in SUBSET DOMAIN b : MessagesAt(b, ks) \subseteq Msg
BY DEF IsBucket, Stored, MessagesAt, Entry

(***************************************************************************)
(* Sequences of messages.                                                  *)
(***************************************************************************)
LEMMA AppendElements ==
    ASSUME NEW s \in Seq(Msg), NEW m \in Msg
    PROVE  /\ Append(s, m) \in Seq(Msg)
           /\ Append(s, m) # <<>>
           /\ Elements(Append(s, m)) = Elements(s) \cup {m}
<1>1. /\ Append(s, m) \in Seq(Msg)
      /\ Len(Append(s, m)) = Len(s) + 1
      /\ Append(s, m)[Len(s) + 1] = m
      /\ \A i \in 1..Len(s) : Append(s, m)[i] = s[i]
  OBVIOUS
<1>2. DOMAIN s = 1..Len(s) /\ DOMAIN Append(s, m) = 1..(Len(s) + 1) /\ Len(s) \in Nat
  BY <1>1
<1>3. Elements(Append(s, m)) = Elements(s) \cup {m}
  BY <1>1, <1>2 DEF Elements
<1>4. QED  BY <1>1, <1>3

LEMMA TailElements ==
    ASSUME NEW s \in Seq(Msg), s # <<>>
    PROVE  /\ Head(s) \in Msg
           /\ Tail(s) \in Seq(Msg)
           /\ Elements(s) = {Head(s)} \cup Elements(Tail(s))
<1>1. /\ Head(s) \in Msg /\ Head(s) = s[1]
      /\ Tail(s) \in Seq(Msg)
      /\ Len(s) \in Nat \ {0}
      /\ Len(Tail(s)) = Len(s) - 1
      /\ \A i \in 1..(Len(s) - 1) : Tail(s)[i] = s[i + 1]
  OBVIOUS
<1>2. DOMAIN s = 1..Len(s) /\ DOMAIN Tail(s) = 1..(Len(s) - 1)
  BY <1>1
<1>3. Elements(s) \subseteq {Head(s)} \cup Elements(Tail(s))
  <2>1. SUFFICES ASSUME NEW i \in 1..Len(s), i # 1
                 PROVE  s[i] \in Elements(Tail(s))
    BY <1>1, <1>2 DEF Elements
  <2>2. i - 1 \in 1..(Len(s) - 1) /\ Tail(s)[i - 1] = s[i]
    BY <1>1, <2>1
  <2>3. QED  BY <1>2, <2>2 DEF Elements
<1>4. {Head(s)} \cup Elements(Tail(s)) \subseteq Elements(s)
  <2>1. \A i \in 1..(Len(s) - 1) : i + 1 \in 1..Len(s) /\ Tail(s)[i] = s[i + 1]
    BY <1>1
  <2>2. 1 \in 1..Len(s)
    BY <1>1
  <2>3. QED  BY <1>1, <1>2, <2>1, <2>2 DEF Elements
<1>5. QED  BY <1>1, <1>3, <1>4

LEMMA ElementsType ==
    /\ <<>> \in Seq(Msg)
    /\ Elements(<<>>) = {}
    /\ \A s \in Seq(Msg) : Elements(s) \subseteq Msg
BY DEF Elements
-----------------------------------------------------------------------------
(***************************************************************************)
(* Type correctness.                                                       *)
(***************************************************************************)
LEMMA SenderFacts ==
    /\ "proc" \in Sender
    /\ "ret" \in Sender
    /\ \A m \in Sync : m \in Sender /\ m \in Msg
    /\ \A m \in Msg : m # "proc" /\ m # "ret"
BY DeliveryAssumption DEF Sender

LEMMA BeginType == \A ms : Begin(ms) \in {"unread", "failed"}
BY DEF Begin

LEMMA PayloadType ==
    ASSUME TypeOK, NEW s \in Sender
    PROVE  Payload(s) \subseteq Msg
<1>1. Elements(batch) \subseteq Msg /\ Stored(held) \subseteq Msg
  BY ElementsType, StoredType DEF TypeOK
<1>2. QED  BY <1>1, DeliveryAssumption DEF Payload, Sender

LEMMA LoseType ==
    ASSUME TypeOK, NEW ms \in SUBSET Msg, NEW r \in Reason, Lose(ms, r)
    PROVE  /\ lost' \subseteq Msg \X Reason
           /\ LostMsgs' = LostMsgs \cup ms
<1>1. lost' \subseteq Msg \X Reason
  BY DEF TypeOK, Lose
<1>2. \A m : m \in LostMsgs' <=> m \in LostMsgs \/ m \in ms
  <2>1. \A l \in ms \X {r} : l[1] \in ms
    OBVIOUS
  <2>2. \A m \in ms : <<m, r>> \in ms \X {r} /\ <<m, r>>[1] = m
    OBVIOUS
  <2>3. QED  BY <2>1, <2>2 DEF Lose, LostMsgs
<1>3. QED  BY <1>1, <1>2

LEMMA TypeInit == Init => TypeOK
<1>1. SUFFICES ASSUME Init PROVE TypeOK
  OBVIOUS
<1>2. IsBucket(bucket) /\ IsBucket(held)
  BY <1>1, EmptyBucketType DEF Init
<1>3. queue \in Seq(Msg) /\ batch \in Seq(Msg)
  BY <1>1 DEF Init
<1>4. QED
  BY <1>1, <1>2, <1>3, DeliveryAssumption
     DEF Init, TypeOK, HttpState, InProgress

LEMMA TypeSend ==
    ASSUME TypeOK, NEW s \in Sender, SendMessages(s)
    PROVE  TypeOK'
<1> USE DEF appVars, procVars, retVars, dbVars, lifeVars, envVars, HttpState
<1>1. CASE Arrive(s)
  <2>1. received' \subseteq [msg : Msg, dest : BOOLEAN, data : {"object", "text"}]
    <3>1. \A m \in Msg : Wire(m, s = "ret") \in
             [msg : Msg, dest : BOOLEAN, data : {"object", "text"}]
      BY DEF Wire
    <3>2. QED  BY <1>1, <3>1, PayloadType DEF TypeOK, Arrive
  <2>2. QED  BY <1>1, <2>1 DEF TypeOK, Arrive
<1>2. CASE Succeed(s)
  BY <1>2 DEF TypeOK, Succeed
<1>3. CASE NetworkError(s)
  BY <1>3 DEF TypeOK, NetworkError
<1>4. CASE ServerError(s)
  BY <1>4 DEF TypeOK, ServerError
<1>5. CASE GiveUp(s)
  BY <1>5 DEF TypeOK, GiveUp
<1>6. CASE Refuse(s)
  BY <1>6 DEF TypeOK, Refuse
<1>7. QED  BY <1>1, <1>2, <1>3, <1>4, <1>5, <1>6 DEF SendMessages

LEMMA TypePublish ==
    ASSUME TypeOK, NEW m \in Msg,
           Publish(m) \/ Enqueue(m) \/ StorePublished(m) \/ SentDirectly(m)
    PROVE  TypeOK'
<1> USE DEF appVars, procVars, retVars, dbVars, lifeVars, envVars, HttpState,
            InProgress
<1>1. CASE Publish(m)
  BY <1>1, BeginType DEF TypeOK, Publish
<1>2. CASE Enqueue(m)
  BY <1>2, AppendElements DEF TypeOK, Enqueue
<1>3. CASE StorePublished(m)
  <2>1. NanoKey(nano) \in Key /\ clock \in Nat
    BY DeliveryAssumption DEF TypeOK, NanoKey, Key
  <2>2. IsBucket(bucket') /\ nano' \in Nat
    <3>1. nano \in Nat /\ IsBucket(bucket)
      BY DEF TypeOK
    <3>2. IsBucket(Put(bucket, NanoKey(nano), m, clock))
      BY <2>1, <3>1, PutType
    <3>3. QED  BY <1>3, <3>1, <3>2 DEF StorePublished
  <2>3. QED  BY <1>3, <2>2 DEF TypeOK, StorePublished
<1>4. CASE SentDirectly(m)
  BY <1>4 DEF TypeOK, SentDirectly
<1>5. QED  BY <1>1, <1>2, <1>3, <1>4

LEMMA TypeProc ==
    ASSUME TypeOK, batch # <<>> \/ proc # "store", ProcStep
    PROVE  TypeOK'
<1> USE DEF appVars, procVars, retVars, dbVars, lifeVars, envVars, HttpState
<1>1. CASE ProcReceive
  <2>1. queue' \in Seq(Msg) /\ Append(batch, Head(queue)) \in Seq(Msg)
    BY <1>1, TailElements, AppendElements DEF TypeOK, ProcReceive
  <2>2. QED  BY <1>1, <2>1, BeginType DEF TypeOK, ProcReceive, ProcSend
<1>2. CASE ProcTick
  BY <1>2, BeginType DEF TypeOK, ProcTick, ProcSend
<1>3. CASE ProcDone
  BY <1>3 DEF TypeOK, ProcDone
<1>4. CASE ProcDrain
  <2>1. queue' \in Seq(Msg) /\ batch' \in Seq(Msg)
    BY <1>4, TailElements, AppendElements DEF TypeOK, ProcDrain
  <2>2. QED  BY <1>4, <2>1 DEF TypeOK, ProcDrain
<1>5. CASE ProcDrained
  BY <1>5, BeginType DEF TypeOK, ProcDrained, ProcSend, ProcExit
<1>6. CASE ProcSent
  BY <1>6, ElementsType DEF TypeOK, ProcSent, ProcNext, ProcExit
<1>7. CASE ProcFailed
  <2>1. Elements(batch) \subseteq Msg /\ "dropped" \in Reason
    BY ElementsType DEF TypeOK, Reason
  <2>2. lost' \subseteq Msg \X Reason
    BY <1>7, <2>1, LoseType DEF TypeOK, ProcFailed
  <2>3. batch' \in Seq(Msg)
    BY <1>7, ElementsType DEF TypeOK, ProcFailed
  <2>4. QED  BY <1>7, <2>2, <2>3 DEF TypeOK, ProcFailed, ProcNext, ProcExit
<1>8. CASE ProcStore
  <2>1. Head(batch) \in Msg /\ batch' \in Seq(Msg)
    BY <1>8, TailElements DEF TypeOK, ProcStore
  <2>2. SecondKey(clock) \in Key /\ clock \in Nat
    BY DeliveryAssumption DEF TypeOK, SecondKey, Key
  <2>3. /\ MessagesAt(bucket, {SecondKey(clock)} \cap DOMAIN bucket) \subseteq Msg
        /\ {"unencodable", "closed", "overwritten"} \subseteq Reason
    BY StoredType DEF TypeOK, Reason
  <2>4. IsBucket(bucket')
    <3>1. IsBucket(Put(bucket, SecondKey(clock), Head(batch), clock))
      BY <2>1, <2>2, PutType DEF TypeOK
    <3>2. QED  BY <1>8, <3>1 DEF TypeOK, ProcStore
  <2>5. lost' \subseteq Msg \X Reason
    BY <1>8, <2>1, <2>3, LoseType DEF ProcStore
  <2>6. QED
    BY <1>8, <2>1, <2>4, <2>5 DEF TypeOK, ProcStore, ProcNext, ProcExit
<1>9. CASE ProcTidy
  <2>1. IsBucket(bucket')
    BY <1>9, CleanupType DEF TypeOK, ProcTidy
  <2>2. /\ MessagesAt(bucket, DOMAIN bucket \ DOMAIN bucket') \subseteq Msg
        /\ "expired" \in Reason
    BY StoredType DEF TypeOK, Reason
  <2>3. lost' \subseteq Msg \X Reason
    BY <1>9, <2>2, LoseType DEF TypeOK, ProcTidy
  <2>4. QED  BY <1>9, <2>1, <2>3, BeginType DEF TypeOK, ProcTidy
<1>10. CASE ProcBeaten
  BY <1>10 DEF TypeOK, ProcBeaten
<1>11. QED
  BY <1>1, <1>2, <1>3, <1>4, <1>5, <1>6, <1>7, <1>8, <1>9, <1>10 DEF ProcStep

LEMMA RoundType ==
    ASSUME TypeOK, NextRound \/ RetReturn
    PROVE  /\ ret' \in {"idle", "fetch", "send"}
           /\ rounds' \in 0..(RetryBatches - 1)
<1>1. RetryBatches \in Nat \ {0} /\ rounds \in 0..(RetryBatches - 1)
  BY DeliveryAssumption DEF TypeOK
<1>2. QED  BY <1>1 DEF NextRound, RetReturn

LEMMA TypeRet ==
    ASSUME TypeOK, RetStep
    PROVE  TypeOK'
<1> USE DeliveryAssumption
    DEF appVars, procVars, retVars, dbVars, lifeVars, envVars, HttpState
<1>1. CASE RetTick
  BY <1>1 DEF TypeOK, RetTick
<1>2. CASE RetFetch
  <2> DEFINE read == GetBatch(bucket, RetryBatchSize)
             old  == ExpiredKeys(read, clock)
             live == DeleteBatch(read, old)
  <2>1. IsBucket(read) /\ IsBucket(live)
    BY GetBatchType, DeleteType DEF TypeOK
  <2>2. IsBucket(bucket')
    BY <1>2, DeleteType DEF TypeOK, RetFetch
  <2>3. MessagesAt(read, old) \subseteq Msg /\ "expired" \in Reason
    BY <2>1, StoredType DEF ExpiredKeys, Reason
  <2>4. lost' \subseteq Msg \X Reason
    BY <1>2, <2>3, LoseType DEF RetFetch
  <2>5. /\ ret' \in {"idle", "fetch", "send"}
        /\ rounds' \in 0..(RetryBatches - 1)
    BY <1>2, RoundType DEF TypeOK, RetFetch
  <2>6. IsBucket(held') /\ http' \in [Sender -> HttpState]
    BY <1>2, <2>1 DEF TypeOK, RetFetch
  <2>7. QED  BY <1>2, <2>2, <2>4, <2>5, <2>6 DEF TypeOK, RetFetch
<1>3. CASE RetSent
  <2>1. IsBucket(bucket') /\ IsBucket(held')
    BY <1>3, DeleteType, EmptyBucketType DEF TypeOK, RetSent
  <2> DEFINE other == {k \in DOMAIN held \cap DOMAIN bucket :
                          bucket[k] # held[k]}
  <2>2. MessagesAt(bucket, other) \subseteq Msg /\ "wiped" \in Reason
    BY StoredType DEF TypeOK, Reason
  <2>3. lost' \subseteq Msg \X Reason
    BY <1>3, <2>2, LoseType DEF RetSent
  <2>4. QED
    BY <1>3, <2>1, <2>3, RoundType DEF TypeOK, RetSent
<1>4. CASE RetFailed
  BY <1>4, EmptyBucketType, RoundType DEF TypeOK, RetFailed
<1>5. CASE RetDone
  BY <1>5 DEF TypeOK, RetDone
<1>6. QED  BY <1>1, <1>2, <1>3, <1>4, <1>5 DEF RetStep

LEMMA TypeOthers ==
    ASSUME TypeOK,
           \/ Probe \/ Poll \/ TetherDone \/ TetherStopped
           \/ StopClose \/ StopFinish \/ Reboot \/ NetChange \/ Tick
           \/ \E g \in {"mon", "poll"} : Leave(g)
    PROVE  TypeOK'
<1> USE DEF appVars, procVars, retVars, dbVars, lifeVars, envVars
<1>1. CASE Probe \/ Poll
  BY <1>1 DEF TypeOK, Probe, Poll
<1>2. CASE TetherDone \/ TetherStopped \/ \E g \in {"mon", "poll"} : Leave(g)
  BY <1>2 DEF TypeOK, TetherDone, TetherStopped, TetherReturn, Leave
<1>3. CASE StopClose \/ StopFinish
  BY <1>3 DEF TypeOK, StopClose, StopFinish, Accepted
<1>4. CASE Reboot
  <2>1. Elements(queue) \cup Elements(batch) \subseteq Msg /\ "volatile" \in Reason
    BY ElementsType DEF TypeOK, Reason
  <2>2. lost' \subseteq Msg \X Reason
    BY <1>4, <2>1, LoseType DEF Reboot
  <2>3. queue' \in Seq(Msg) /\ batch' \in Seq(Msg) /\ IsBucket(held')
    BY <1>4, ElementsType, EmptyBucketType DEF Reboot
  <2>4. rounds' \in 0..(RetryBatches - 1) /\ reboots' \in 0..MaxReboots
    BY <1>4, DeliveryAssumption DEF Reboot, TypeOK
  <2>5. QED
    BY <1>4, <2>2, <2>3, <2>4 DEF TypeOK, Reboot, InProgress, HttpState
<1>5. CASE NetChange
  BY <1>5, DeliveryAssumption DEF TypeOK, NetChange
<1>6. CASE Tick
  BY <1>6, DeliveryAssumption DEF TypeOK, Tick
<1>7. QED  BY <1>1, <1>2, <1>3, <1>4, <1>5, <1>6

LEMMA TypeStutter == ASSUME TypeOK, UNCHANGED vars PROVE TypeOK'
BY DEF TypeOK, vars, appVars, procVars, retVars, dbVars, lifeVars, envVars,
       IsBucket

-----------------------------------------------------------------------------
(***************************************************************************)
(* The life cycles of the processor, the retrier and Stop.                 *)
(***************************************************************************)
LEMMA ProcLifeCycleStep ==
    ASSUME TypeOK, ProcLifeCycle, [Next]_vars
    PROVE  ProcLifeCycle'
<1> USE DEF appVars, procVars, retVars, dbVars, lifeVars, envVars
<1>1. ASSUME NEW m \in Msg,
             Publish(m) \/ Enqueue(m) \/ StorePublished(m) \/ SentDirectly(m)
      PROVE  ProcLifeCycle'
  <2>1. http'["proc"] = http["proc"]
    BY <1>1, SenderFacts DEF TypeOK, Publish, Enqueue, StorePublished, SentDirectly
  <2>2. QED
    BY <1>1, <2>1
       DEF ProcLifeCycle, Publish, Enqueue, StorePublished, SentDirectly
<1>2. ASSUME NEW s \in Sender, SendMessages(s)
      PROVE  ProcLifeCycle'
  <2>1. http'["proc"] # "idle" => http["proc"] # "idle"
    BY <1>2, SenderFacts
       DEF TypeOK, SendMessages, Arrive, Succeed, Refuse, NetworkError,
           ServerError, GiveUp
  <2>2. QED
    BY <1>2, <2>1
       DEF ProcLifeCycle, SendMessages, Arrive, Succeed, Refuse, NetworkError,
           ServerError, GiveUp
<1>3. CASE ProcReceive
  <2>1. Append(batch, Head(queue)) # <<>>
    BY <1>3, TailElements, AppendElements DEF TypeOK, ProcReceive
  <2>2. QED
    BY <1>3, <2>1 DEF ProcLifeCycle, ProcReceive, ProcSend
<1>4. CASE ProcTick \/ ProcDone
  BY <1>4 DEF ProcLifeCycle, ProcTick, ProcDone, ProcSend
<1>5. CASE ProcDrain
  <2>1. Append(batch, Head(queue)) # <<>>
    BY <1>5, TailElements, AppendElements DEF TypeOK, ProcDrain
  <2>2. QED  BY <1>5, <2>1 DEF ProcLifeCycle, ProcDrain
<1>6. CASE ProcDrained
  BY <1>6 DEF ProcLifeCycle, ProcDrained, ProcSend, ProcExit
<1>7. CASE ProcSent
  BY <1>7, SenderFacts DEF TypeOK, ProcLifeCycle, ProcSent, ProcNext, ProcExit
<1>8. CASE ProcFailed
  BY <1>8, SenderFacts DEF TypeOK, ProcLifeCycle, ProcFailed, ProcNext, ProcExit
<1>9. CASE ProcStore
  BY <1>9 DEF ProcLifeCycle, ProcStore, ProcNext, ProcExit
<1>10. CASE ProcTidy
  BY <1>10 DEF ProcLifeCycle, ProcTidy
<1>11. CASE ProcBeaten
  BY <1>11, SenderFacts DEF TypeOK, ProcLifeCycle, ProcBeaten
<1>12. CASE RetStep
  <2>1. http'["proc"] = http["proc"]
    BY <1>12, SenderFacts
       DEF TypeOK, RetStep, RetTick, RetFetch, RetSent, RetFailed, RetDone
  <2>2. QED
    BY <1>12, <2>1
       DEF ProcLifeCycle, RetStep, RetTick, RetFetch, RetSent, RetFailed, RetDone
<1>13. CASE Probe \/ Poll \/ NetChange \/ Tick
  BY <1>13 DEF ProcLifeCycle, Probe, Poll, NetChange, Tick
<1>14. CASE TetherDone \/ TetherStopped \/ \E g \in {"mon", "poll"} : Leave(g)
  BY <1>14 DEF ProcLifeCycle, TetherDone, TetherStopped, TetherReturn, Leave
<1>15. CASE StopClose \/ StopFinish
  BY <1>15 DEF ProcLifeCycle, StopClose, StopFinish
<1>16. CASE Reboot
  BY <1>16, SenderFacts DEF ProcLifeCycle, Reboot, Goroutine
<1>17. CASE UNCHANGED vars
  BY <1>17 DEF ProcLifeCycle, vars
<1>18. QED
  BY <1>1, <1>2, <1>3, <1>4, <1>5, <1>6, <1>7, <1>8, <1>9, <1>10, <1>11, <1>12,
     <1>13, <1>14, <1>15, <1>16, <1>17, SenderFacts
     DEF Next, ProcStep

LEMMA RetLifeCycleStep ==
    ASSUME TypeOK, RetLifeCycle, [Next]_vars
    PROVE  RetLifeCycle'
<1> USE DEF appVars, procVars, retVars, dbVars, lifeVars, envVars
<1>1. ASSUME NEW m \in Msg,
             Publish(m) \/ Enqueue(m) \/ StorePublished(m) \/ SentDirectly(m)
      PROVE  RetLifeCycle'
  <2>1. http'["ret"] = http["ret"]
    BY <1>1, SenderFacts DEF TypeOK, Publish, Enqueue, StorePublished, SentDirectly
  <2>2. QED
    BY <1>1, <2>1
       DEF RetLifeCycle, Publish, Enqueue, StorePublished, SentDirectly
<1>2. ASSUME NEW s \in Sender, SendMessages(s)
      PROVE  RetLifeCycle'
  <2>1. http'["ret"] # "idle" => http["ret"] # "idle"
    BY <1>2, SenderFacts
       DEF TypeOK, SendMessages, Arrive, Succeed, Refuse, NetworkError,
           ServerError, GiveUp
  <2>2. QED
    BY <1>2, <2>1
       DEF RetLifeCycle, SendMessages, Arrive, Succeed, Refuse, NetworkError,
           ServerError, GiveUp
<1>3. CASE ProcStep
  <2>1. http'["ret"] = http["ret"]
    BY <1>3, SenderFacts
       DEF TypeOK, ProcStep, ProcReceive, ProcTick, ProcDone, ProcDrain,
           ProcDrained, ProcSent, ProcFailed, ProcStore, ProcTidy, ProcBeaten,
           ProcSend
  <2>2. "ret" \in running' <=> "ret" \in running
    BY <1>3
       DEF ProcStep, ProcReceive, ProcTick, ProcDone, ProcDrain,
           ProcDrained, ProcSent, ProcFailed, ProcStore, ProcTidy, ProcBeaten,
           ProcSend, ProcNext, ProcExit
  <2>3. UNCHANGED ret
    BY <1>3
       DEF ProcStep, ProcReceive, ProcTick, ProcDone, ProcDrain,
           ProcDrained, ProcSent, ProcFailed, ProcStore, ProcTidy, ProcBeaten
  <2>4. QED  BY <2>1, <2>2, <2>3 DEF RetLifeCycle
<1>4. CASE RetTick \/ RetDone
  BY <1>4 DEF RetLifeCycle, RetTick, RetDone
<1>5. CASE RetFetch
  BY <1>5, SenderFacts DEF TypeOK, RetLifeCycle, RetFetch, NextRound, RetReturn
<1>6. CASE RetSent \/ RetFailed
  BY <1>6, SenderFacts
     DEF TypeOK, RetLifeCycle, RetSent, RetFailed, NextRound, RetReturn
<1>7. CASE Probe \/ Poll \/ NetChange \/ Tick \/ StopClose \/ StopFinish
  BY <1>7 DEF RetLifeCycle, Probe, Poll, NetChange, Tick, StopClose, StopFinish
<1>8. CASE TetherDone \/ TetherStopped \/ \E g \in {"mon", "poll"} : Leave(g)
  BY <1>8 DEF RetLifeCycle, TetherDone, TetherStopped, TetherReturn, Leave
<1>9. CASE Reboot
  BY <1>9, SenderFacts DEF RetLifeCycle, Reboot
<1>10. CASE UNCHANGED vars
  BY <1>10 DEF RetLifeCycle, vars
<1>11. QED
  BY <1>1, <1>2, <1>3, <1>4, <1>5, <1>6, <1>7, <1>8, <1>9, <1>10, SenderFacts
     DEF Next, RetStep

LEMMA StopLifeCycleStep ==
    ASSUME StopLifeCycle, [Next]_vars
    PROVE  StopLifeCycle'
<1> USE DEF appVars, procVars, retVars, dbVars, lifeVars, envVars
<1>1. CASE StopClose \/ StopFinish \/ Reboot
  BY <1>1 DEF StopLifeCycle, StopClose, StopFinish, Reboot
<1>2. ASSUME stop' = stop, running' \subseteq running
      PROVE  StopLifeCycle'
  BY <1>2 DEF StopLifeCycle
<1>3. ASSUME NEW m \in Msg,
             Publish(m) \/ Enqueue(m) \/ StorePublished(m) \/ SentDirectly(m)
      PROVE  StopLifeCycle'
  BY <1>2, <1>3 DEF Publish, Enqueue, StorePublished, SentDirectly
<1>4. ASSUME NEW s \in Sender, SendMessages(s)
      PROVE  StopLifeCycle'
  BY <1>2, <1>4
     DEF SendMessages, Arrive, Succeed, Refuse, NetworkError,
         ServerError, GiveUp
<1>5. CASE ProcStep
  BY <1>2, <1>5
     DEF ProcStep, ProcReceive, ProcTick, ProcDone, ProcDrain, ProcDrained,
         ProcSent, ProcFailed, ProcStore, ProcTidy, ProcBeaten, ProcSend,
         ProcNext, ProcExit
<1>6. CASE RetStep
  BY <1>2, <1>6 DEF RetStep, RetTick, RetFetch, RetSent, RetFailed, RetDone
<1>7. CASE \/ Probe \/ Poll \/ NetChange \/ Tick \/ TetherDone \/ TetherStopped
           \/ \E g \in {"mon", "poll"} : Leave(g)
  BY <1>2, <1>7
     DEF Probe, Poll, NetChange, Tick, TetherDone, TetherStopped, TetherReturn,
         Leave
<1>8. CASE UNCHANGED vars
  BY <1>2, <1>8 DEF vars
<1>9. QED
  BY <1>1, <1>3, <1>4, <1>5, <1>6, <1>7, <1>8, SenderFacts DEF Next

LEMMA LoseOther ==
    ASSUME NothingClosed, NEW ms, NEW r, r # "closed", Lose(ms, r)
    PROVE  NothingClosed'
BY DEF NothingClosed, Lose

LEMMA NothingClosedStep ==
    ASSUME NothingClosed, ProcLifeCycle, StopLifeCycle, [Next]_vars
    PROVE  NothingClosed'
<1> USE DEF appVars, procVars, retVars, dbVars, lifeVars, envVars
<1>1. CASE ProcStore
  <2>1. stop # "stopped"
    BY <1>1 DEF ProcStore, ProcLifeCycle, StopLifeCycle
  <2>2. \/ Lose({Head(batch)}, "unencodable")
        \/ Lose(MessagesAt(bucket, {SecondKey(clock)} \cap DOMAIN bucket),
                "overwritten")
    BY <1>1, <2>1 DEF ProcStore
  <2>3. QED  BY <2>2, LoseOther
<1>2. CASE ProcFailed
  BY <1>2, LoseOther DEF ProcFailed, NothingClosed
<1>3. CASE ProcTidy
  BY <1>3, LoseOther DEF ProcTidy, NothingClosed
<1>4. CASE RetFetch
  BY <1>4, LoseOther DEF RetFetch
<1>5. CASE RetSent
  BY <1>5, LoseOther DEF RetSent
<1>6. CASE Reboot
  BY <1>6, LoseOther DEF Reboot
<1>7. ASSUME lost' = lost PROVE NothingClosed'
  BY <1>7 DEF NothingClosed
<1>8. ASSUME NEW m \in Msg,
             Publish(m) \/ Enqueue(m) \/ StorePublished(m) \/ SentDirectly(m)
      PROVE  NothingClosed'
  BY <1>7, <1>8 DEF Publish, Enqueue, StorePublished, SentDirectly
<1>9. ASSUME NEW s \in Sender, SendMessages(s)
      PROVE  NothingClosed'
  BY <1>7, <1>9
     DEF SendMessages, Arrive, Succeed, Refuse, NetworkError,
         ServerError, GiveUp
<1>10. CASE \/ ProcReceive \/ ProcTick \/ ProcDone \/ ProcDrain \/ ProcDrained
            \/ ProcSent \/ ProcBeaten
  BY <1>7, <1>10
     DEF ProcReceive, ProcTick, ProcDone, ProcDrain, ProcDrained, ProcSent,
         ProcBeaten
<1>11. CASE RetTick \/ RetFailed \/ RetDone
  BY <1>7, <1>11 DEF RetTick, RetFailed, RetDone
<1>12. CASE \/ Probe \/ Poll \/ NetChange \/ Tick \/ TetherDone \/ TetherStopped
            \/ StopClose \/ StopFinish \/ \E g \in {"mon", "poll"} : Leave(g)
  BY <1>7, <1>12
     DEF Probe, Poll, NetChange, Tick, TetherDone, TetherStopped, TetherReturn,
         StopClose, StopFinish, Leave
<1>13. CASE UNCHANGED vars
  BY <1>7, <1>13 DEF vars
<1>14. QED
  BY <1>1, <1>2, <1>3, <1>4, <1>5, <1>6, <1>8, <1>9, <1>10, <1>11, <1>12,
     <1>13, SenderFacts DEF Next, ProcStep, RetStep

LEMMA DrainedStep ==
    ASSUME TypeOK, TypeOK', ProcLifeCycle, Drained, [Next]_vars
    PROVE  Drained'
<1> USE DEF appVars, procVars, retVars, dbVars, lifeVars, envVars
<1>1. ASSUME NEW m \in Msg, Publish(m) \/ StorePublished(m) \/ SentDirectly(m)
      PROVE  Drained'
  <2>1. Accepted \subseteq Accepted'
    BY <1>1
       DEF TypeOK, Accepted, Publish, StorePublished, SentDirectly, InProgress
  <2>2. QED
    BY <1>1, <2>1 DEF Drained, Publish, StorePublished, SentDirectly
<1>2. ASSUME NEW m \in Msg, Enqueue(m)
      PROVE  Drained'
  <2>1. Accepted \subseteq Accepted' /\ m \notin Accepted
    BY <1>2 DEF TypeOK, Accepted, Enqueue
  <2>2. m \notin atStop /\ atStop \subseteq Accepted'
    BY <2>1 DEF Drained
  <2>3. Elements(queue') \subseteq Elements(queue) \cup {m}
    BY <1>2, AppendElements DEF TypeOK, Enqueue
  <2>4. QED  BY <1>2, <2>2, <2>3 DEF Drained, Enqueue
<1>3. ASSUME pub' = pub, atStop' = atStop, stop' = stop,
             Elements(queue') \subseteq Elements(queue),
             proc' = "exited" \/ why' = "done" =>
                \/ proc = "exited" \/ why = "done"
                \/ Elements(queue') = {}
      PROVE  Drained'
  BY <1>3 DEF Drained, Accepted
<1>4. ASSUME NEW s \in Sender, SendMessages(s)
      PROVE  Drained'
  BY <1>3, <1>4
     DEF SendMessages, Arrive, Succeed, Refuse, NetworkError,
         ServerError, GiveUp
<1>5. CASE ProcReceive \/ ProcDrain
  <2>1. Elements(queue') \subseteq Elements(queue)
    BY <1>5, TailElements DEF TypeOK, ProcReceive, ProcDrain
  <2>2. QED
    BY <1>3, <1>5, <2>1
       DEF ProcReceive, ProcDrain, ProcSend, ProcLifeCycle
<1>6. CASE ProcTick \/ ProcDone \/ ProcTidy \/ ProcBeaten
  BY <1>3, <1>6
     DEF ProcTick, ProcDone, ProcTidy, ProcBeaten, ProcSend, ProcLifeCycle
<1>7. CASE ProcDrained
  BY <1>3, <1>7, ElementsType DEF ProcDrained, ProcSend, ProcExit
<1>8. CASE ProcSent \/ ProcFailed \/ ProcStore
  BY <1>3, <1>8 DEF ProcSent, ProcFailed, ProcStore, ProcNext, ProcExit
<1>9. CASE RetStep
  BY <1>3, <1>9 DEF RetStep, RetTick, RetFetch, RetSent, RetFailed, RetDone
<1>10. CASE \/ Probe \/ Poll \/ NetChange \/ Tick \/ TetherDone \/ TetherStopped
            \/ \E g \in {"mon", "poll"} : Leave(g)
  BY <1>3, <1>10
     DEF Probe, Poll, NetChange, Tick, TetherDone, TetherStopped, TetherReturn,
         Leave
<1>11. CASE StopClose
  BY <1>11 DEF Drained, StopClose, ProcLifeCycle, Accepted
<1>12. CASE StopFinish
  BY <1>12 DEF Drained, StopFinish, Accepted
<1>13. CASE Reboot
  BY <1>13, ElementsType DEF Drained, Reboot
<1>14. CASE UNCHANGED vars
  BY <1>3, <1>14 DEF vars
<1>15. QED
  BY <1>1, <1>2, <1>4, <1>5, <1>6, <1>7, <1>8, <1>9, <1>10, <1>11, <1>12,
     <1>13, <1>14, SenderFacts DEF Next, ProcStep

-----------------------------------------------------------------------------
(***************************************************************************)
(* Requests, nanosecond keys and direct sends.                             *)
(***************************************************************************)
LEMMA ArrivedGrows ==
    ASSUME [Next]_vars
    PROVE  Arrived \subseteq Arrived'
<1> USE DEF appVars, procVars, retVars, dbVars, lifeVars, envVars
<1>1. ASSUME received \subseteq received' PROVE Arrived \subseteq Arrived'
  BY <1>1 DEF Arrived
<1>2. ASSUME NEW m \in Msg,
             Publish(m) \/ Enqueue(m) \/ StorePublished(m) \/ SentDirectly(m)
      PROVE  Arrived \subseteq Arrived'
  BY <1>1, <1>2 DEF Publish, Enqueue, StorePublished, SentDirectly
<1>3. ASSUME NEW s \in Sender, SendMessages(s)
      PROVE  Arrived \subseteq Arrived'
  BY <1>1, <1>3
     DEF SendMessages, Arrive, Succeed, Refuse, NetworkError,
         ServerError, GiveUp
<1>4. CASE ProcStep
  BY <1>1, <1>4
     DEF ProcStep, ProcReceive, ProcTick, ProcDone, ProcDrain, ProcDrained,
         ProcSent, ProcFailed, ProcStore, ProcTidy, ProcBeaten
<1>5. CASE RetStep
  BY <1>1, <1>5 DEF RetStep, RetTick, RetFetch, RetSent, RetFailed, RetDone
<1>6. CASE \/ Probe \/ Poll \/ NetChange \/ Tick \/ TetherDone \/ TetherStopped
           \/ StopClose \/ StopFinish \/ Reboot
           \/ \E g \in {"mon", "poll"} : Leave(g)
  BY <1>1, <1>6
     DEF Probe, Poll, NetChange, Tick, TetherDone, TetherStopped, TetherReturn,
         StopClose, StopFinish, Reboot, Leave
<1>7. CASE UNCHANGED vars
  BY <1>1, <1>7 DEF vars
<1>8. QED
  BY <1>2, <1>3, <1>4, <1>5, <1>6, <1>7, SenderFacts DEF Next

LEMMA ArrivePayload ==
    ASSUME NEW s \in Sender, Arrive(s)
    PROVE  Payload(s) \subseteq Arrived'
<1>1. \A m \in Payload(s) : Wire(m, s = "ret") \in received'
  BY DEF Arrive
<1>2. \A m : Wire(m, s = "ret").msg = m
  BY DEF Wire
<1>3. QED  BY <1>1, <1>2 DEF Arrived

LEMMA AnswerMeansArrivedStep ==
    ASSUME TypeOK, TypeOK', AnswerMeansArrived, [Next]_vars
    PROVE  AnswerMeansArrived'
<1> USE DEF appVars, procVars, retVars, dbVars, lifeVars, envVars
<1>1. Arrived \subseteq Arrived'
  BY ArrivedGrows
<1>2. ASSUME NEW s \in Sender, Arrive(s)
      PROVE  AnswerMeansArrived'
  <2>1. /\ UNCHANGED <<proc, batch, ret, held>>
        /\ \A t \in Sender \ {s} : http'[t] = http[t]
        /\ Payload(s) \subseteq Arrived'
    BY <1>2, ArrivePayload DEF Arrive, TypeOK
  <2>2. CASE s = "proc"
    BY <1>1, <2>1, <2>2, SenderFacts DEF AnswerMeansArrived, Payload, Stored
  <2>3. CASE s = "ret"
    BY <1>1, <2>1, <2>3, SenderFacts DEF AnswerMeansArrived, Payload
  <2>4. CASE s \in Sync
    <3>1. s # "proc" /\ s # "ret" /\ s \in Arrived'
      BY <2>1, <2>4, SenderFacts DEF Payload
    <3>2. QED
      BY <1>1, <2>1, <3>1, SenderFacts DEF AnswerMeansArrived
  <2>5. QED  BY <2>2, <2>3, <2>4 DEF Sender
<1>3. ASSUME NEW s \in Sender,
             \/ Succeed(s) \/ Refuse(s)
             \/ NetworkError(s) \/ ServerError(s) \/ GiveUp(s)
      PROVE  AnswerMeansArrived'
  <2>1. /\ UNCHANGED <<proc, batch, ret, held>>
        /\ \A t \in Sender : http'[t] \in {"accepted", "ok"} =>
                                http[t] \in {"accepted", "ok"}
    BY <1>3 DEF TypeOK, Succeed, Refuse, NetworkError, ServerError, GiveUp
  <2>2. QED
    BY <1>1, <2>1, SenderFacts DEF AnswerMeansArrived
<1>4. ASSUME \A t \in Sender : http'[t] = http[t] \/ http'[t] \notin {"accepted", "ok"},
             \/ proc' # "send"
             \/ http'["proc"] \notin {"accepted", "ok"}
             \/ UNCHANGED <<proc, batch>>,
             \/ ret' # "send"
             \/ http'["ret"] \notin {"accepted", "ok"}
             \/ UNCHANGED <<ret, held>>
      PROVE  AnswerMeansArrived'
  BY <1>1, <1>4, SenderFacts DEF AnswerMeansArrived
<1>5. ASSUME NEW m \in Msg,
             Publish(m) \/ Enqueue(m) \/ StorePublished(m) \/ SentDirectly(m)
      PROVE  AnswerMeansArrived'
  BY <1>4, <1>5, BeginType, SenderFacts
     DEF TypeOK, Publish, Enqueue, StorePublished, SentDirectly
<1>6. CASE \/ ProcReceive \/ ProcTick \/ ProcDone \/ ProcDrain \/ ProcDrained
           \/ ProcSent
  BY <1>4, <1>6, BeginType, SenderFacts
     DEF TypeOK, ProcReceive, ProcTick, ProcDone, ProcDrain, ProcDrained,
         ProcSent, ProcSend, ProcNext, ProcExit
<1>7. CASE ProcFailed \/ ProcStore \/ ProcTidy \/ ProcBeaten
  BY <1>4, <1>7, BeginType, SenderFacts
     DEF TypeOK, ProcFailed, ProcStore, ProcTidy, ProcBeaten, ProcNext, ProcExit
<1>8. CASE RetStep
  BY <1>4, <1>8, SenderFacts
     DEF TypeOK, RetStep, RetTick, RetFetch, RetSent, RetFailed, RetDone,
         NextRound, RetReturn
<1>9. CASE \/ Probe \/ Poll \/ NetChange \/ Tick \/ TetherDone \/ TetherStopped
           \/ StopClose \/ StopFinish \/ \E g \in {"mon", "poll"} : Leave(g)
  BY <1>4, <1>9
     DEF Probe, Poll, NetChange, Tick, TetherDone, TetherStopped, TetherReturn,
         StopClose, StopFinish, Leave
<1>10. CASE Reboot
  BY <1>10, SenderFacts DEF AnswerMeansArrived, Reboot
<1>11. CASE UNCHANGED vars
  BY <1>4, <1>11 DEF vars
<1>12. QED
  BY <1>2, <1>3, <1>5, <1>6, <1>7, <1>8, <1>9, <1>10, <1>11, SenderFacts
     DEF Next, ProcStep, SendMessages

LEMMA DirectStep ==
    ASSUME TypeOK, DirectStaysDirect, AnswerMeansArrived, DirectMeansDelivered,
           [Next]_vars
    PROVE  DirectStaysDirect' /\ DirectMeansDelivered'
<1> USE DEF appVars, procVars, retVars, dbVars, lifeVars, envVars
<1>1. Arrived \subseteq Arrived'
  BY ArrivedGrows
<1>2. ASSUME NEW m \in Msg, Publish(m) \/ Enqueue(m) \/ StorePublished(m)
      PROVE  DirectStaysDirect' /\ DirectMeansDelivered'
  <2>1. CASE Publish(m)
    BY <1>1, <2>1, DeliveryAssumption
       DEF TypeOK, Publish, DirectStaysDirect, DirectMeansDelivered
  <2>2. CASE Enqueue(m) \/ StorePublished(m)
    <3>1. m \notin Sync
      BY <2>2 DEF Enqueue, StorePublished, DirectStaysDirect
    <3>2. \A n \in Sync : pub'[n] = pub[n]
      BY <2>2, <3>1, DeliveryAssumption DEF TypeOK, Enqueue, StorePublished
    <3>3. QED  BY <1>1, <3>2 DEF DirectStaysDirect, DirectMeansDelivered
  <2>3. QED  BY <1>2, <2>1, <2>2
<1>3. ASSUME NEW m \in Sync, SentDirectly(m)
      PROVE  DirectStaysDirect' /\ DirectMeansDelivered'
  <2>1. http[m] = "ok" => m \in Arrived
    BY DEF AnswerMeansArrived
  <2>2. QED
    BY <1>1, <1>3, <2>1, DeliveryAssumption
       DEF TypeOK, SentDirectly, DirectStaysDirect, DirectMeansDelivered
<1>4. ASSUME \A m \in Msg : pub'[m] = pub[m] \/ pub'[m] \notin InProgress \cup {"ok"}
      PROVE  DirectStaysDirect' /\ DirectMeansDelivered'
  BY <1>1, <1>4, DeliveryAssumption
     DEF DirectStaysDirect, DirectMeansDelivered, InProgress
<1>5. ASSUME NEW s \in Sender, SendMessages(s)
      PROVE  DirectStaysDirect' /\ DirectMeansDelivered'
  BY <1>4, <1>5
     DEF SendMessages, Arrive, Succeed, Refuse, NetworkError,
         ServerError, GiveUp
<1>6. CASE ProcStep
  BY <1>4, <1>6
     DEF ProcStep, ProcReceive, ProcTick, ProcDone, ProcDrain, ProcDrained,
         ProcSent, ProcFailed, ProcStore, ProcTidy, ProcBeaten
<1>7. CASE RetStep
  BY <1>4, <1>7 DEF RetStep, RetTick, RetFetch, RetSent, RetFailed, RetDone
<1>8. CASE \/ Probe \/ Poll \/ NetChange \/ Tick \/ TetherDone \/ TetherStopped
           \/ StopClose \/ StopFinish \/ \E g \in {"mon", "poll"} : Leave(g)
  BY <1>4, <1>8
     DEF Probe, Poll, NetChange, Tick, TetherDone, TetherStopped, TetherReturn,
         StopClose, StopFinish, Leave
<1>9. CASE Reboot
  BY <1>4, <1>9 DEF Reboot, InProgress
<1>10. CASE UNCHANGED vars
  BY <1>4, <1>10 DEF vars
<1>11. QED
  BY <1>2, <1>3, <1>5, <1>6, <1>7, <1>8, <1>9, <1>10, SenderFacts DEF Next

LEMMA KeyFacts ==
    /\ \A n : NanoKey(n).kind = "nano" /\ NanoKey(n).at = n
    /\ \A n : SecondKey(n).kind = "sec"
BY DEF NanoKey, SecondKey

\* What one step may do to the entries under nanosecond keys: keep them, drop
\* them, or add one under a fresh key.
LEMMA NanoEntries ==
    ASSUME TypeOK, [Next]_vars
    PROVE  /\ nano' \in Nat /\ nano <= nano'
           /\ \A k \in DOMAIN bucket' : k.kind = "nano" =>
                 \/ k \in DOMAIN bucket /\ bucket'[k] = bucket[k]
                 \/ k.at = nano /\ nano' = nano + 1
<1> USE DEF appVars, procVars, retVars, dbVars, lifeVars, envVars
<1> DEFINE Goal == /\ nano' \in Nat /\ nano <= nano'
                   /\ \A k \in DOMAIN bucket' : k.kind = "nano" =>
                         \/ k \in DOMAIN bucket /\ bucket'[k] = bucket[k]
                         \/ k.at = nano /\ nano' = nano + 1
<1>0. nano \in Nat /\ clock \in Nat /\ IsBucket(bucket)
  BY DeliveryAssumption DEF TypeOK
<1>1. ASSUME NEW m \in Msg, StorePublished(m)
      PROVE  Goal
  <2>1. CASE UNCHANGED dbVars
    BY <1>0, <2>1
  <2>2. CASE bucket' = Put(bucket, NanoKey(nano), m, clock) /\ nano' = nano + 1
    <3>1. \A k \in DOMAIN bucket' : k # NanoKey(nano) =>
             k \in DOMAIN bucket /\ bucket'[k] = bucket[k]
      BY <2>2 DEF Put
    <3>2. QED  BY <1>0, <2>2, <3>1, KeyFacts
  <2>3. QED  BY <1>1, <2>1, <2>2 DEF StorePublished
<1>2. CASE ProcStore
  <2>1. CASE UNCHANGED dbVars
    BY <1>0, <2>1
  <2>2. CASE bucket' = Put(bucket, SecondKey(clock), Head(batch), clock) /\ nano' = nano
    <3>1. \A k \in DOMAIN bucket' : k # SecondKey(clock) =>
             k \in DOMAIN bucket /\ bucket'[k] = bucket[k]
      BY <2>2 DEF Put
    <3>2. QED  BY <1>0, <2>2, <3>1, KeyFacts
  <2>3. QED  BY <1>2, <2>1, <2>2 DEF ProcStore
<1>3. ASSUME nano' = nano,
             \A k \in DOMAIN bucket' : k \in DOMAIN bucket /\ bucket'[k] = bucket[k]
      PROVE  Goal
  BY <1>0, <1>3
<1>4. CASE ProcTidy
  BY <1>0, <1>3, <1>4, CleanupType DEF ProcTidy
<1>5. CASE RetFetch \/ RetSent
  <2>1. PICK ids : bucket' = DeleteBatch(bucket, ids)
    BY <1>5 DEF RetFetch, RetSent
  <2>2. QED  BY <1>0, <1>3, <1>5, <2>1, DeleteKeeps DEF RetFetch, RetSent
<1>6. ASSUME NEW m \in Msg, Publish(m) \/ Enqueue(m) \/ SentDirectly(m)
      PROVE  Goal
  BY <1>3, <1>6 DEF Publish, Enqueue, SentDirectly
<1>7. ASSUME NEW s \in Sender, SendMessages(s)
      PROVE  Goal
  BY <1>3, <1>7
     DEF SendMessages, Arrive, Succeed, Refuse, NetworkError,
         ServerError, GiveUp
<1>8. CASE \/ ProcReceive \/ ProcTick \/ ProcDone \/ ProcDrain \/ ProcDrained
           \/ ProcSent \/ ProcFailed \/ ProcBeaten
           \/ RetTick \/ RetFailed \/ RetDone
  BY <1>3, <1>8
     DEF ProcReceive, ProcTick, ProcDone, ProcDrain, ProcDrained, ProcSent,
         ProcFailed, ProcBeaten, RetTick, RetFailed, RetDone
<1>9. CASE \/ Probe \/ Poll \/ NetChange \/ Tick \/ TetherDone \/ TetherStopped
           \/ StopClose \/ StopFinish \/ Reboot
           \/ \E g \in {"mon", "poll"} : Leave(g)
  BY <1>3, <1>9
     DEF Probe, Poll, NetChange, Tick, TetherDone, TetherStopped, TetherReturn,
         StopClose, StopFinish, Reboot, Leave
<1>10. CASE UNCHANGED vars
  BY <1>3, <1>10 DEF vars
<1>11. QED
  BY <1>1, <1>2, <1>4, <1>5, <1>6, <1>7, <1>8, <1>9, <1>10, SenderFacts
     DEF Next, ProcStep, RetStep

LEMMA NanoKeysUniqueStep ==
    ASSUME TypeOK, TypeOK', NanoKeysUnique, [Next]_vars
    PROVE  NanoKeysUnique'
<1> USE DEF appVars, procVars, retVars, dbVars, lifeVars, envVars
<1>1. /\ nano \in Nat /\ nano' \in Nat /\ nano <= nano'
      /\ \A k \in DOMAIN bucket' : k.kind = "nano" =>
            \/ k \in DOMAIN bucket /\ bucket'[k] = bucket[k]
            \/ k.at = nano /\ nano' = nano + 1
  BY NanoEntries DEF TypeOK
<1>2. \A k \in DOMAIN bucket : k.at \in Nat
  BY DEF TypeOK, IsBucket, Key
<1>3. \A k \in DOMAIN bucket' : k.kind = "nano" => k.at < nano'
  BY <1>1, <1>2 DEF NanoKeysUnique
<1>4. ASSUME UNCHANGED held
      PROVE  NanoKeysUnique'
  <2>1. \A k \in DOMAIN held : k.at \in Nat
    BY DEF TypeOK, IsBucket, Key
  <2>2. \A k \in DOMAIN held : k.kind = "nano" => k.at < nano /\ k.at < nano'
    BY <1>1, <2>1 DEF NanoKeysUnique
  <2>3. \A k \in DOMAIN held : k.kind = "nano" /\ k \in DOMAIN bucket' =>
           bucket'[k] = held[k]
    BY <1>1, <2>1, <2>2 DEF NanoKeysUnique
  <2>4. QED  BY <1>3, <1>4, <2>2, <2>3 DEF NanoKeysUnique
<1>5. ASSUME DOMAIN held' = {}
      PROVE  NanoKeysUnique'
  BY <1>3, <1>5 DEF NanoKeysUnique
<1>6. CASE RetFetch
  <2> DEFINE read == GetBatch(bucket, RetryBatchSize)
             old  == ExpiredKeys(read, clock)
             live == DeleteBatch(read, old)
  <2>1. CASE held' = live
    <3>1. /\ IsBucket(read) /\ DOMAIN read \subseteq DOMAIN bucket
          /\ \A j \in DOMAIN read : read[j] = bucket[j]
      BY GetBatchType DEF TypeOK
    <3>2. \A j \in DOMAIN live : j \in DOMAIN bucket /\ live[j] = bucket[j]
      BY <3>1, DeleteKeeps
    <3>3. \A j \in DOMAIN bucket' : j \in DOMAIN bucket /\ bucket'[j] = bucket[j]
      BY <1>6, DeleteKeeps DEF RetFetch
    <3>4. nano' = nano
      BY <1>6 DEF RetFetch
    <3>5. QED  BY <1>3, <2>1, <3>2, <3>3, <3>4 DEF NanoKeysUnique
  <2>2. QED  BY <1>4, <1>6, <2>1 DEF RetFetch
<1>7. CASE RetSent \/ RetFailed \/ Reboot
  BY <1>5, <1>7, EmptyBucketType DEF RetSent, RetFailed, Reboot
<1>8. ASSUME NEW m \in Msg,
             Publish(m) \/ Enqueue(m) \/ StorePublished(m) \/ SentDirectly(m)
      PROVE  NanoKeysUnique'
  BY <1>4, <1>8 DEF Publish, Enqueue, StorePublished, SentDirectly
<1>9. ASSUME NEW s \in Sender, SendMessages(s)
      PROVE  NanoKeysUnique'
  BY <1>4, <1>9
     DEF SendMessages, Arrive, Succeed, Refuse, NetworkError,
         ServerError, GiveUp
<1>10. CASE ProcStep
  BY <1>4, <1>10
     DEF ProcStep, ProcReceive, ProcTick, ProcDone, ProcDrain, ProcDrained,
         ProcSent, ProcFailed, ProcStore, ProcTidy, ProcBeaten
<1>11. CASE RetTick \/ RetDone
  BY <1>4, <1>11 DEF RetTick, RetDone
<1>12. CASE \/ Probe \/ Poll \/ NetChange \/ Tick \/ TetherDone \/ TetherStopped
            \/ StopClose \/ StopFinish \/ \E g \in {"mon", "poll"} : Leave(g)
  BY <1>4, <1>12
     DEF Probe, Poll, NetChange, Tick, TetherDone, TetherStopped, TetherReturn,
         StopClose, StopFinish, Leave
<1>13. CASE UNCHANGED vars
  BY <1>4, <1>13 DEF vars
<1>14. QED
  BY <1>6, <1>7, <1>8, <1>9, <1>10, <1>11, <1>12, <1>13, SenderFacts
     DEF Next, RetStep

-----------------------------------------------------------------------------
(***************************************************************************)
(* Conservation.                                                           *)
(***************************************************************************)
LEMMA StoredKeeps ==
    ASSUME NEW b, NEW c, NEW ks,
           \A k \in DOMAIN b \ ks : k \in DOMAIN c /\ c[k] = b[k]
    PROVE  Stored(b) \subseteq Stored(c) \cup MessagesAt(b, ks \cap DOMAIN b)
BY DEF Stored, MessagesAt

LEMMA LostGrows ==
    ASSUME NEW ms, NEW r, Lose(ms, r)
    PROVE  LostMsgs' = LostMsgs \cup ms
<1>1. \A l \in ms \X {r} : l[1] \in ms
  OBVIOUS
<1>2. \A m \in ms : <<m, r>> \in ms \X {r} /\ <<m, r>>[1] = m
  OBVIOUS
<1>3. \A m : m \in LostMsgs' <=> m \in LostMsgs \/ m \in ms
  BY <1>1, <1>2 DEF Lose, LostMsgs
<1>4. QED  BY <1>3

\* No step makes a copy vanish unless its message arrived before or its loss
\* is recorded.
LEMMA KeptStep ==
    ASSUME TypeOK, ProcLifeCycle, AnswerMeansArrived, NanoKeysUnique,
           [Next]_vars
    PROVE  Kept \subseteq Kept' \cup Arrived \cup LostMsgs'
<1> USE DEF appVars, procVars, retVars, dbVars, lifeVars, envVars
<1> DEFINE Goal == Kept \subseteq Kept' \cup Arrived \cup LostMsgs'
<1>1. ASSUME Elements(queue) \cup Elements(batch)
                \subseteq Elements(queue') \cup Elements(batch') \cup LostMsgs',
             bucket' = bucket
      PROVE  Goal
  BY <1>1 DEF Kept
<1>2. ASSUME NEW m \in Msg, Publish(m) \/ SentDirectly(m)
      PROVE  Goal
  BY <1>1, <1>2 DEF Publish, SentDirectly
<1>3. ASSUME NEW m \in Msg, Enqueue(m)
      PROVE  Goal
  <2>1. Elements(queue) \subseteq Elements(queue')
    BY <1>3, AppendElements DEF TypeOK, Enqueue
  <2>2. QED  BY <1>1, <1>3, <2>1 DEF Enqueue
<1>4. ASSUME NEW m \in Msg, StorePublished(m)
      PROVE  Goal
  <2>1. CASE UNCHANGED dbVars
    BY <1>1, <1>4, <2>1 DEF StorePublished
  <2>2. CASE bucket' = Put(bucket, NanoKey(nano), m, clock)
    <3>0. NanoKey(nano) \notin DOMAIN bucket
      BY KeyFacts DEF NanoKeysUnique, TypeOK
    <3>1. \A k \in DOMAIN bucket : k \in DOMAIN bucket' /\ bucket'[k] = bucket[k]
      BY <2>2, <3>0 DEF Put
    <3>2. Stored(bucket) \subseteq Stored(bucket')
      BY <3>1 DEF Stored, MessagesAt
    <3>3. QED  BY <1>4, <3>2 DEF Kept, StorePublished
  <2>3. QED  BY <1>4, <2>1, <2>2 DEF StorePublished
<1>5. ASSUME NEW s \in Sender, SendMessages(s)
      PROVE  Goal
  BY <1>1, <1>5
     DEF SendMessages, Arrive, Succeed, Refuse, NetworkError,
         ServerError, GiveUp
<1>6. CASE ProcReceive \/ ProcDrain
  <2>1. /\ Elements(queue) = {Head(queue)} \cup Elements(queue')
        /\ Head(queue) \in Msg
    BY <1>6, TailElements DEF TypeOK, ProcReceive, ProcDrain
  <2>2. batch' = Append(batch, Head(queue)) /\ bucket' = bucket
    BY <1>6 DEF ProcReceive, ProcDrain, ProcSend
  <2>3. Elements(batch') = Elements(batch) \cup {Head(queue)}
    BY <2>1, <2>2, AppendElements DEF TypeOK
  <2>4. QED  BY <1>1, <2>1, <2>2, <2>3
<1>7. CASE ProcTick \/ ProcDone \/ ProcDrained \/ ProcBeaten
  BY <1>1, <1>7 DEF ProcTick, ProcDone, ProcDrained, ProcBeaten, ProcSend
<1>8. CASE ProcSent
  <2>1. Elements(batch) \subseteq Arrived
    BY <1>8 DEF ProcSent, AnswerMeansArrived
  <2>2. QED  BY <1>8, <2>1 DEF Kept, ProcSent
<1>9. CASE ProcFailed
  <2>1. Lose(Elements(batch), "dropped") => Elements(batch) \subseteq LostMsgs'
    BY LostGrows
  <2>2. QED  BY <1>1, <1>9, <2>1 DEF ProcFailed
<1>10. CASE ProcStore
  <2> DEFINE m == Head(batch)
             k == SecondKey(clock)
             over == MessagesAt(bucket, {k} \cap DOMAIN bucket)
  <2>1. Elements(batch) = {m} \cup Elements(batch') /\ queue' = queue
    BY <1>10, TailElements DEF TypeOK, ProcStore, ProcLifeCycle
  <2>2. CASE \E r : Lose({m}, r) /\ UNCHANGED bucket
    <3>1. m \in LostMsgs'
      BY <2>2, LostGrows
    <3>2. QED  BY <1>1, <2>1, <2>2, <3>1
  <2>3. CASE Lose(over, "overwritten") /\ bucket' = Put(bucket, k, m, clock)
    <3>1. over \subseteq LostMsgs'
      BY <2>3, LostGrows
    <3>2. \A j \in DOMAIN bucket \ {k} : j \in DOMAIN bucket' /\ bucket'[j] = bucket[j]
      BY <2>3 DEF Put
    <3>3. Stored(bucket) \subseteq Stored(bucket') \cup over
      BY <3>2, StoredKeeps
    <3>4. k \in DOMAIN bucket' /\ bucket'[k].msg = m
      BY <2>3 DEF Put
    <3>5. m \in Stored(bucket')
      BY <3>4 DEF Stored, MessagesAt
    <3>6. QED  BY <2>1, <3>1, <3>3, <3>5 DEF Kept
  <2>4. QED  BY <1>10, <2>2, <2>3 DEF ProcStore
<1>11. CASE ProcTidy
  <2>1. queue' = queue /\ batch' = batch
    BY <1>11 DEF ProcTidy
  <2>2. CASE ~OfflineStorage
    BY <1>1, <1>11, <2>1, <2>2 DEF ProcTidy
  <2>3. CASE OfflineStorage
    <3> DEFINE old == DOMAIN bucket \ DOMAIN bucket'
    <3>1. MessagesAt(bucket, old) \subseteq LostMsgs'
      BY <1>11, <2>3, LostGrows DEF ProcTidy
    <3>2. \A j \in DOMAIN bucket' : bucket'[j] = bucket[j]
      BY <1>11, <2>3, CleanupType DEF ProcTidy, TypeOK
    <3>3. Stored(bucket) \subseteq Stored(bucket') \cup MessagesAt(bucket, old)
      BY <3>2 DEF Stored, MessagesAt
    <3>4. QED  BY <2>1, <3>1, <3>3 DEF Kept
  <2>4. QED  BY <2>2, <2>3
<1>12. CASE RetFetch
  <2> DEFINE read == GetBatch(bucket, RetryBatchSize)
             old  == ExpiredKeys(read, clock)
  <2>1. /\ bucket' = DeleteBatch(bucket, old)
        /\ Lose(MessagesAt(read, old), "expired")
        /\ queue' = queue /\ batch' = batch
    BY <1>12 DEF RetFetch
  <2>2. MessagesAt(read, old) \subseteq LostMsgs'
    BY <2>1, LostGrows
  <2>3. /\ old \subseteq DOMAIN read /\ DOMAIN read \subseteq DOMAIN bucket
        /\ \A j \in old : read[j] = bucket[j]
    BY GetBatchType DEF ExpiredKeys, TypeOK
  <2>4. MessagesAt(bucket, old) = MessagesAt(read, old)
    BY <2>3 DEF MessagesAt
  <2>5. \A j \in DOMAIN bucket \ old : j \in DOMAIN bucket' /\ bucket'[j] = bucket[j]
    BY <2>1 DEF DeleteBatch, Restrict
  <2>6. Stored(bucket) \subseteq Stored(bucket') \cup MessagesAt(bucket, old)
    <3>1. old \cap DOMAIN bucket = old
      BY <2>3
    <3>2. QED  BY <2>5, <3>1, StoredKeeps
  <2>7. QED  BY <2>1, <2>2, <2>4, <2>6 DEF Kept
<1>13. CASE RetSent
  <2> DEFINE other == {k \in DOMAIN held \cap DOMAIN bucket :
                          bucket[k] # held[k]}
             ids   == DOMAIN held
  <2>1. /\ bucket' = DeleteBatch(bucket, ids)
        /\ Lose(MessagesAt(bucket, other), "wiped")
        /\ queue' = queue /\ batch' = batch
    BY <1>13 DEF RetSent
  <2>2. MessagesAt(bucket, other) \subseteq LostMsgs'
    BY <2>1, LostGrows
  <2>3. Stored(held) \subseteq Arrived
    BY <1>13 DEF RetSent, AnswerMeansArrived
  <2>4. \A j \in DOMAIN bucket \ ids : j \in DOMAIN bucket' /\ bucket'[j] = bucket[j]
    BY <2>1 DEF DeleteBatch, Restrict
  <2>5. Stored(bucket) \subseteq Stored(bucket') \cup MessagesAt(bucket, ids \cap DOMAIN bucket)
    BY <2>4, StoredKeeps
  <2>6. MessagesAt(bucket, ids \cap DOMAIN bucket)
           \subseteq MessagesAt(bucket, other) \cup Stored(held)
    BY DEF MessagesAt, Stored
  <2>7. QED  BY <2>1, <2>2, <2>3, <2>5, <2>6 DEF Kept
<1>14. CASE Reboot
  <2>1. Elements(queue) \cup Elements(batch) \subseteq LostMsgs'
    BY <1>14, LostGrows DEF Reboot
  <2>2. QED  BY <1>1, <1>14, <2>1 DEF Reboot
<1>15. CASE \/ RetTick \/ RetFailed \/ RetDone
            \/ Probe \/ Poll \/ NetChange \/ Tick \/ TetherDone \/ TetherStopped
            \/ StopClose \/ StopFinish \/ \E g \in {"mon", "poll"} : Leave(g)
  BY <1>1, <1>15
     DEF RetTick, RetFailed, RetDone, Probe, Poll, NetChange, Tick, TetherDone,
         TetherStopped, TetherReturn, StopClose, StopFinish, Leave
<1>16. CASE UNCHANGED vars
  BY <1>1, <1>16 DEF vars
<1>17. QED
  BY <1>2, <1>3, <1>4, <1>5, <1>6, <1>7, <1>8, <1>9, <1>10, <1>11, <1>12,
     <1>13, <1>14, <1>15, <1>16, SenderFacts DEF Next, ProcStep, RetStep

\* What Publish accepts in one step it keeps, or has delivered.
LEMMA AcceptStep ==
    ASSUME TypeOK, AnswerMeansArrived, DirectStaysDirect, [Next]_vars
    PROVE  Accepted' \subseteq Accepted \cup Kept' \cup Arrived
<1> USE DEF appVars, procVars, retVars, dbVars, lifeVars, envVars
<1>1. ASSUME NEW m \in Msg, Publish(m)
      PROVE  Accepted' \subseteq Accepted
  BY <1>1 DEF TypeOK, Publish, Accepted
<1>2. ASSUME NEW m \in Msg, Enqueue(m)
      PROVE  Accepted' \subseteq Accepted \cup Kept'
  <2>1. CASE queue' = Append(queue, m)
    <3>1. m \in Kept'
      BY <2>1, AppendElements DEF TypeOK, Kept
    <3>2. Accepted' \subseteq Accepted \cup {m}
      BY <1>2 DEF TypeOK, Enqueue, Accepted
    <3>3. QED  BY <3>1, <3>2
  <2>2. CASE pub'[m] # "ok"
    BY <1>2, <2>2 DEF TypeOK, Enqueue, Accepted
  <2>3. QED  BY <1>2, <2>1, <2>2 DEF TypeOK, Enqueue
<1>3. ASSUME NEW m \in Msg, StorePublished(m)
      PROVE  Accepted' \subseteq Accepted \cup Kept'
  <2>1. Accepted' \subseteq Accepted \cup {m}
    BY <1>3 DEF TypeOK, StorePublished, Accepted
  <2>2. CASE bucket' = Put(bucket, NanoKey(nano), m, clock)
    <3>1. NanoKey(nano) \in DOMAIN bucket' /\ bucket'[NanoKey(nano)].msg = m
      BY <2>2 DEF Put
    <3>2. m \in Kept'
      BY <3>1 DEF Kept, Stored, MessagesAt
    <3>3. QED  BY <2>1, <3>2
  <2>3. CASE pub'[m] # "ok"
    BY <2>1, <2>3 DEF Accepted
  <2>4. QED  BY <1>3, <2>2, <2>3 DEF TypeOK, StorePublished
<1>4. ASSUME NEW m \in Sync, SentDirectly(m)
      PROVE  Accepted' \subseteq Accepted \cup Arrived
  <2>1. m \in Msg /\ http[m] = "ok" => m \in Arrived
    BY DeliveryAssumption DEF AnswerMeansArrived
  <2>2. QED
    BY <1>4, <2>1 DEF TypeOK, SentDirectly, Accepted
<1>5. ASSUME \A m \in Msg : pub'[m] = pub[m] \/ pub'[m] # "ok"
      PROVE  Accepted' \subseteq Accepted
  BY <1>5 DEF Accepted
<1>6. ASSUME NEW s \in Sender, SendMessages(s)
      PROVE  Accepted' \subseteq Accepted
  BY <1>5, <1>6
     DEF SendMessages, Arrive, Succeed, Refuse, NetworkError,
         ServerError, GiveUp
<1>7. CASE ProcStep
  BY <1>5, <1>7
     DEF ProcStep, ProcReceive, ProcTick, ProcDone, ProcDrain, ProcDrained,
         ProcSent, ProcFailed, ProcStore, ProcTidy, ProcBeaten
<1>8. CASE RetStep
  BY <1>5, <1>8 DEF RetStep, RetTick, RetFetch, RetSent, RetFailed, RetDone
<1>9. CASE \/ Probe \/ Poll \/ NetChange \/ Tick \/ TetherDone \/ TetherStopped
           \/ StopClose \/ StopFinish \/ Reboot
           \/ \E g \in {"mon", "poll"} : Leave(g)
  BY <1>5, <1>9
     DEF Probe, Poll, NetChange, Tick, TetherDone, TetherStopped, TetherReturn,
         StopClose, StopFinish, Leave, Reboot
<1>10. CASE UNCHANGED vars
  BY <1>5, <1>10 DEF vars
<1>11. QED
  BY <1>1, <1>2, <1>3, <1>4, <1>6, <1>7, <1>8, <1>9, <1>10, SenderFacts DEF Next

LEMMA LostNeverShrinks ==
    ASSUME [Next]_vars
    PROVE  LostMsgs \subseteq LostMsgs'
<1> USE DEF appVars, procVars, retVars, dbVars, lifeVars, envVars
<1>1. ASSUME lost \subseteq lost' PROVE LostMsgs \subseteq LostMsgs'
  BY <1>1 DEF LostMsgs
<1>2. ASSUME NEW m \in Msg,
             Publish(m) \/ Enqueue(m) \/ StorePublished(m) \/ SentDirectly(m)
      PROVE  LostMsgs \subseteq LostMsgs'
  BY <1>1, <1>2 DEF Publish, Enqueue, StorePublished, SentDirectly
<1>3. ASSUME NEW s \in Sender, SendMessages(s)
      PROVE  LostMsgs \subseteq LostMsgs'
  BY <1>1, <1>3
     DEF SendMessages, Arrive, Succeed, Refuse, NetworkError,
         ServerError, GiveUp
<1>4. CASE ProcStep
  BY <1>1, <1>4
     DEF ProcStep, ProcReceive, ProcTick, ProcDone, ProcDrain, ProcDrained,
         ProcSent, ProcFailed, ProcStore, ProcTidy, ProcBeaten, Lose
<1>5. CASE RetStep
  BY <1>1, <1>5
     DEF RetStep, RetTick, RetFetch, RetSent, RetFailed, RetDone, Lose
<1>6. CASE \/ Probe \/ Poll \/ NetChange \/ Tick \/ TetherDone \/ TetherStopped
           \/ StopClose \/ StopFinish \/ Reboot
           \/ \E g \in {"mon", "poll"} : Leave(g)
  BY <1>1, <1>6
     DEF Probe, Poll, NetChange, Tick, TetherDone, TetherStopped, TetherReturn,
         StopClose, StopFinish, Reboot, Leave, Lose
<1>7. CASE UNCHANGED vars
  BY <1>1, <1>7 DEF vars
<1>8. QED
  BY <1>2, <1>3, <1>4, <1>5, <1>6, <1>7, SenderFacts DEF Next

LEMMA AccountedStep ==
    ASSUME IInv, [Next]_vars
    PROVE  Accounted'
<1>1. Kept \subseteq Kept' \cup Arrived \cup LostMsgs'
  BY KeptStep DEF IInv
<1>2. Accepted' \subseteq Accepted \cup Kept' \cup Arrived
  BY AcceptStep DEF IInv
<1>3. QED
  BY <1>1, <1>2, ArrivedGrows, LostNeverShrinks DEF IInv, Accounted

-----------------------------------------------------------------------------
(***************************************************************************)
(* The invariant, and the theorems.                                        *)
(***************************************************************************)
LEMMA InitIInv == Init => IInv
<1>1. SUFFICES ASSUME Init PROVE IInv
  OBVIOUS
<1>2. TypeOK
  BY <1>1, TypeInit
<1>3. DOMAIN bucket = {} /\ DOMAIN held = {} /\ Elements(batch) = {}
  BY <1>1, EmptyBucketType, ElementsType DEF Init
<1>4. Accepted = {} /\ \A s \in Sender : http[s] = "idle"
  BY <1>1 DEF Init, Accepted
<1>5. Accounted /\ Drained
  BY <1>1, <1>4 DEF Init, Accounted, Drained
<1>6. AnswerMeansArrived /\ DirectMeansDelivered /\ DirectStaysDirect
  BY <1>1, <1>4, SenderFacts
     DEF Init, AnswerMeansArrived, DirectMeansDelivered, DirectStaysDirect
<1>7. NanoKeysUnique
  BY <1>3 DEF NanoKeysUnique
<1>8. ProcLifeCycle /\ RetLifeCycle /\ StopLifeCycle
  BY <1>1, <1>4, SenderFacts
     DEF Init, ProcLifeCycle, RetLifeCycle, StopLifeCycle, Goroutine
<1>9. NothingClosed
  BY <1>1 DEF Init, NothingClosed
<1>10. QED
  BY <1>2, <1>5, <1>6, <1>7, <1>8, <1>9 DEF IInv

LEMMA NextIInv == IInv /\ [Next]_vars => IInv'
<1>1. SUFFICES ASSUME IInv, [Next]_vars PROVE IInv'
  OBVIOUS
<1>2. TypeOK'
  <2>1. TypeOK /\ (batch # <<>> \/ proc # "store")
    BY <1>1 DEF IInv, ProcLifeCycle
  <2>2. QED
    BY <1>1, <2>1, TypeSend, TypePublish, TypeProc, TypeRet, TypeOthers,
       TypeStutter, SenderFacts DEF Next
<1>3. ProcLifeCycle' /\ RetLifeCycle' /\ StopLifeCycle'
  BY <1>1, ProcLifeCycleStep, RetLifeCycleStep, StopLifeCycleStep DEF IInv
<1>4. NothingClosed'
  BY <1>1, NothingClosedStep DEF IInv
<1>5. Drained'
  BY <1>1, <1>2, DrainedStep DEF IInv
<1>6. AnswerMeansArrived'
  BY <1>1, <1>2, AnswerMeansArrivedStep DEF IInv
<1>7. DirectStaysDirect' /\ DirectMeansDelivered'
  BY <1>1, DirectStep DEF IInv
<1>8. NanoKeysUnique'
  BY <1>1, <1>2, NanoKeysUniqueStep DEF IInv
<1>9. Accounted'
  BY <1>1, AccountedStep
<1>10. QED
  BY <1>2, <1>3, <1>4, <1>5, <1>6, <1>7, <1>8, <1>9 DEF IInv

\* The inductive invariant: besides the properties below, what the positions of
\* processQueue, retryOfflineMessages, Stop and the calls say of each other.
THEOREM Invariance == Spec => []IInv
BY InitIInv, NextIInv, PTL DEF Spec

\* Every variable keeps its type: the type invariant of the outbound pipeline,
\* whatever the sizes, the switches and the faults.
THEOREM TypeCorrect == Spec => []TypeOK
<1>1. IInv => TypeOK
  BY DEF IInv
<1>2. QED  BY Invariance, <1>1, PTL

\* Conservation across Publish, processQueue, retryOfflineMessages,
\* CleanupExpired, Stop and crashes: an accepted message is kept, has arrived,
\* or its loss is on record.
THEOREM MessagesAccounted == Spec => []Accounted
<1>1. IInv => Accounted
  BY DEF IInv
<1>2. QED  BY Invariance, <1>1, PTL

\* A Publish with waitResponse that returns no error was answered with a 2xx:
\* its message is at the backend.
THEOREM DirectDelivered == Spec => []DirectMeansDelivered
<1>1. IInv => DirectMeansDelivered
  BY DEF IInv
<1>2. QED  BY Invariance, <1>1, PTL

\* processQueue drains: once it has returned, nothing accepted before Stop
\* closed `done` is in the queue or in the batch.
THEOREM ShutdownDrains == Spec => []DrainComplete
<1>1. IInv => DrainComplete
  BY ElementsType DEF IInv, Drained, ProcLifeCycle, DrainComplete
<1>2. QED  BY Invariance, <1>1, PTL

\* Stop closes the store after the last goroutine that uses it: none of them
\* ever finds it closed.
THEOREM StorageClosedLast == Spec => []StorageOutlivesWorkers
<1>1. IInv => StorageOutlivesWorkers
  BY DEF IInv, NothingClosed, StopLifeCycle, ProcLifeCycle, RetLifeCycle,
         StorageOutlivesWorkers
<1>2. QED  BY Invariance, <1>1, PTL

=============================================================================
