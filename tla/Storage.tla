------------------------------- MODULE Storage -------------------------------
(***************************************************************************)
(* The offline store of the client (src/tendrl/storage.go): one BoltDB     *)
(* bucket, a map from a string key to a stored message with a time stamp   *)
(* and a TTL.  A bucket is a function from a finite set of keys to         *)
(* entries; every bbolt call is one transaction, so every operator here is *)
(* one atomic step of whoever uses it.                                     *)
(*                                                                         *)
(* The two key formats the client writes are kept apart, because the       *)
(* iteration order of the bucket and the uniqueness of a key depend on     *)
(* them:                                                                   *)
(*   "sec"   time.Now().Format(time.RFC3339), one key per second           *)
(*   "nano"  fmt.Sprintf("msg_%d", time.Now().UnixNano())                  *)
(***************************************************************************)
EXTENDS Naturals, FiniteSets, Functions

CONSTANTS Msg,   \* the messages the application publishes
          TTL    \* life time of a stored message, in ticks (3600 s in the code)

ASSUME TTLAssumption == TTL \in Nat

Key == [kind : {"sec", "nano"}, at : Nat]

Entry == [msg : Msg, ts : Nat]

\* A bucket, or a part of one.
IsBucket(b) == DOMAIN b \subseteq Key /\ b \in [DOMAIN b -> Entry]

SecondKey(now) == [kind |-> "sec", at |-> now]

NanoKey(n) == [kind |-> "nano", at |-> n]

EmptyBucket == [k \in {} |-> 0]

\* The messages under the keys ks of bucket b, and all that have a copy in it.
MessagesAt(b, ks) == {b[k].msg : k \in ks}

Stored(b) == MessagesAt(b, DOMAIN b)

\* Byte order of the keys: a digit sorts before the 'm' of "msg_".
Before(j, k) ==
    \/ j.kind = "sec" /\ k.kind = "nano"
    \/ j.kind = k.kind /\ j.at < k.at

\* Store: a Put replaces whatever the key held.
Put(b, k, m, now) ==
    [j \in DOMAIN b \cup {k} |->
        IF j = k THEN [msg |-> m, ts |-> now] ELSE b[j]]

Expired(e, now) == now >= e.ts + TTL

ExpiredKeys(b, now) == {k \in DOMAIN b : Expired(b[k], now)}

\* GetBatch: the first limit entries in key order.
GetBatch(b, limit) ==
    Restrict(b, {k \in DOMAIN b :
                    Cardinality({j \in DOMAIN b : Before(j, k)}) < limit})

DeleteBatch(b, ids) == Restrict(b, DOMAIN b \ ids)

\* CleanupExpired deletes from the bucket it is iterating over, and bbolt
\* leaves open which entries such an iteration still visits: some of the
\* expired entries go, at least one if there is any, never a live one.
CleanupExpired(b, now) ==
    LET old == ExpiredKeys(b, now) IN
    {DeleteBatch(b, ids) : ids \in {s \in SUBSET old : s = {} => old = {}}}
=============================================================================
