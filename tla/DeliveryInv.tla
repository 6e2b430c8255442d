----------------------------- MODULE DeliveryInv -----------------------------
(***************************************************************************)
(* The inductive invariant behind the safety properties of Delivery, in    *)
(* named parts.  The runs check it; DeliveryProofs proves it.              *)
(***************************************************************************)
EXTENDS Delivery

\* A call of sendMessages that has its 2xx has its payload at the backend.
AnswerMeansArrived ==
    /\ proc = "send" /\ http["proc"] \in {"accepted", "ok"} =>
          Elements(batch) \subseteq Arrived
    /\ ret = "send" /\ http["ret"] \in {"accepted", "ok"} =>
          Stored(held) \subseteq Arrived
    /\ \A m \in Sync : http[m] \in {"accepted", "ok"} => m \in Arrived

\* Messages sent directly never take the way through the queue or the store.
DirectStaysDirect == \A m \in Sync : pub[m] \notin {"enqueue", "store"}

\* Nanosecond keys are never reused, so the entries the retrier holds under
\* such keys are still the ones in the store.
NanoKeysUnique ==
    /\ \A k \in DOMAIN bucket : k.kind = "nano" => k.at < nano
    /\ \A k \in DOMAIN held : k.kind = "nano" =>
          /\ k.at < nano
          /\ k \in DOMAIN bucket => bucket[k] = held[k]

\* The queue processor is past its select for good only after `done` is
\* closed, and it is counted by the wait group until it returns.
ProcLifeCycle ==
    /\ why = "done" \/ proc \in {"drain", "exited"} => stop # "running"
    /\ "proc" \in running <=> proc # "exited"
    /\ proc = "exited" => batch = <<>>
    /\ proc \in {"store", "send"} => batch # <<>>
    /\ proc \in {"tidy", "beat"} => batch = <<>>
    /\ why = "done" => proc \in {"send", "store", "exited"}
    /\ http["proc"] # "idle" => proc \in {"send", "beat"}

\* The retrier is inside a cycle only while it is counted.
RetLifeCycle ==
    /\ ret # "idle" => "ret" \in running
    /\ http["ret"] # "idle" => ret = "send"

\* Stop returns after everyone it waits for.
StopLifeCycle == stop = "stopped" => running = {}

\* From the turn that finds the queue empty on, no message accepted before
\* Stop comes back to it.
Drained ==
    /\ atStop \subseteq Accepted
    /\ stop = "running" => atStop = {}
    /\ proc = "exited" \/ why = "done" => atStop \cap Elements(queue) = {}

NothingClosed == \A m \in Msg : <<m, "closed">> \notin lost

IInv ==
    /\ TypeOK
    /\ Accounted
    /\ DirectMeansDelivered
    /\ AnswerMeansArrived
    /\ DirectStaysDirect
    /\ NanoKeysUnique
    /\ ProcLifeCycle
    /\ RetLifeCycle
    /\ StopLifeCycle
    /\ Drained
    /\ NothingClosed
=============================================================================
