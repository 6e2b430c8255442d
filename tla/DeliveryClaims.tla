--------------------------- MODULE DeliveryClaims ---------------------------
(***************************************************************************)
(* What the documentation and the comments say of the outbound pipeline    *)
(* and the code does not do.  Each claim is refuted by one run.            *)
(***************************************************************************)
EXTENDS Delivery

\* client_queue.go:127 "flushBatch sends a batch and persists it when the send
\* fails": no failed message is destroyed by the storing of another.  The keys
\* of failed messages are the current second, so a second one replaces the
\* first.
FailedBatchPersisted ==
    \A m \in Msg : <<m, "overwritten">> \in lost => m \in Arrived

\* README.md:156 "a stored message is retried until it succeeds or its 1-hour
\* TTL expires": with the network up for good, the retrier takes up a stored
\* message within its hour (the run's clock stands still, so the hour is not
\* over).  With the connectivity check switched off, and no handler to poll
\* for, nothing sets the online flag again after one network error, and the
\* retrier skips every cycle until the processor's cleanup finds the message
\* expired.
RetriedUntilSent ==
    <>[](net = "up" /\ stop = "running") =>
        \A m \in Msg :
            m \in Stored(bucket) ~> m \in Stored(held) \/ m \notin Stored(bucket)

\* README.md:291 "Target entity (empty string for default)", and
\* client_publishing.go:13 "Backend expects data to be a dict/object, not a
\* string": a message arrives as it was published, whichever way it took.  The
\* store has no field for the destination, and a replay sends the stored JSON
\* text as a string.
ArrivesAsPublished == \A w \in received : w = Wire(w.msg, FALSE)
=============================================================================
