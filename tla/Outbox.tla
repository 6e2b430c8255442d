------------------------------- MODULE Outbox -------------------------------
(***************************************************************************)
(* What the outbound half of the client promises, whatever queue, store,   *)
(* retries and threads it is built from: a message that was accepted is    *)
(* kept until the backend has it, or its loss is on record; and the        *)
(* backend gets nothing the application did not publish.                   *)
(***************************************************************************)
CONSTANTS Msg,
          Direct    \* messages sent before they are accepted

VARIABLES accepted,   \* Publish returned nil
          kept,       \* the client has a copy
          delivered,  \* the backend has a copy
          gone        \* the client destroyed a copy on record

outboxVars == <<accepted, kept, delivered, gone>>

OutboxInit ==
    /\ accepted = {}
    /\ kept = {}
    /\ delivered = {}
    /\ gone = {}

\* Publish returns nil: the message is kept, or was delivered meanwhile.
Accept(m) ==
    /\ m \notin accepted
    /\ accepted' = accepted \cup {m}
    /\ IF m \in Direct
       THEN m \in delivered /\ UNCHANGED kept
       ELSE kept' = kept \cup {m}
    /\ UNCHANGED <<delivered, gone>>

\* A request arrives; a copy of an accepted message may still be in flight
\* after the client gave up its own.
Deliver(S) ==
    /\ S \subseteq accepted \cup Direct
    /\ delivered' = delivered \cup S
    /\ UNCHANGED <<accepted, kept, gone>>

\* Copies go: those of delivered messages, or on record.
Forget(S) ==
    /\ S \subseteq kept
    /\ kept' = kept \ S
    /\ gone' \in {gone \cup T : T \in SUBSET S}
    /\ S \subseteq delivered \cup gone'
    /\ UNCHANGED <<accepted, delivered>>

OutboxNext ==
    \/ \E m \in Msg : Accept(m)
    \/ \E S \in SUBSET Msg : Deliver(S) \/ Forget(S)

OutboxSpec == OutboxInit /\ [][OutboxNext]_outboxVars
=============================================================================
