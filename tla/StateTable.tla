----------------------------- MODULE StateTable -----------------------------
(***************************************************************************)
(* CheckState (client_state.go): the background poller, and any goroutine  *)
(* of the application that calls it too, asks the backend for the entity's *)
(* state table, records it under the client's mutex and calls the handler, *)
(* with the mutex released, if the table is not the one recorded before.   *)
(* The backend's table is numbered by its changes, so that two different   *)
(* tables with equal content can be told apart by the properties; the code *)
(* compares contents.                                                      *)
(***************************************************************************)
EXTENDS Naturals

CONSTANTS Checker,      \* goroutines that call CheckState, "poll" among them
          Content,      \* contents of the table
          NoContent,    \* stands for the content of no table
          MaxChanges    \* bound on the changes at the backend

ASSUME StateTableAssumption ==
    /\ "poll" \in Checker
    /\ MaxChanges \in Nat
    /\ Content # {}
    /\ NoContent \notin Content

Table == [number : 0..MaxChanges, content : Content]

NoTable == [number |-> 0, content |-> NoContent]

VARIABLES
    table,        \* the backend's table
    registered,   \* a state handler is registered
    pc,           \* per checker, where its CheckState is
    got,          \* per checker, the table it was answered with
    last,         \* c.lastState, NoTable while lastStateInit is false
    view,         \* what the handler was called with last, or the baseline
    shown,        \* history: how often the handler was called per table number
    overlapped    \* history: two calls of CheckState were under way at once

vars == <<table, registered, pc, got, last, view, shown, overlapped>>

TypeOK ==
    /\ table \in Table
    /\ registered \in BOOLEAN
    /\ pc \in [Checker -> {"idle", "asked", "answered", "dispatch"}]
    /\ got \in [Checker -> Table \cup {NoTable}]
    /\ \A c \in Checker : got[c] = NoTable <=> pc[c] \in {"idle", "asked"}
    /\ last \in Table \cup {NoTable}
    /\ view \in Table \cup {NoTable}
    /\ shown \in [0..MaxChanges -> Nat]
    /\ overlapped \in BOOLEAN

Init ==
    /\ table \in [number : {0}, content : Content]
    /\ registered = FALSE
    /\ pc = [c \in Checker |-> "idle"]
    /\ got = [c \in Checker |-> NoTable]
    /\ last = NoTable
    /\ view = NoTable
    /\ shown = [n \in 0..MaxChanges |-> 0]
    /\ overlapped = FALSE
-----------------------------------------------------------------------------
\* OnState, SetStateCallback.
Register ==
    /\ ~registered
    /\ registered' = TRUE
    /\ UNCHANGED <<table, pc, got, last, view, shown, overlapped>>

\* Another client, or the backend itself, changes the table.
Change ==
    /\ table.number < MaxChanges
    /\ \E s \in Content \ {table.content} :
          table' = [number |-> table.number + 1, content |-> s]
    /\ UNCHANGED <<registered, pc, got, last, view, shown, overlapped>>

\* CheckState without a handler makes no request.
Ask(c) ==
    /\ pc[c] = "idle"
    /\ registered
    /\ pc' = [pc EXCEPT ![c] = "asked"]
    /\ overlapped' = (overlapped \/ \E d \in Checker \ {c} : pc[d] # "idle")
    /\ UNCHANGED <<table, registered, got, last, view, shown>>

\* The backend answers with the table it has now.
Serve(c) ==
    /\ pc[c] = "asked"
    /\ pc' = [pc EXCEPT ![c] = "answered"]
    /\ got' = [got EXCEPT ![c] = table]
    /\ UNCHANGED <<table, registered, last, view, shown, overlapped>>

Finish(c) ==
    /\ pc' = [pc EXCEPT ![c] = "idle"]
    /\ got' = [got EXCEPT ![c] = NoTable]

\* The request fails, is answered with another status, or does not decode.
Fail(c) ==
    /\ pc[c] \in {"asked", "answered"}
    /\ Finish(c)
    /\ UNCHANGED <<table, registered, last, view, shown, overlapped>>

\* Mutant: only the baseline is recorded.
RecordOnce(c) ==
    /\ pc[c] = "answered"
    /\ last' = IF last = NoTable THEN got[c] ELSE last
    /\ IF last # NoTable /\ last.content # got[c].content
       THEN pc' = [pc EXCEPT ![c] = "dispatch"] /\ UNCHANGED got
       ELSE Finish(c)
    /\ view' = IF last = NoTable THEN got[c] ELSE view
    /\ UNCHANGED <<table, registered, shown, overlapped>>

\* Mutant: the old table is read after the new one was stored, so they are
\* always equal.
RecordNoDispatch(c) ==
    /\ pc[c] = "answered"
    /\ last' = got[c]
    /\ Finish(c)
    /\ view' = IF last = NoTable THEN got[c] ELSE view
    /\ UNCHANGED <<table, registered, shown, overlapped>>

\* Mutant: the table is recorded once, and later answers are ignored.
RecordBaselineOnly(c) ==
    /\ pc[c] = "answered"
    /\ last' = IF last = NoTable THEN got[c] ELSE last
    /\ view' = last'
    /\ Finish(c)
    /\ UNCHANGED <<table, registered, shown, overlapped>>

\* The critical section.  The first table recorded is the baseline, which is
\* not dispatched; `view` takes it, since the application has it for granted.
Record(c) ==
    /\ pc[c] = "answered"
    /\ last' = got[c]
    /\ IF last # NoTable /\ last.content # got[c].content
       THEN pc' = [pc EXCEPT ![c] = "dispatch"] /\ UNCHANGED got
       ELSE Finish(c)
    /\ view' = IF last = NoTable THEN got[c] ELSE view
    /\ UNCHANGED <<table, registered, shown, overlapped>>

\* dispatchState: the handler runs, without the mutex.  An error it returns
\* goes to the caller and changes nothing.
Dispatch(c) ==
    /\ pc[c] = "dispatch"
    /\ view' = got[c]
    /\ shown' = [shown EXCEPT ![got[c].number] = @ + 1]
    /\ Finish(c)
    /\ UNCHANGED <<table, registered, last, overlapped>>

CheckState(c) == Serve(c) \/ Fail(c) \/ Record(c) \/ Dispatch(c)

Next ==
    \/ Register \/ Change
    \/ \E c \in Checker : Ask(c) \/ CheckState(c)

Spec == Init /\ [][Next]_vars

\* A call that has begun ends, by the timeout of the HTTP client at the latest,
\* and the poller begins another whenever its timer fires.
Fairness == (\A c \in Checker : WF_vars(CheckState(c))) /\ WF_vars(Ask("poll"))

LiveSpec == Spec /\ Fairness
-----------------------------------------------------------------------------
\* The poller's requests do not fail for ever.
PollsSucceed == []<><<Record("poll")>>_vars

\* client_state.go:109 "cannot see a stale snapshot and fire the handler twice":
\* the handler hears of one table at most once, also of one whose content was
\* there before.
OneCallPerChange == \A n \in 0..MaxChanges : shown[n] <= 1

\* That comment holds as long as no two calls of CheckState are under way at
\* once, however often the application calls it between the poller's calls.
HeardOnceInTurn == OneCallPerChange \/ overlapped

\* README.md:483 "The handler fires when the table changes": what the handler
\* knows comes to be what the backend has, once the table no longer changes,
\* whatever requests failed on the way, if no two calls overlapped.
HandlerUpToDate ==
    PollsSucceed => <>[](overlapped \/ view.content = table.content)

\* Whoever else calls CheckState at the same time, the recorded table comes to
\* be the one the backend has.
RecordFollows == PollsSucceed => <>[](last.content = table.content)
=============================================================================
