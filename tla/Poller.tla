------------------------------- MODULE Poller -------------------------------
(***************************************************************************)
(* The inbound messages (client_callbacks.go and client_routes.go).  The   *)
(* poller of a managed client is a goroutine that waits for its timer, for *)
(* a change of the check rate and for `done`; on a tick it checks for      *)
(* messages and rearms the timer.  The application may call CheckMessages  *)
(* itself at the same time.  A check fetches messages and calls a handler  *)
(* for one after the other.  Any goroutine, a handler included, may        *)
(* register handlers or change the rate meanwhile.                         *)
(*                                                                         *)
(* Messages are numbered in the order the backend queues them, and the     *)
(* backend hands each out once.  The critical sections of c.mu contain     *)
(* nothing that blocks, so each is part of the step that enters it.  The   *)
(* timer may expire whenever the poller waits for it.  What a tick does    *)
(* with the state table is the subject of StateTable.                      *)
(***************************************************************************)
EXTENDS Naturals, Sequences, SequencesExt, FiniteSets

CONSTANTS Rates,          \* intervals SetMessageCheckRate is called with
          Setter,         \* goroutines that call it; "handler" is a handler
                          \* the poller runs
          Checker,        \* goroutines that call CheckMessages, see "poll"
          Limits,         \* what SetMessageCheckLimit is called with
          Route,          \* the routes On is called with
          Others,         \* which of OnDefault and SetMessageCallback are called
          MaxHandlers,    \* bound on the handlers registered at a time
          Sort(_),        \* per message, its type and its tags
          MaxMessages,    \* bound on the messages the backend queues
          AppStops        \* the application calls Stop

ASSUME PollerAssumption ==
    /\ "poll" \in Checker
    /\ Limits \subseteq Nat
    /\ Others \subseteq {"default", "callback"}
    /\ {MaxHandlers, MaxMessages} \subseteq Nat
    /\ AppStops \in BOOLEAN

VARIABLES
    rate,         \* c.checkMsgRate
    armed,        \* the interval the timer was last set to
    wake,         \* a wake-up is pending in c.rateChanged
    setting,      \* the setters between writing the rate and signalling it
    routes,       \* c.routes, in the order of registration
    fallback,     \* which of c.defaultHandler and c.callback are set
    limit,        \* c.checkMsgLimit
    pc,           \* where the poller is
    check,        \* per checker, where its CheckMessages is
    asked,        \* per checker, the limit it read
    answer,       \* per checker, the messages of its answer left to dispatch
    sent,         \* how many messages the backend has queued
    taken,        \* how many it has handed out
    handled,      \* history: what was dispatched, by whom and to which handler
    lost,         \* history: the messages of answers that did not arrive
    done          \* c.done is closed

rateVars  == <<rate, wake, setting>>
regVars   == <<routes, fallback, limit>>
checkVars == <<check, asked, answer>>
msgVars   == <<sent, taken, handled, lost>>
vars == <<rateVars, armed, regVars, pc, checkVars, msgVars, done>>

Message == 1..MaxMessages

\* A route without criteria.
NoRoute == [type |-> "", tag |-> "", any |-> {}, all |-> {}]

\* What dispatchMessage may call: a route's handler, or one of the others.
Handler == [route : Route, other : {""}]
           \cup [route : {NoRoute}, other : Others \cup {"none"}]

TypeOK ==
    /\ rate \in Rates
    /\ armed \in Rates
    /\ wake \in BOOLEAN
    /\ setting \subseteq Setter
    /\ routes \in Seq(Route) /\ Len(routes) <= MaxHandlers
    /\ fallback \subseteq Others
    /\ limit \in Limits
    /\ pc \in {"select", "tick", "state", "rearm", "reset", "returned"}
    /\ check \in [Checker -> {"idle", "flight", "dispatch", "handler"}]
    /\ asked \in [Checker -> Limits \cup {0}]
    /\ answer \in [Checker -> [next : Nat, last : Nat]]
    /\ sent \in 0..MaxMessages
    /\ taken \in 0..sent
    /\ handled \in Seq([msg : Message, who : Checker, by : Handler])
    /\ lost \subseteq Message
    /\ done \in BOOLEAN

\* An empty answer.
Nothing == [next |-> 1, last |-> 0]

Init ==
    /\ rate \in Rates
    /\ armed = rate
    /\ wake = FALSE
    /\ setting = {}
    /\ routes = <<>>
    /\ fallback = {}
    /\ limit \in Limits
    /\ pc = "rearm"
    /\ check = [c \in Checker |-> "idle"]
    /\ asked = [c \in Checker |-> 0]
    /\ answer = [c \in Checker |-> Nothing]
    /\ sent = 0
    /\ taken = 0
    /\ handled = <<>>
    /\ lost = {}
    /\ done = FALSE
-----------------------------------------------------------------------------
(***************************************************************************)
(* The setters.  No route is registered twice.                             *)
(***************************************************************************)
Registered == Len(routes) + Cardinality(fallback)

\* Mutant: the newest route comes first.
OnFirst(r) ==
    /\ Registered < MaxHandlers /\ r \notin ToSet(routes)
    /\ routes' = <<r>> \o routes
    /\ UNCHANGED <<rateVars, armed, fallback, limit, pc, checkVars, msgVars, done>>

On(r) ==
    /\ Registered < MaxHandlers /\ r \notin ToSet(routes)
    /\ routes' = Append(routes, r)
    /\ UNCHANGED <<rateVars, armed, fallback, limit, pc, checkVars, msgVars, done>>

\* OnDefault and SetMessageCallback with a handler; to unset one, with nil, is
\* left out.
SetFallback(f) ==
    /\ Registered < MaxHandlers
    /\ fallback' = fallback \cup {f}
    /\ UNCHANGED <<rateVars, armed, routes, limit, pc, checkVars, msgVars, done>>

SetMessageCheckLimit(n) ==
    /\ limit' = n
    /\ UNCHANGED <<rateVars, armed, routes, fallback, pc, checkVars, msgVars, done>>

\* SetMessageCheckRate writes the rate and then signals.  The handler's own
\* call happens while it runs.
SetRate(s) ==
    /\ s \notin setting
    /\ s = "handler" => check["poll"] = "handler"
    /\ rate' \in Rates
    /\ setting' = setting \cup {s}
    /\ UNCHANGED <<wake, armed, regVars, pc, checkVars, msgVars, done>>

\* Mutant: the channel is not buffered, so a signal the poller does not wait for
\* is dropped.
SignalUnbuffered(s) ==
    /\ s \in setting
    /\ wake' = (pc = "select")
    /\ setting' = setting \ {s}
    /\ UNCHANGED <<rate, armed, regVars, pc, checkVars, msgVars, done>>

\* Mutant: the buffer is full and the send blocks.
SignalBlocks(s) ==
    /\ s \in setting
    /\ ~wake
    /\ wake' = TRUE
    /\ setting' = setting \ {s}
    /\ UNCHANGED <<rate, armed, regVars, pc, checkVars, msgVars, done>>

\* signalRateChanged never blocks; one pending wake-up is enough.
Signal(s) ==
    /\ s \in setting
    /\ wake' = TRUE
    /\ setting' = setting \ {s}
    /\ UNCHANGED <<rate, armed, regVars, pc, checkVars, msgVars, done>>
-----------------------------------------------------------------------------
(***************************************************************************)
(* Routes.                                                                 *)
(***************************************************************************)
\* Every criterion a route has must match.
routeMatches(route, sort) ==
    /\ route.type # "" => sort.type = route.type
    /\ route.tag # "" => route.tag \in sort.tags
    /\ route.any # {} => route.any \cap sort.tags # {}
    /\ route.all \subseteq sort.tags

Matching(m) == {i \in DOMAIN routes : routeMatches(routes[i], Sort(m))}

\* The first route that matches, else the default handler, else the callback.
HandlerOf(m) ==
    IF Matching(m) # {}
    THEN LET i == CHOOSE i \in Matching(m) : \A j \in Matching(m) : i <= j
         IN  [route |-> routes[i], other |-> ""]
    ELSE [route |-> NoRoute,
          other |-> IF "default" \in fallback THEN "default"
                    ELSE IF "callback" \in fallback THEN "callback" ELSE "none"]

hasMessageHandlers ==
    routes # <<>> \/ fallback # {}
-----------------------------------------------------------------------------
(***************************************************************************)
(* CheckMessages, by any checker.                                          *)
(***************************************************************************)
Goto(c, l) == check' = [check EXCEPT ![c] = l]

\* The poller's turn, or the application's.
Begins(c) == check[c] = "idle" /\ (c = "poll" => pc = "tick")

\* The check is over.
Returns(c) ==
    /\ Goto(c, "idle")
    /\ pc' = IF c = "poll" THEN "state" ELSE pc
    /\ asked' = [asked EXCEPT ![c] = 0]
    /\ answer' = [answer EXCEPT ![c] = Nothing]

\* Without a message handler no request is made.
NoHandlers(c) ==
    /\ Begins(c) /\ ~hasMessageHandlers
    /\ Returns(c)
    /\ UNCHANGED <<rateVars, armed, regVars, msgVars, done>>

\* The limit is read, and the request sent.
Ask(c) ==
    /\ Begins(c) /\ hasMessageHandlers
    /\ Goto(c, "flight")
    /\ asked' = [asked EXCEPT ![c] = limit]
    /\ UNCHANGED <<rateVars, armed, regVars, pc, answer, msgVars, done>>

\* It fails before the backend has it, or is refused.
FetchFails(c) ==
    /\ check[c] = "flight"
    /\ Returns(c)
    /\ UNCHANGED <<rateVars, armed, regVars, msgVars, done>>

\* The backend hands out messages, the first ones, up to the limit; the answer
\* arrives and decodes, or it does not and they are gone.
Fetch(c) ==
    /\ check[c] = "flight"
    /\ taken' \in taken..sent
    /\ asked[c] > 0 => taken' <= taken + asked[c]
    /\ \/ /\ answer' = [answer EXCEPT ![c] = [next |-> taken + 1, last |-> taken']]
          /\ Goto(c, "dispatch")
          /\ UNCHANGED <<pc, asked, lost>>
       \/ /\ lost' = lost \cup ((taken + 1)..taken')
          /\ Returns(c)
    /\ UNCHANGED <<rateVars, armed, regVars, sent, handled, done>>

\* Mutant: the last message is dispatched first.
DispatchLast(c) ==
    /\ check[c] = "dispatch" /\ answer[c].next <= answer[c].last
    /\ Goto(c, "handler")
    /\ handled' = Append(handled,
                         [msg |-> answer[c].last, who |-> c,
                          by |-> HandlerOf(answer[c].last)])
    /\ answer' = [answer EXCEPT ![c].last = @ - 1]
    /\ UNCHANGED <<rateVars, armed, regVars, pc, asked, sent, taken, lost, done>>

\* dispatchMessage: a snapshot of the handlers, then the call.
Dispatch(c) ==
    /\ check[c] = "dispatch" /\ answer[c].next <= answer[c].last
    /\ Goto(c, "handler")
    /\ handled' = Append(handled,
                         [msg |-> answer[c].next, who |-> c,
                          by |-> HandlerOf(answer[c].next)])
    /\ answer' = [answer EXCEPT ![c].next = @ + 1]
    /\ UNCHANGED <<rateVars, armed, regVars, pc, asked, sent, taken, lost, done>>

\* Mutant: an error ends the loop.
HandlerFails(c) ==
    /\ check[c] = "handler"
    /\ c = "poll" => "handler" \notin setting
    /\ \/ Goto(c, "dispatch") /\ UNCHANGED <<pc, asked, answer>>
       \/ Returns(c)
    /\ UNCHANGED <<rateVars, armed, regVars, msgVars, done>>

\* The handler returns; an error is logged and the loop goes on.
HandlerReturns(c) ==
    /\ check[c] = "handler"
    /\ c = "poll" => "handler" \notin setting
    /\ Goto(c, "dispatch")
    /\ UNCHANGED <<rateVars, armed, regVars, pc, asked, answer, msgVars, done>>

Dispatched(c) ==
    /\ check[c] = "dispatch" /\ answer[c].next > answer[c].last
    /\ Returns(c)
    /\ UNCHANGED <<rateVars, armed, regVars, msgVars, done>>
-----------------------------------------------------------------------------
(***************************************************************************)
(* The poller.                                                             *)
(***************************************************************************)
\* case <-timer.C.
TimerCase ==
    /\ pc = "select"
    /\ pc' = "tick"
    /\ UNCHANGED <<rateVars, armed, regVars, checkVars, msgVars, done>>

\* CheckState, if a state handler is registered: see StateTable.
StateChecked ==
    /\ pc = "state"
    /\ pc' = "rearm"
    /\ UNCHANGED <<rateVars, armed, regVars, checkVars, msgVars, done>>

\* case <-c.rateChanged.
RateCase ==
    /\ pc = "select"
    /\ wake
    /\ wake' = FALSE
    /\ pc' = "rearm"
    /\ UNCHANGED <<rate, setting, armed, regVars, checkVars, msgVars, done>>

\* Mutant: the timer is reset to the interval it had.
ReadRateOnce ==
    /\ pc = "rearm"
    /\ pc' = "reset"
    /\ UNCHANGED <<rateVars, armed, regVars, checkVars, msgVars, done>>

\* NewTimer or Reset(c.messageCheckRate()): the rate is read, and then the
\* timer set.
ReadRate ==
    /\ pc = "rearm"
    /\ armed' = rate
    /\ pc' = "reset"
    /\ UNCHANGED <<rateVars, regVars, checkVars, msgVars, done>>

Reset ==
    /\ pc = "reset"
    /\ pc' = "select"
    /\ UNCHANGED <<rateVars, armed, regVars, checkVars, msgVars, done>>

\* case <-c.done.
DoneCase ==
    /\ pc = "select"
    /\ done
    /\ pc' = "returned"
    /\ UNCHANGED <<rateVars, armed, regVars, checkVars, msgVars, done>>
-----------------------------------------------------------------------------
\* Another entity sends a message.
Queue ==
    /\ sent < MaxMessages
    /\ sent' = sent + 1
    /\ UNCHANGED <<rateVars, armed, regVars, pc, checkVars, taken, handled, lost, done>>

Stop ==
    /\ AppStops
    /\ ~done
    /\ done' = TRUE
    /\ UNCHANGED <<rateVars, armed, regVars, pc, checkVars, msgVars>>

CheckMessages(c) ==
    \/ NoHandlers(c) \/ Ask(c) \/ FetchFails(c) \/ Fetch(c) \/ Dispatch(c)
    \/ HandlerReturns(c) \/ Dispatched(c)

Tick == CheckMessages("poll") \/ StateChecked \/ ReadRate \/ Reset

Next ==
    \/ \E r \in Route : On(r)
    \/ \E f \in Others : SetFallback(f)
    \/ \E n \in Limits : SetMessageCheckLimit(n)
    \/ \E s \in Setter : SetRate(s) \/ Signal(s)
    \/ \E c \in Checker : CheckMessages(c)
    \/ TimerCase \/ RateCase \/ DoneCase \/ StateChecked \/ ReadRate \/ Reset
    \/ Queue \/ Stop

Spec == Init /\ [][Next]_vars

\* The cases of a select are picked at random, so one that is ready whenever
\* the poller waits is taken in the end; requests and handlers end.
Fairness ==
    /\ WF_vars(Tick) /\ SF_vars(HandlerReturns("poll"))
    /\ WF_vars(TimerCase)
    /\ SF_vars(RateCase) /\ SF_vars(DoneCase)
    /\ \A s \in Setter : WF_vars(Signal(s))

LiveSpec == Spec /\ Fairness
-----------------------------------------------------------------------------
\* README.md:516 "`SetMessageCheckRate` takes effect immediately, including on
\* an already-running poller": whenever the poller waits, with no wake-up to
\* come, its timer is set to the current rate, however the writing of the rate,
\* the signal and the rearming of the timer interleaved.
RateInForce ==
    pc = "select" /\ ~wake /\ setting = {} => armed = rate

\* README.md:520 "A handler returning an error does not stop the remaining
\* messages from being processed": every message the backend handed out was
\* dispatched, is about to be, or was in an answer that never arrived, however
\* many goroutines check at once.
EveryMessageHandled ==
    1..taken = lost \cup {handled[i].msg : i \in DOMAIN handled}
                    \cup UNION {answer[c].next..answer[c].last : c \in Checker}

\* Messages are dispatched once, and by one checker in the order the backend
\* queued them, across ticks, failed requests and changes of the rate.  (Two
\* checkers run their handlers at the same time, in any order.)
InOrder ==
    \A i, j \in DOMAIN handled : i < j =>
        /\ handled[i].msg # handled[j].msg
        /\ handled[i].who = handled[j].who => handled[i].msg < handled[j].msg

\* README.md:518 "Registered `On()` routes are checked in registration order;
\* first match wins", and those that come later, also while a handler runs or
\* a request is under way, change nothing for a sort of messages that had a
\* route.
RoutesStand ==
    \A i, j \in DOMAIN handled :
        /\ i < j
        /\ Sort(handled[i].msg) = Sort(handled[j].msg)
        /\ handled[i].by.route # NoRoute
        => handled[j].by = handled[i].by

\* The last change of the rate reaches the timer, unless the client stops.
RateTakesEffect ==
    \A r \in Rates :
        <>[](rate = r) => <>[](armed = r \/ pc = "returned")

\* Stop is not kept waiting by the poller.
PollerReturns == <>[]done => <>[](pc = "returned")
=============================================================================
