---------------------------- MODULE PollerProofs ----------------------------
(***************************************************************************)
(* Proofs about Poller, for any rates, routes and messages and any number  *)
(* of goroutines that change the rate or check for messages.               *)
(***************************************************************************)
EXTENDS Poller, WellFoundedInduction, FiniteSetTheorems, TLAPS

\* What a checker has left to dispatch.
Left(c) == answer[c].next..answer[c].last

\* Messages are in one place: dispatched, lost or left to one checker, which
\* has dispatched only older ones.
Somewhere(m) ==
    \/ m \in lost
    \/ \E i \in DOMAIN handled : handled[i].msg = m
    \/ \E c \in Checker : m \in Left(c)

MessageInv ==
    /\ \A m : m \in 1..taken <=> Somewhere(m)
    /\ \A c \in Checker :
          check[c] \in {"idle", "flight"} => Left(c) = {}
    /\ \A c, d \in Checker : c # d => Left(c) \cap Left(d) = {}
    /\ \A i \in DOMAIN handled : \A c \in Checker :
          /\ handled[i].msg \notin Left(c)
          /\ handled[i].who = c => \A m \in Left(c) : handled[i].msg < m

\* The route that took a message would take it again.
RouteInv ==
    \A i \in DOMAIN handled :
        handled[i].by.route # NoRoute => handled[i].by = HandlerOf(handled[i].msg)

RateInv ==
    pc \in {"reset", "select"} /\ ~wake /\ setting = {} => armed = rate

PInv == TypeOK /\ MessageInv /\ InOrder /\ RouteInv /\ RoutesStand /\ RateInv

USE PollerAssumption
-----------------------------------------------------------------------------
(***************************************************************************)
(* Routes.                                                                 *)
(***************************************************************************)
LEMMA FirstExists ==
    ASSUME NEW S \in SUBSET Nat, S # {}
    PROVE  \E i \in S : \A j \in S : i <= j
<1> DEFINE R == OpToRel(<, Nat)
<1>1. \A i, j \in S : j < i => <<j, i>> \in R
  BY DEF OpToRel
<1>2. IsWellFoundedOn(R, Nat)
  BY NatLessThanWellFounded
<1> HIDE DEF R
<1>3. PICK i \in S : \A j \in S : ~(<<j, i>> \in R)
  BY <1>2, WFMin
<1>4. \A j \in S : ~(j < i)
  BY <1>1, <1>3
<1> QED  BY <1>4

\* The first of the routes that match a message.
First(m) == CHOOSE i \in Matching(m) : \A j \in Matching(m) : i <= j

LEMMA HandlerIs ==
    ASSUME NEW m
    PROVE  /\ Matching(m) # {} =>
                HandlerOf(m) = [route |-> routes[First(m)], other |-> ""]
           /\ Matching(m) = {} => HandlerOf(m).route = NoRoute
BY DEF HandlerOf, First

LEMMA FirstIsFirst ==
    ASSUME TypeOK, NEW m, Matching(m) # {}
    PROVE  /\ First(m) \in Matching(m)
           /\ First(m) \in DOMAIN routes
           /\ \A j \in Matching(m) : First(m) <= j
<1>1. Matching(m) \in SUBSET Nat
  BY DEF Matching, TypeOK
<1>2. \E i \in Matching(m) : \A j \in Matching(m) : i <= j
  BY <1>1, FirstExists
<1>3. First(m) \in Matching(m) /\ \A j \in Matching(m) : First(m) <= j
  BY <1>2 DEF First
<1> QED  BY <1>3 DEF Matching

LEMMA HandlerType ==
    ASSUME TypeOK, NEW m
    PROVE  HandlerOf(m) \in Handler
<1>1. CASE Matching(m) # {}
  <2>1. routes[First(m)] \in Route
    BY <1>1, FirstIsFirst DEF TypeOK
  <2>2. HandlerOf(m) = [route |-> routes[First(m)], other |-> ""]
    BY <1>1, HandlerIs
  <2>3. \A r \in Route : [route |-> r, other |-> ""] \in Handler
    BY DEF Handler
  <2> QED  BY <2>1, <2>2, <2>3
<1>2. CASE Matching(m) = {}
  BY <1>2 DEF HandlerOf, Handler, TypeOK
<1> QED  BY <1>1, <1>2

\* Messages of one sort have one handler.
LEMMA SameSort ==
    ASSUME NEW m, NEW n, Sort(m) = Sort(n)
    PROVE  HandlerOf(m) = HandlerOf(n)
<1>1. Matching(m) = Matching(n)
  BY DEF Matching
<1> QED  BY <1>1 DEF HandlerOf

\* A message that has a route keeps it.
LEMMA RouteStays ==
    ASSUME TypeOK, NEW m, HandlerOf(m).route # NoRoute,
           \/ UNCHANGED routes
           \/ \E r \in Route : routes' = Append(routes, r)
    PROVE  HandlerOf(m)' = HandlerOf(m)
<1>1. Matching(m) # {}
  BY HandlerIs
<1>2. /\ First(m) \in Matching(m)
      /\ First(m) \in DOMAIN routes
      /\ \A j \in Matching(m) : First(m) <= j
  BY <1>1, FirstIsFirst
<1>3. CASE UNCHANGED routes
  <2>1. Matching(m)' = Matching(m)
    BY <1>3 DEF Matching
  <2>2. HandlerOf(m)' = [route |-> routes'[First(m)], other |-> ""]
    BY <1>1, <2>1 DEF HandlerOf, First
  <2> QED  BY <1>1, <1>3, <2>2, HandlerIs
<1>4. CASE \E r \in Route : routes' = Append(routes, r)
  <2>1. PICK r \in Route : routes' = Append(routes, r)
    BY <1>4
  <2>2. /\ routes \in Seq(Route)
        /\ Len(routes) \in Nat
        /\ DOMAIN routes = 1..Len(routes)
    BY DEF TypeOK
  <2>3. /\ DOMAIN routes' = 1..(Len(routes) + 1)
        /\ \A i \in DOMAIN routes : routes'[i] = routes[i]
    <3>1. Append(routes, r) \in Seq(Route)
      BY <2>2
    <3>2. Len(Append(routes, r)) = Len(routes) + 1
      BY <2>2
    <3>3. \A i \in 1..Len(routes) : Append(routes, r)[i] = routes[i]
      BY <2>2
    <3>4. DOMAIN routes' = 1..Len(routes')
      BY <2>1, <3>1
    <3> QED  BY <2>1, <2>2, <3>2, <3>3, <3>4
  <2>4. /\ Matching(m) \subseteq Matching(m)'
        /\ Matching(m)' \subseteq Matching(m) \cup {Len(routes) + 1}
    BY <2>2, <2>3 DEF Matching
  <2>5. First(m) \in Matching(m)' /\ \A j \in Matching(m)' : First(m) <= j
    BY <1>2, <2>2, <2>4
  <2>6. Matching(m)' \subseteq Nat
    BY <2>2, <2>3 DEF Matching
  <2>7. First(m)' = First(m)
    <3> DEFINE f == First(m)'
    <3>1. f \in Matching(m)' /\ \A j \in Matching(m)' : f <= j
      BY <2>5 DEF First
    <3>2. f <= First(m) /\ First(m) <= f /\ f \in Nat /\ First(m) \in Nat
      BY <2>5, <2>6, <3>1
    <3> HIDE DEF f
    <3>3. f = First(m)
      BY <3>2
    <3> QED  BY <3>3 DEF f
  <2>8. HandlerOf(m)' = [route |-> routes'[First(m)'], other |-> ""]
    BY <2>5 DEF HandlerOf, First
  <2> QED  BY <1>1, <1>2, <2>3, <2>7, <2>8, HandlerIs
<1> QED  BY <1>3, <1>4
-----------------------------------------------------------------------------
(***************************************************************************)
(* The steps.                                                              *)
(***************************************************************************)
\* What a step that moves no message and calls no handler leaves alone.
LEMMA Quiet ==
    ASSUME PInv, UNCHANGED <<taken, handled, lost>>,
           \A c \in Checker : Left(c)' = Left(c),
           \A c \in Checker : check'[c] \in {"idle", "flight"} => Left(c) = {},
           \/ UNCHANGED routes
           \/ \E r \in Route : routes' = Append(routes, r)
    PROVE  (MessageInv /\ InOrder /\ RouteInv /\ RoutesStand)'
<1>1. MessageInv'
  <2>1. \A m : Somewhere(m)' <=> Somewhere(m)
    BY DEF Somewhere
  <2> QED  BY <2>1 DEF MessageInv, PInv
<1>2. InOrder' /\ RoutesStand'
  BY DEF PInv, InOrder, RoutesStand
<1>3. RouteInv'
  <2> SUFFICES ASSUME NEW i \in DOMAIN handled, handled[i].by.route # NoRoute
               PROVE  handled[i].by = HandlerOf(handled[i].msg)'
    BY DEF RouteInv
  <2>1. handled[i].by = HandlerOf(handled[i].msg)
    BY DEF RouteInv, PInv
  <2>2. HandlerOf(handled[i].msg)' = HandlerOf(handled[i].msg)
    BY <2>1, RouteStays DEF PInv
  <2> QED  BY <2>1, <2>2
<1> QED  BY <1>1, <1>2, <1>3

\* The setters, and the poller outside of CheckMessages.
LEMMA Aside ==
    ASSUME PInv, UNCHANGED <<checkVars, taken, handled, lost>>,
           \/ UNCHANGED routes
           \/ \E r \in Route : routes' = Append(routes, r)
    PROVE  (MessageInv /\ InOrder /\ RouteInv /\ RoutesStand)'
<1>1. \A c \in Checker : Left(c)' = Left(c)
  BY DEF Left, checkVars
<1>2. \A c \in Checker : check'[c] \in {"idle", "flight"} => Left(c) = {}
  BY DEF PInv, MessageInv, checkVars
<1> QED  BY <1>1, <1>2, Quiet

USE DEF rateVars, regVars, checkVars, msgVars

LEMMA SetterStep ==
    ASSUME PInv,
           \/ \E r \in Route : On(r)
           \/ \E f \in Others : SetFallback(f)
           \/ \E n \in Limits : SetMessageCheckLimit(n)
           \/ \E s \in Setter : SetRate(s) \/ Signal(s)
    PROVE  PInv'
<1>1. UNCHANGED <<checkVars, taken, handled, lost>>
  BY DEF On, SetFallback, SetMessageCheckLimit, SetRate, Signal
<1>2. \/ UNCHANGED routes
      \/ \E r \in Route : routes' = Append(routes, r)
  BY DEF On, SetFallback, SetMessageCheckLimit, SetRate, Signal
<1>3. (MessageInv /\ InOrder /\ RouteInv /\ RoutesStand)'
  BY <1>1, <1>2, Aside
<1>4. TypeOK' /\ RateInv'
  <2>1. CASE \E r \in Route : On(r)
    <3>1. PICK r \in Route : On(r)
      BY <2>1
    <3>2. routes \in Seq(Route) /\ Len(routes) \in Nat
      BY DEF PInv, TypeOK
    <3>3. Len(routes) < MaxHandlers
      <4>1. fallback \in SUBSET {"default", "callback"}
        BY DEF PInv, TypeOK
      <4>3. IsFiniteSet({"default", "callback"})
        <5>1. IsFiniteSet({"default"})
          BY FS_EmptySet, FS_AddElement, {} \cup {"default"} = {"default"}
        <5> QED  BY <5>1, FS_AddElement, {"default"} \cup {"callback"} = {"default", "callback"}
      <4>2. Cardinality(fallback) \in Nat
        BY <4>1, <4>3, FS_Subset, FS_CardinalityType
      <4> QED  BY <3>1, <3>2, <4>2 DEF On, Registered
    <3>4. routes' \in Seq(Route) /\ Len(routes') = Len(routes) + 1
      BY <3>1, <3>2 DEF On
    <3> QED  BY <3>1, <3>2, <3>3, <3>4 DEF PInv, TypeOK, RateInv, On
  <2>2. CASE \E f \in Others : SetFallback(f)
    BY <2>2 DEF PInv, TypeOK, RateInv, SetFallback
  <2>3. CASE \E n \in Limits : SetMessageCheckLimit(n)
    BY <2>3 DEF PInv, TypeOK, RateInv, SetMessageCheckLimit
  <2>4. CASE \E s \in Setter : SetRate(s)
    BY <2>4 DEF PInv, TypeOK, RateInv, SetRate
  <2>5. CASE \E s \in Setter : Signal(s)
    BY <2>5 DEF PInv, TypeOK, RateInv, Signal
  <2> QED  BY <2>1, <2>2, <2>3, <2>4, <2>5
<1> QED  BY <1>3, <1>4 DEF PInv

LEMMA PollerStep ==
    ASSUME PInv,
           \/ TimerCase \/ RateCase \/ DoneCase \/ StateChecked \/ ReadRate
           \/ Reset \/ Queue \/ Stop
    PROVE  PInv'
<1>1. UNCHANGED <<checkVars, taken, handled, lost, routes>>
  BY DEF TimerCase, RateCase, DoneCase, StateChecked, ReadRate, Reset, Queue, Stop
<1>2. (MessageInv /\ InOrder /\ RouteInv /\ RoutesStand)'
  BY <1>1, Aside
<1>3. TypeOK' /\ RateInv'
  <2>1. CASE TimerCase
    BY <2>1 DEF PInv, TypeOK, RateInv, TimerCase
  <2>2. CASE RateCase
    BY <2>2 DEF PInv, TypeOK, RateInv, RateCase
  <2>3. CASE DoneCase
    BY <2>3 DEF PInv, TypeOK, RateInv, DoneCase
  <2>4. CASE StateChecked
    BY <2>4 DEF PInv, TypeOK, RateInv, StateChecked
  <2>5. CASE ReadRate
    BY <2>5 DEF PInv, TypeOK, RateInv, ReadRate
  <2>6. CASE Reset
    BY <2>6 DEF PInv, TypeOK, RateInv, Reset
  <2>7. CASE Queue
    BY <2>7 DEF PInv, TypeOK, RateInv, Queue
  <2>8. CASE Stop
    BY <2>8 DEF PInv, TypeOK, RateInv, Stop
  <2> QED  BY <2>1, <2>2, <2>3, <2>4, <2>5, <2>6, <2>7, <2>8
<1> QED  BY <1>2, <1>3 DEF PInv

\* A check that ends with nothing left to dispatch.
LEMMA ReturnStep ==
    ASSUME PInv, NEW c \in Checker, Left(c) = {}, Returns(c),
           UNCHANGED <<rateVars, armed, regVars, sent, taken, handled, lost, done>>
    PROVE  PInv'
<1>1. TypeOK' /\ RateInv'
  BY DEF PInv, TypeOK, RateInv, Returns, Goto, Nothing
<1>2. \A d \in Checker : Left(d)' = Left(d)
  <2>1. Left(c)' = {}
    BY DEF Left, Returns, Nothing, PInv, TypeOK
  <2>2. \A d \in Checker \ {c} : answer'[d] = answer[d]
    BY DEF Returns, PInv, TypeOK
  <2> QED  BY <2>1, <2>2 DEF Left
<1>3. \A d \in Checker : check'[d] \in {"idle", "flight"} => Left(d) = {}
  BY DEF Returns, Goto, PInv, MessageInv, TypeOK
<1> QED  BY <1>1, <1>2, <1>3, Quiet DEF PInv

LEMMA DispatchStep ==
    ASSUME PInv, NEW c \in Checker, Dispatch(c)
    PROVE  PInv'
<1> DEFINE m == answer[c].next
           n == Len(handled)
           e == [msg |-> m, who |-> c, by |-> HandlerOf(m)]
<1>1. /\ m \in Left(c) /\ m \in Message /\ m \in Nat /\ m \in 1..taken
      /\ answer[c].last \in Nat
  <2>1. m \in Nat /\ answer[c].last \in Nat /\ m <= answer[c].last
    BY DEF PInv, TypeOK, Dispatch
  <2>2. m \in Left(c)
    BY <2>1 DEF Left
  <2>3. m \in 1..taken
    BY <2>2 DEF PInv, MessageInv, Somewhere
  <2> QED  BY <2>1, <2>2, <2>3 DEF PInv, TypeOK, Message
<1>2. /\ n \in Nat
      /\ DOMAIN handled = 1..n
      /\ handled' = Append(handled, e)
      /\ DOMAIN handled' = 1..(n + 1)
      /\ handled'[n + 1] = e
      /\ \A i \in DOMAIN handled : handled'[i] = handled[i]
  <2>1. handled \in Seq([msg : Message, who : Checker, by : Handler])
    BY DEF PInv, TypeOK
  <2>2. handled' = Append(handled, e)
    BY DEF Dispatch
  <2> HIDE DEF e
  <2>3. n \in Nat /\ DOMAIN handled = 1..n
    BY <2>1
  <2>4. Len(Append(handled, e)) = n + 1 /\ Append(handled, e)[n + 1] = e
    BY <2>1
  <2>5. \A i \in 1..n : Append(handled, e)[i] = handled[i]
    BY <2>1
  <2>6. DOMAIN Append(handled, e) = 1..(n + 1)
    BY <2>1
  <2> QED  BY <2>2, <2>3, <2>4, <2>5, <2>6
<1>3. TypeOK' /\ RateInv'
  <2>1. e \in [msg : Message, who : Checker, by : Handler]
    <3>1. HandlerOf(m) \in Handler
      BY HandlerType DEF PInv
    <3> QED  BY <1>1, <3>1
  <2>2. handled' \in Seq([msg : Message, who : Checker, by : Handler])
    <3> HIDE DEF e
    <3> QED  BY <1>2, <2>1 DEF PInv, TypeOK
  <2>3. answer' \in [Checker -> [next : Nat, last : Nat]]
    <3>1. answer' = [answer EXCEPT ![c] = [answer[c] EXCEPT !.next = m + 1]]
      BY DEF Dispatch
    <3>2. answer[c] \in [next : Nat, last : Nat]
      BY DEF PInv, TypeOK
    <3>3. [answer[c] EXCEPT !.next = m + 1] \in [next : Nat, last : Nat]
      BY <1>1, <3>2
    <3> QED  BY <3>1, <3>3 DEF PInv, TypeOK
  <2> HIDE DEF e
  <2> QED  BY <2>2, <2>3 DEF PInv, TypeOK, RateInv, Dispatch, Goto
<1>4. /\ Left(c)' = Left(c) \ {m}
      /\ \A d \in Checker \ {c} : Left(d)' = Left(d) /\ check'[d] = check[d]
      /\ check'[c] = "handler"
  <2>1. answer'[c] = [next |-> m + 1, last |-> answer[c].last]
    BY <1>1 DEF Dispatch, PInv, TypeOK
  <2>2. Left(c)' = (m + 1)..answer[c].last
    BY <2>1 DEF Left
  <2>3. Left(c) = m..answer[c].last
    BY DEF Left
  <2>4. Left(c)' = Left(c) \ {m}
    BY <1>1, <2>2, <2>3
  <2>5. \A d \in Checker \ {c} : answer'[d] = answer[d] /\ check'[d] = check[d]
    BY DEF Dispatch, Goto, PInv, TypeOK
  <2>6. check'[c] = "handler"
    BY DEF Dispatch, Goto, PInv, TypeOK
  <2> QED  BY <2>4, <2>5, <2>6 DEF Left
<1>5. \A i \in DOMAIN handled :
         /\ handled[i].msg # m
         /\ handled[i].who = c => handled[i].msg < m
  BY <1>1 DEF PInv, MessageInv
<1>6. e.msg = m /\ e.who = c /\ e.by = HandlerOf(m)
  OBVIOUS
<1> HIDE DEF m, n, e
<1>7. \A x \in Left(c)' : m < x
  <2>1. answer'[c].next = m + 1 /\ answer'[c].last = answer[c].last
    BY <1>1 DEF Dispatch, PInv, TypeOK, m
  <2> QED  BY <1>1, <2>1 DEF Left
<1>8. MessageInv'
  <2>1. \A x : (\E i \in DOMAIN handled : handled[i].msg = x)'
                <=> (\E i \in DOMAIN handled : handled[i].msg = x) \/ x = m
    BY <1>2, <1>6
  <2>2. \A x : (\E d \in Checker : x \in Left(d))' \/ x = m
                <=> (\E d \in Checker : x \in Left(d))
    BY <1>1, <1>4
  <2>3. \A x : x \in 1..taken' <=> Somewhere(x)'
    <3>1. lost' = lost /\ taken' = taken
      BY DEF Dispatch
    <3>2. \A x : Somewhere(x)' <=> Somewhere(x)
      BY <2>1, <2>2, <3>1 DEF Somewhere
    <3> QED  BY <3>1, <3>2 DEF PInv, MessageInv
  <2>4. \A d \in Checker : check'[d] \in {"idle", "flight"} => Left(d)' = {}
    BY <1>4 DEF PInv, MessageInv
  <2>5. \A d, f \in Checker : d # f => Left(d)' \cap Left(f)' = {}
    BY <1>4 DEF PInv, MessageInv
  <2>6. \A i \in DOMAIN handled : \A d \in Checker :
           /\ handled[i].msg \notin Left(d)'
           /\ handled[i].who = d => \A x \in Left(d)' : handled[i].msg < x
    BY <1>4 DEF PInv, MessageInv
  <2>7. \A d \in Checker :
           /\ m \notin Left(d)'
           /\ d = c => \A x \in Left(d)' : m < x
    BY <1>1, <1>4, <1>7 DEF PInv, MessageInv
  <2>8. \A i \in DOMAIN handled' : i \in DOMAIN handled \/ handled'[i] = e
    BY <1>2
  <2>9. \A i \in DOMAIN handled' : \A d \in Checker :
           /\ handled'[i].msg \notin Left(d)'
           /\ handled'[i].who = d => \A x \in Left(d)' : handled'[i].msg < x
    BY <1>2, <1>6, <2>6, <2>7, <2>8
  <2> QED  BY <2>3, <2>4, <2>5, <2>9 DEF MessageInv
<1>9. InOrder'
  <2> SUFFICES ASSUME NEW i \in DOMAIN handled', NEW j \in DOMAIN handled', i < j
               PROVE  /\ handled'[i].msg # handled'[j].msg
                      /\ handled'[i].who = handled'[j].who =>
                             handled'[i].msg < handled'[j].msg
    BY DEF InOrder
  <2>1. i \in DOMAIN handled
    BY <1>2
  <2>2. CASE j \in DOMAIN handled
    BY <1>2, <2>1, <2>2 DEF PInv, InOrder
  <2>3. CASE j = n + 1
    BY <1>2, <1>5, <1>6, <2>1, <2>3
  <2> QED  BY <1>2, <2>2, <2>3
<1>10. UNCHANGED <<routes, fallback>>
  BY DEF Dispatch
<1>11. RouteInv'
  <2> SUFFICES ASSUME NEW i \in DOMAIN handled', (handled[i].by.route # NoRoute)'
               PROVE  (handled[i].by = HandlerOf(handled[i].msg))'
    BY DEF RouteInv
  <2>1. CASE i \in DOMAIN handled
    <3>1. handled[i].by = HandlerOf(handled[i].msg)
      BY <1>2, <2>1 DEF PInv, RouteInv
    <3> QED  BY <1>2, <1>10, <2>1, <3>1 DEF HandlerOf, Matching
  <2>2. CASE i = n + 1
    BY <1>2, <1>6, <1>10, <2>2 DEF HandlerOf, Matching
  <2> QED  BY <1>2, <2>1, <2>2
<1>12. RoutesStand'
  <2> SUFFICES ASSUME NEW i \in DOMAIN handled', NEW j \in DOMAIN handled', i < j,
                      Sort(handled'[i].msg) = Sort(handled'[j].msg),
                      handled'[i].by.route # NoRoute
               PROVE  handled'[j].by = handled'[i].by
    BY DEF RoutesStand
  <2>1. i \in DOMAIN handled
    BY <1>2
  <2>2. CASE j \in DOMAIN handled
    BY <1>2, <2>1, <2>2 DEF PInv, RoutesStand
  <2>3. CASE j = n + 1
    <3>1. handled[i].by = HandlerOf(handled[i].msg)
      BY <1>2, <2>1 DEF PInv, RouteInv
    <3>2. Sort(handled[i].msg) = Sort(m)
      BY <1>2, <1>6, <2>1, <2>3
    <3>3. HandlerOf(handled[i].msg) = HandlerOf(m)
      BY <3>2, SameSort
    <3> QED  BY <1>2, <1>6, <2>1, <2>3, <3>1, <3>3
  <2> QED  BY <1>2, <2>2, <2>3
<1> QED  BY <1>3, <1>8, <1>9, <1>11, <1>12 DEF PInv

LEMMA CheckStep ==
    ASSUME PInv, NEW c \in Checker, CheckMessages(c)
    PROVE  PInv'
<1>1. CASE NoHandlers(c)
  <2>1. Left(c) = {}
    BY <1>1 DEF PInv, MessageInv, NoHandlers, Begins
  <2> QED  BY <1>1, <2>1, ReturnStep DEF NoHandlers
<1>2. CASE Ask(c)
  <2>1. TypeOK' /\ RateInv'
    BY <1>2 DEF PInv, TypeOK, RateInv, Ask, Goto
  <2>2. \A d \in Checker : Left(d)' = Left(d)
    BY <1>2 DEF Left, Ask
  <2>3. \A d \in Checker : check'[d] \in {"idle", "flight"} => Left(d) = {}
    BY <1>2 DEF Ask, Begins, Goto, PInv, MessageInv, TypeOK
  <2> QED  BY <1>2, <2>1, <2>2, <2>3, Quiet DEF PInv, Ask
<1>3. CASE FetchFails(c)
  <2>1. Left(c) = {}
    BY <1>3 DEF PInv, MessageInv, FetchFails
  <2> QED  BY <1>3, <2>1, ReturnStep DEF FetchFails
<1>4. CASE Fetch(c)
  <2>1. Left(c) = {}
    BY <1>4 DEF PInv, MessageInv, Fetch
  <2>2. /\ taken' \in taken..sent
        /\ sent \in 0..MaxMessages
        /\ taken \in Nat /\ taken' \in Nat
        /\ sent' = sent /\ handled' = handled
    BY <1>4 DEF PInv, TypeOK, Fetch
  <2>3. \A d \in Checker \ {c} : Left(d)' = Left(d) /\ check'[d] = check[d]
    BY <1>4 DEF Left, Fetch, Returns, Goto, PInv, TypeOK
  <2>4. \A d \in Checker : Left(d) \subseteq 1..taken
    BY DEF PInv, MessageInv, Somewhere
  <2>5. \A i \in DOMAIN handled : handled[i].msg \in 1..taken
    BY DEF PInv, MessageInv, Somewhere
  <2>6. lost \subseteq 1..taken
    BY DEF PInv, MessageInv, Somewhere
  <2>7. CASE /\ answer' = [answer EXCEPT ![c] = [next |-> taken + 1, last |-> taken']]
             /\ Goto(c, "dispatch")
             /\ UNCHANGED <<pc, asked, lost>>
    <3>1. TypeOK' /\ RateInv'
      BY <1>4, <2>2, <2>7 DEF PInv, TypeOK, RateInv, Fetch, Goto
    <3>2. Left(c)' = (taken + 1)..taken'
      BY <2>7 DEF Left, PInv, TypeOK
    <3>3. check'[c] = "dispatch"
      BY <2>7 DEF Goto, PInv, TypeOK
    <3>4. MessageInv'
      <4>1. 1..taken' = (1..taken) \cup Left(c)'
        BY <2>2, <3>2
      <4>2. \A m : Somewhere(m)' <=> Somewhere(m) \/ m \in Left(c)'
        BY <2>1, <2>2, <2>3, <2>7 DEF Somewhere
      <4>3. \A m : m \in 1..taken' <=> Somewhere(m)'
        BY <4>1, <4>2 DEF PInv, MessageInv
      <4>4. \A d \in Checker :
               check'[d] \in {"idle", "flight"} => Left(d)' = {}
        BY <2>3, <3>3 DEF PInv, MessageInv
      <4>5. \A m \in Left(c)' : m \in Nat /\ m > taken
        BY <2>2, <3>2
      <4>6. \A d, e \in Checker : d # e => Left(d)' \cap Left(e)' = {}
        BY <2>2, <2>3, <2>4, <4>5 DEF PInv, MessageInv
      <4>7. \A i \in DOMAIN handled : \A d \in Checker :
               /\ handled[i].msg \notin Left(d)'
               /\ handled[i].who = d => \A m \in Left(d)' : handled[i].msg < m
        <5>1. \A i \in DOMAIN handled :
                 /\ handled[i].msg \notin Left(c)'
                 /\ \A m \in Left(c)' : handled[i].msg < m
          BY <2>2, <2>5, <4>5
        <5> QED  BY <2>3, <5>1 DEF PInv, MessageInv
      <4> QED  BY <2>2, <4>3, <4>4, <4>6, <4>7 DEF MessageInv
    <3>5. InOrder' /\ RoutesStand'
      BY <2>2 DEF PInv, InOrder, RoutesStand
    <3>6. RouteInv'
      BY <1>4, <2>2 DEF PInv, RouteInv, HandlerOf, Matching, Fetch
    <3> QED  BY <3>1, <3>4, <3>5, <3>6 DEF PInv
  <2>8. CASE /\ lost' = lost \cup ((taken + 1)..taken')
             /\ Returns(c)
    <3>1. TypeOK' /\ RateInv'
      <4>1. (taken + 1)..taken' \subseteq Message
        BY <2>2 DEF Message
      <4> QED  BY <1>4, <2>2, <2>8, <4>1 DEF PInv, TypeOK, RateInv, Fetch, Returns, Goto, Nothing
    <3>2. Left(c)' = {}
      BY <2>8 DEF Left, Returns, Nothing, PInv, TypeOK
    <3>3. \A d \in Checker : Left(d)' = Left(d)
      BY <2>1, <2>3, <3>2
    <3>4. MessageInv'
      <4>1. 1..taken' = (1..taken) \cup ((taken + 1)..taken')
        BY <2>2
      <4>2. \A m : Somewhere(m)' <=> Somewhere(m) \/ m \in (taken + 1)..taken'
        BY <2>2, <2>8, <3>3 DEF Somewhere
      <4>3. \A m : m \in 1..taken' <=> Somewhere(m)'
        BY <4>1, <4>2 DEF PInv, MessageInv
      <4> QED  BY <2>2, <2>3, <3>2, <3>3, <4>3 DEF PInv, MessageInv
    <3>5. InOrder' /\ RoutesStand'
      BY <2>2 DEF PInv, InOrder, RoutesStand
    <3>6. RouteInv'
      BY <1>4, <2>2 DEF PInv, RouteInv, HandlerOf, Matching, Fetch
    <3> QED  BY <3>1, <3>4, <3>5, <3>6 DEF PInv
  <2> QED  BY <1>4, <2>7, <2>8 DEF Fetch
<1>5. CASE HandlerReturns(c)
  <2>1. TypeOK' /\ RateInv'
    BY <1>5 DEF PInv, TypeOK, RateInv, HandlerReturns, Goto
  <2>2. \A d \in Checker : Left(d)' = Left(d)
    BY <1>5 DEF Left, HandlerReturns
  <2>3. \A d \in Checker : check'[d] \in {"idle", "flight"} => Left(d) = {}
    BY <1>5 DEF HandlerReturns, Goto, PInv, MessageInv, TypeOK
  <2> QED  BY <1>5, <2>1, <2>2, <2>3, Quiet DEF PInv, HandlerReturns
<1>6. CASE Dispatched(c)
  <2>1. Left(c) = {}
    BY <1>6 DEF PInv, TypeOK, Left, Dispatched
  <2> QED  BY <1>6, <2>1, ReturnStep DEF Dispatched
<1>7. CASE Dispatch(c)
  BY <1>7, DispatchStep
<1> QED  BY <1>1, <1>2, <1>3, <1>4, <1>5, <1>6, <1>7 DEF CheckMessages
-----------------------------------------------------------------------------
\* The inductive invariant holds: what the poller, the setters and the checkers
\* know of each other, with any routes, rates, checkers and limits.
THEOREM Invariance == Spec => []PInv
<1>1. Init => PInv
  <2> SUFFICES ASSUME Init PROVE PInv
    OBVIOUS
  <2>1. TypeOK
    <3>1. routes \in Seq(Route) /\ Len(routes) = 0
      BY DEF Init
    <3>2. handled \in Seq([msg : Message, who : Checker, by : Handler])
      BY DEF Init
    <3>3. check \in [Checker -> {"idle", "flight", "dispatch", "handler"}]
      BY DEF Init
    <3>4. answer \in [Checker -> [next : Nat, last : Nat]]
      BY DEF Init, Nothing
    <3>5. asked \in [Checker -> Limits \cup {0}]
      BY DEF Init
    <3>6. /\ rate \in Rates /\ armed \in Rates /\ wake \in BOOLEAN
          /\ setting \subseteq Setter /\ fallback \subseteq Others
          /\ limit \in Limits /\ pc = "rearm" /\ lost \subseteq Message
          /\ done \in BOOLEAN
      BY DEF Init
    <3>7. 0 <= MaxHandlers /\ sent \in 0..MaxMessages /\ taken \in 0..sent
      BY DEF Init
    <3> QED  BY <3>1, <3>2, <3>3, <3>4, <3>5, <3>6, <3>7 DEF TypeOK
  <2>2. \A c \in Checker : Left(c) = {}
    BY DEF Init, Left, Nothing
  <2>3. DOMAIN handled = {}
    BY DEF Init
  <2>4. \A m : m \in 1..taken <=> Somewhere(m)
    BY <2>2, <2>3 DEF Init, Somewhere
  <2> QED  BY <2>1, <2>2, <2>3, <2>4
           DEF Init, PInv, MessageInv, InOrder, RouteInv, RoutesStand, RateInv
<1>2. PInv /\ [Next]_vars => PInv'
  <2> SUFFICES ASSUME PInv, [Next]_vars PROVE PInv'
    OBVIOUS
  <2>1. CASE UNCHANGED vars
    <3>1. (MessageInv /\ InOrder /\ RouteInv /\ RoutesStand)'
      BY <2>1, Aside DEF vars
    <3>2. TypeOK' /\ RateInv'
      BY <2>1 DEF PInv, TypeOK, RateInv, vars
    <3> QED  BY <3>1, <3>2 DEF PInv
  <2>2. CASE Next
    BY <2>2, SetterStep, PollerStep, CheckStep DEF Next
  <2> QED  BY <2>1, <2>2
<1> QED  BY <1>1, <1>2, PTL DEF Spec

\* The variables of the poller keep their types, with any routes and messages.
THEOREM TypeCorrect == Spec => []TypeOK
BY Invariance, PTL DEF PInv

\* A waiting poller's timer is set to the rate in force, however the setters
\* interleave with it.
THEOREM RateCorrect == Spec => []RateInForce
<1>1. PInv => RateInForce
  BY DEF PInv, RateInv, RateInForce
<1> QED  BY <1>1, Invariance, PTL

\* Every message the backend handed out is dispatched, about to be, or lost with
\* its answer, with any number of checkers.
THEOREM MessagesHandled == Spec => []EveryMessageHandled
<1>1. PInv => EveryMessageHandled
  <2> SUFFICES ASSUME PInv PROVE EveryMessageHandled
    OBVIOUS
  <2>1. \A m : m \in 1..taken <=> Somewhere(m)
    BY DEF PInv, MessageInv
  <2>2. \A m : m \in 1..taken <=>
                  m \in lost \cup {handled[i].msg : i \in DOMAIN handled}
                          \cup UNION {Left(c) : c \in Checker}
    BY <2>1 DEF Somewhere
  <2> QED  BY <2>2 DEF EveryMessageHandled, Left
<1> QED  BY <1>1, Invariance, PTL

\* No message is dispatched twice, and no checker dispatches two out of order.
THEOREM MessagesInOrder == Spec => []InOrder
BY Invariance, PTL DEF PInv

\* The first matching route wins, and keeps winning when others are registered.
THEOREM RoutesCorrect == Spec => []RoutesStand
BY Invariance, PTL DEF PInv
=============================================================================
