---------------------------- MODULE StateProofs ----------------------------
(***************************************************************************)
(* Proofs about StateTable, for any number of callers of CheckState, any   *)
(* contents and any number of changes.                                     *)
(***************************************************************************)
EXTENDS StateTable, TLAPS

USE StateTableAssumption

\* A table somebody knows is not newer than the backend's.
Known(t) ==
    t # NoTable => /\ t.number <= table.number
                   /\ t.number = table.number => t = table

KnownInv == Known(last) /\ \A c \in Checker : Known(got[c])

\* While no two calls overlapped, one is under way at most, with a table that
\* is at least as new as the recorded one, and the handler has heard of
\* no table that is newer than the recorded one.
TurnInv ==
    ~overlapped =>
        /\ \A c, d \in Checker : c # d => pc[c] = "idle" \/ pc[d] = "idle"
        /\ \A c \in Checker : pc[c] = "answered" /\ last # NoTable =>
               /\ last.number <= got[c].number
               /\ last.number = got[c].number => last = got[c]
        /\ \A c \in Checker : pc[c] = "dispatch" =>
               last = got[c] /\ shown[last.number] = 0
        /\ \A n \in 0..MaxChanges :
               /\ shown[n] <= 1
               /\ last = NoTable \/ n > last.number => shown[n] = 0

SInv == TypeOK /\ KnownInv /\ TurnInv

LEMMA Tables ==
    /\ NoTable \notin Table
    /\ \A t \in Table : t.number \in 0..MaxChanges /\ t.content \in Content
    /\ \A t \in Table : t.number \in Nat
BY DEF Table, NoTable

LEMMA InitOK == Init => SInv
<1> SUFFICES ASSUME Init PROVE SInv
  OBVIOUS
<1>1. TypeOK
  <2>1. table \in Table
    <3>1. PICK s \in Content : table = [number |-> 0, content |-> s]
      BY DEF Init
    <3> QED  BY <3>1 DEF Table
  <2>2. shown \in [0..MaxChanges -> Nat]
    BY DEF Init
  <2>3. /\ pc \in [Checker -> {"idle", "asked", "answered", "dispatch"}]
        /\ got \in [Checker -> Table \cup {NoTable}]
        /\ \A c \in Checker : got[c] = NoTable <=> pc[c] \in {"idle", "asked"}
    BY DEF Init
  <2> QED  BY <2>1, <2>2, <2>3 DEF Init, TypeOK
<1>2. KnownInv
  BY DEF Init, KnownInv, Known
<1>3. TurnInv
  BY DEF Init, TurnInv
<1> QED  BY <1>1, <1>2, <1>3 DEF SInv

LEMMA ChangeStep ==
    ASSUME SInv, Change
    PROVE  SInv'
<1>1. /\ table' \in Table
      /\ table'.number = table.number + 1
      /\ table.number \in Nat
  BY Tables DEF Change, SInv, TypeOK, Table
<1>2. TypeOK'
  BY <1>1 DEF Change, SInv, TypeOK
<1>3. \A t \in Table \cup {NoTable} :
         (t # NoTable => t.number <= table.number /\ (t.number = table.number => t = table))
         => (t # NoTable => t.number <= table'.number /\ (t.number = table'.number => t = table'))
  BY <1>1, Tables
<1>4. KnownInv'
  BY <1>3 DEF Change, SInv, TypeOK, KnownInv, Known
<1>5. TurnInv'
  BY DEF Change, SInv, TurnInv
<1> QED  BY <1>2, <1>4, <1>5 DEF SInv

LEMMA CallStep ==
    ASSUME SInv, NEW c \in Checker, Ask(c) \/ CheckState(c)
    PROVE  SInv'
<1> USE Tables
<1>1. CASE Ask(c)
  <2>1. TypeOK'
    BY <1>1 DEF Ask, SInv, TypeOK
  <2>2. KnownInv'
    BY <1>1 DEF Ask, SInv, KnownInv, Known
  <2>3. TurnInv'
    BY <1>1 DEF Ask, SInv, TypeOK, TurnInv
  <2> QED  BY <2>1, <2>2, <2>3 DEF SInv
<1>2. CASE Serve(c)
  <2>1. TypeOK'
    BY <1>2 DEF Serve, SInv, TypeOK
  <2>2. KnownInv'
    BY <1>2 DEF Serve, SInv, TypeOK, KnownInv, Known
  <2>3. TurnInv'
    BY <1>2 DEF Serve, SInv, TypeOK, KnownInv, Known, TurnInv
  <2> QED  BY <2>1, <2>2, <2>3 DEF SInv
<1>3. CASE Fail(c)
  <2>1. TypeOK'
    BY <1>3 DEF Fail, Finish, SInv, TypeOK
  <2>2. KnownInv'
    BY <1>3 DEF Fail, Finish, SInv, TypeOK, KnownInv, Known
  <2>3. TurnInv'
    BY <1>3 DEF Fail, Finish, SInv, TypeOK, TurnInv
  <2> QED  BY <2>1, <2>2, <2>3 DEF SInv
<1>4. CASE Record(c)
  <2>1. got[c] \in Table
    BY <1>4 DEF Record, SInv, TypeOK
  <2>2. TypeOK'
    BY <1>4, <2>1 DEF Record, Finish, SInv, TypeOK
  <2>3. KnownInv'
    BY <1>4, <2>1 DEF Record, Finish, SInv, TypeOK, KnownInv, Known
  <2>4. TurnInv'
    <3> SUFFICES ASSUME ~overlapped PROVE TurnInv'
      BY <1>4 DEF Record, TurnInv
    <3>1. \A d \in Checker \ {c} : pc[d] = "idle" /\ pc'[d] = "idle"
      BY <1>4 DEF Record, Finish, SInv, TypeOK, TurnInv
    <3>2. last # NoTable /\ last.content # got[c].content
            => last.number < got[c].number
      BY <1>4, <2>1 DEF Record, SInv, TypeOK, TurnInv
    <3>3. last # NoTable => last.number <= got[c].number
      BY <1>4 DEF Record, SInv, TurnInv
    <3>4. last' = got[c] /\ shown' = shown /\ last \in Table \cup {NoTable}
      BY <1>4 DEF Record, SInv, TypeOK
    <3>5. pc'[c] = "dispatch" => /\ last # NoTable
                                 /\ last.content # got[c].content
                                 /\ got'[c] = got[c]
      BY <1>4 DEF Record, Finish, SInv, TypeOK
    <3>6. pc'[c] # "answered"
      BY <1>4 DEF Record, Finish, SInv, TypeOK
    <3>7. \A n \in 0..MaxChanges :
             /\ shown[n] <= 1
             /\ n > got[c].number => shown[n] = 0
      BY <2>1, <3>3, <3>4 DEF SInv, TurnInv
    <3>8. pc'[c] = "dispatch" => last' = got'[c] /\ shown'[last'.number] = 0
      BY <2>1, <3>2, <3>4, <3>5 DEF SInv, TurnInv
    <3>9. last' # NoTable
      BY <2>1, <3>4
    <3> QED  BY <3>1, <3>4, <3>6, <3>7, <3>8, <3>9 DEF TurnInv
  <2> QED  BY <2>2, <2>3, <2>4 DEF SInv
<1>5. CASE Dispatch(c)
  <2>1. got[c] \in Table
    BY <1>5 DEF Dispatch, SInv, TypeOK
  <2>2. TypeOK'
    <3>1. shown' \in [0..MaxChanges -> Nat]
      BY <1>5, <2>1 DEF Dispatch, SInv, TypeOK
    <3> QED  BY <1>5, <2>1, <3>1 DEF Dispatch, Finish, SInv, TypeOK
  <2>3. KnownInv'
    BY <1>5 DEF Dispatch, Finish, SInv, TypeOK, KnownInv, Known
  <2>4. TurnInv'
    <3> SUFFICES ASSUME ~overlapped PROVE TurnInv'
      BY <1>5 DEF Dispatch, TurnInv
    <3>1. last = got[c] /\ shown[last.number] = 0 /\ last' = last
      BY <1>5 DEF Dispatch, SInv, TurnInv
    <3>2. shown' = [shown EXCEPT ![last.number] = @ + 1]
      BY <1>5, <3>1 DEF Dispatch
    <3>3. \A n \in 0..MaxChanges :
             /\ shown'[n] <= 1
             /\ last = NoTable \/ n > last.number => shown'[n] = 0
      BY <2>1, <3>1, <3>2 DEF SInv, TypeOK, TurnInv
    <3>4. pc'[c] = "idle" /\ \A d \in Checker \ {c} : pc'[d] = "idle"
      BY <1>5 DEF Dispatch, Finish, SInv, TypeOK, TurnInv
    <3> QED  BY <3>1, <3>3, <3>4 DEF TurnInv
  <2> QED  BY <2>2, <2>3, <2>4 DEF SInv
<1> QED  BY <1>1, <1>2, <1>3, <1>4, <1>5 DEF CheckState

LEMMA SStep == SInv /\ [Next]_vars => SInv'
<1> SUFFICES ASSUME SInv, [Next]_vars PROVE SInv'
  OBVIOUS
<1>1. CASE Register
  BY <1>1 DEF Register, SInv, TypeOK, KnownInv, Known, TurnInv
<1>2. CASE UNCHANGED vars
  BY <1>2 DEF vars, SInv, TypeOK, KnownInv, Known, TurnInv
<1> QED  BY <1>1, <1>2, ChangeStep, CallStep DEF Next

LEMMA Invariance == Spec => []SInv
BY InitOK, SStep, PTL DEF Spec

\* The variables keep their types, and a checker holds an answer exactly while
\* it is working on one, with any number of checkers.
THEOREM TypeCorrect == Spec => []TypeOK
BY Invariance, PTL DEF SInv

\* As long as no two calls of CheckState overlap, whoever makes them, the
\* handler hears of each table at most once.
THEOREM HeardOnce == Spec => []HeardOnceInTurn
<1>1. SInv => HeardOnceInTurn
  BY DEF SInv, TurnInv, HeardOnceInTurn, OneCallPerChange
<1> QED  BY <1>1, Invariance, PTL
-----------------------------------------------------------------------------
(***************************************************************************)
(* What HandlerUpToDate and RecordFollows rest on: the handler catches up  *)
(* with the recorded table without the next poll, and neither goes back.   *)
(***************************************************************************)

\* Once the call that recorded a table is done with it, the handler has heard
\* of what is recorded (client_state.go:118 "only later changes are
\* dispatched": never one less), if no two calls of CheckState overlapped.
HandlerAbreast ==
    \/ overlapped
    \/ \E c \in Checker : pc[c] = "dispatch"
    \/ view.content = last.content

\* Neither the recorded table nor the one the handler has is ever replaced by
\* an older one, as long as no two calls of CheckState overlap: what the
\* mutex of client_state.go:111 does not give, the order of the calls does.
Forward ==
    [][\/ overlapped'
       \/ last.number <= last'.number /\ view.number <= view'.number]_vars

\* The handler knows no newer table than the recorded one, and none before
\* the baseline.
ViewInv ==
    ~overlapped => /\ view.number <= last.number
                   /\ last = NoTable => view = NoTable

LInv == SInv /\ HandlerAbreast /\ ViewInv

LEMMA Numbers ==
    /\ \A t \in Table \cup {NoTable} : t.number \in Nat
    /\ NoTable.number = 0
BY DEF Table, NoTable

\* A critical section, and a dispatch, go forward from a state that does.
LEMMA RecordView ==
    ASSUME LInv, NEW c \in Checker, Record(c)
    PROVE  /\ HandlerAbreast' /\ ViewInv'
           /\ overlapped' \/ (last.number <= last'.number /\ view.number <= view'.number)
<1>1. /\ got[c] \in Table /\ last' = got[c] /\ got[c] # NoTable
      /\ overlapped' = overlapped
      /\ last \in Table \cup {NoTable} /\ view \in Table \cup {NoTable}
  BY Tables DEF Record, LInv, SInv, TypeOK
<1>2. /\ last = NoTable => view' = got[c]
      /\ last # NoTable => view' = view
      /\ ~overlapped /\ last = NoTable => view = NoTable
  BY DEF Record, LInv, ViewInv
<1>3. ASSUME ~overlapped
      PROVE  last.number <= got[c].number /\ view.number <= last.number
  BY <1>1, <1>3, Numbers DEF Record, LInv, ViewInv, SInv, TurnInv
<1>4. HandlerAbreast'
  <2>1. CASE overlapped
    BY <1>1, <2>1 DEF HandlerAbreast
  <2>2. CASE last = NoTable
    BY <1>1, <1>2, <2>2 DEF HandlerAbreast
  <2>3. CASE last # NoTable /\ last.content # got[c].content
    BY <2>3 DEF Record, HandlerAbreast, LInv, SInv, TypeOK
  <2>4. CASE ~overlapped /\ last # NoTable /\ last.content = got[c].content
    <3>1. \A d \in Checker : pc[d] # "dispatch"
      BY <2>4 DEF Record, LInv, SInv, TurnInv
    <3>2. view.content = last.content
      BY <2>4, <3>1 DEF LInv, HandlerAbreast
    <3> QED  BY <1>1, <1>2, <2>4, <3>2 DEF HandlerAbreast
  <2> QED  BY <2>1, <2>2, <2>3, <2>4
<1>5. ASSUME ~overlapped
      PROVE  last.number <= last'.number /\ view.number <= view'.number
             /\ view'.number <= last'.number
  BY <1>1, <1>2, <1>3, <1>5, Numbers
<1>6. ViewInv'
  BY <1>1, <1>5 DEF ViewInv
<1> QED  BY <1>1, <1>4, <1>5, <1>6

LEMMA DispatchView ==
    ASSUME LInv, NEW c \in Checker, Dispatch(c)
    PROVE  /\ HandlerAbreast' /\ ViewInv'
           /\ overlapped' \/ (last.number <= last'.number /\ view.number <= view'.number)
<1>1. /\ got[c] \in Table /\ view' = got[c] /\ last' = last
      /\ overlapped' = overlapped
      /\ last \in Table \cup {NoTable} /\ view \in Table \cup {NoTable}
  BY DEF Dispatch, LInv, SInv, TypeOK
<1>3. ~overlapped => last = got[c] /\ view.number <= last.number
  BY DEF Dispatch, LInv, SInv, TurnInv, ViewInv
<1>4. HandlerAbreast' /\ ViewInv'
  BY <1>1, <1>3, Tables, Numbers DEF HandlerAbreast, ViewInv
<1> QED  BY <1>1, <1>3, <1>4, Numbers

LEMMA Viewing ==
    ASSUME LInv, [Next]_vars
    PROVE  /\ LInv'
           /\ overlapped' \/ (last.number <= last'.number /\ view.number <= view'.number)
<1>1. SInv'
  BY SStep DEF LInv
<1>2. ASSUME UNCHANGED <<last, view>>
      PROVE  last.number <= last'.number /\ view.number <= view'.number
  BY <1>2, Numbers DEF LInv, SInv, TypeOK
<1>3. CASE Register \/ Change \/ UNCHANGED vars
  BY <1>1, <1>2, <1>3 DEF Register, Change, vars, LInv, HandlerAbreast, ViewInv
<1>4. ASSUME NEW c \in Checker, Ask(c) \/ Serve(c) \/ Fail(c)
      PROVE  /\ LInv'
             /\ overlapped' \/ (last.number <= last'.number /\ view.number <= view'.number)
  <2>1. /\ UNCHANGED <<last, view>>
        /\ overlapped => overlapped'
        /\ \A d \in Checker : pc[d] = "dispatch" => pc'[d] = "dispatch"
    BY <1>4 DEF Ask, Serve, Fail, Finish, LInv, SInv, TypeOK
  <2>2. HandlerAbreast' /\ ViewInv'
    BY <2>1 DEF LInv, HandlerAbreast, ViewInv
  <2> QED  BY <1>1, <1>2, <2>1, <2>2 DEF LInv
<1>5. ASSUME NEW c \in Checker, Record(c) \/ Dispatch(c)
      PROVE  /\ LInv'
             /\ overlapped' \/ (last.number <= last'.number /\ view.number <= view'.number)
  BY <1>1, <1>5, RecordView, DispatchView DEF LInv
<1> QED  BY <1>3, <1>4, <1>5 DEF Next, CheckState

LEMMA ViewInvariance == Spec => []LInv
<1>1. Init => LInv
  <2> SUFFICES ASSUME Init PROVE LInv
    OBVIOUS
  <2>1. HandlerAbreast /\ ViewInv
    BY Numbers DEF Init, HandlerAbreast, ViewInv
  <2> QED  BY <2>1, InitOK DEF LInv
<1>2. LInv /\ [Next]_vars => LInv'
  BY Viewing
<1> QED  BY <1>1, <1>2, PTL DEF Spec

\* Without overlapping calls the handler is never behind the recorded table
\* once the call that recorded it is over.
THEOREM HandlerCatchesUp == Spec => []HandlerAbreast
BY ViewInvariance, PTL DEF LInv

\* Without overlapping calls neither the record nor the handler goes back.
THEOREM GoesForward == Spec => Forward
<1>1. LInv /\ [Next]_vars
        => [\/ overlapped'
            \/ last.number <= last'.number /\ view.number <= view'.number]_vars
  BY Viewing
<1> QED  BY <1>1, ViewInvariance, PTL DEF Spec, Forward
=============================================================================
