----------------------------- MODULE SendProofs -----------------------------
(***************************************************************************)
(* Proofs about SendMessages, for any number of concurrent callers and any *)
(* configured number of retries.                                           *)
(***************************************************************************)
EXTENDS SendMessages, TLAPS

\* What the shared settings are, step by step of the replay.
Settings ==
    /\ pc["ret"] \in {"idle", "shortened", "restored"} => maxRetries = MaxRetries
    /\ pc["ret"] \in {"limited", "restore"} \cup InCall =>
          maxRetries = 1 /\ saved.maxRetries = MaxRetries
    /\ IF pc["ret"] = "idle"
       THEN timeout = "configured"
       ELSE timeout = "short" /\ saved.timeout = "configured"

\* No replay is under way during an undisturbed call, and no call sleeps
\* without an attempt to come.
Attempts ==
    \A c \in Caller :
        /\ c # "ret" => pc[c] \in {"idle"} \cup InCall
        /\ c # "ret" /\ pc[c] \in InCall /\ ~disturbed[c] =>
              pc["ret"] = "idle"
        /\ pc[c] = "sleep" => attempt[c] < MaxRetries
        /\ c = "ret" /\ pc[c] \in InCall => attempt[c] <= 1
        /\ c = "ret" /\ pc[c] = "sleep" => attempt[c] = 0

\* A call that still has no result has as many taken copies as lost answers.
Copies ==
    \A c \in Caller :
        /\ copies[c] <= missed[c] + 1
        /\ \/ pc[c] \in {"test", "do", "flight", "error", "sleep"}
           \/ pc[c] = "answer" /\ verdict[c] # "taken"
           => copies[c] <= missed[c]

\* A request the server answered has been read.
AnswersRead == \A c \in Caller : pc[c] = "answer" => body[c] = "consumed"

Inv == TypeOK /\ Settings /\ Attempts /\ FullEffort /\ Copies
       /\ AnswersRead

LEMMA InitInv == Init => Inv
BY SendMessagesAssumption
   DEF Init, Inv, TypeOK, Settings, Attempts, FullEffort, Copies,
       AnswersRead, InCall, Around, Verdict, Timeout

\* The invariant of one caller that is not the retrier, whose call the step
\* moved, or of everyone, when only settings changed.
LEMMA StepInv == Inv /\ [Next]_vars => Inv'
<1> SUFFICES ASSUME Inv, [Next]_vars PROVE Inv'
  OBVIOUS
<1> USE SendMessagesAssumption
        DEF Inv, TypeOK, Settings, Attempts, FullEffort, Copies,
            AnswersRead, InCall, Around, Verdict, Timeout, Goto, calls, settings
<1>1. ASSUME NEW c \in Caller, Call(c) PROVE Inv'
  <2>1. /\ settings' = settings /\ limit' = limit /\ c # "ret" /\ pc[c] = "idle"
        /\ \A d \in Caller \ {c} :
              /\ pc'[d] = pc[d] /\ attempt'[d] = attempt[d]
              /\ verdict'[d] = verdict[d] /\ disturbed'[d] = disturbed[d]
              /\ copies'[d] = copies[d] /\ missed'[d] = missed[d]
        /\ pc'[c] \in {"test", "failed"}
        /\ pc'[c] = "failed" => verdict'[c] = "refused"
        /\ attempt'[c] = 0 /\ copies'[c] = 0 /\ missed'[c] = 0
        /\ disturbed'[c] = (pc["ret"] # "idle")
    BY <1>1 DEF Call, Begin
  <2>2. TypeOK'
    <3>1. disturbed' \in [Caller -> BOOLEAN]
      BY <1>1, Zenon DEF Call, Begin
    <3> QED  BY <1>1, <3>1 DEF Call, Begin
  <2>3. Settings'
    BY <2>1
  <2>4. Attempts'
    <3>1. maxRetries' = maxRetries /\ "ret" # c
      BY <2>1
    <3> QED  BY <2>1, <2>2, <3>1
  <2>5. FullEffort'
    BY <2>1
  <2>6. Copies'
    BY <2>1
  <2>7. AnswersRead'
    BY <1>1, <2>1 DEF Call, Begin
  <2> QED  BY <2>2, <2>3, <2>4, <2>5, <2>6, <2>7
<1>2. ASSUME NEW c \in Caller, Test(c) PROVE Inv'
  BY <1>2 DEF Test
<1>3. ASSUME NEW c \in Caller, Do(c) PROVE Inv'
  BY <1>3 DEF Do
<1>4. ASSUME NEW c \in Caller, Answer(c) PROVE Inv'
  BY <1>4 DEF Answer
<1>5. ASSUME NEW c \in Caller, Unsent(c) PROVE Inv'
  BY <1>5 DEF Unsent
<1>6. ASSUME NEW c \in Caller, AnswerLost(c) PROVE Inv'
  BY <1>6 DEF AnswerLost
<1>7. ASSUME NEW c \in Caller, Failed(c) PROVE Inv'
  BY <1>7 DEF Failed, Again
<1>8. ASSUME NEW c \in Caller, Read(c) PROVE Inv'
  BY <1>8 DEF Read, Again
<1>9. ASSUME NEW c \in Caller, Wake(c) PROVE Inv'
  BY <1>9 DEF Wake
<1>10. ASSUME NEW c \in Caller, Return(c) PROVE Inv'
  BY <1>10 DEF Return
<1>11. ASSUME Shorten PROVE Inv'
  <2>1. /\ pc["ret"] = "idle" /\ pc'["ret"] = "shortened"
        /\ \A d \in Caller \ {"ret"} : pc'[d] = pc[d]
        /\ maxRetries' = maxRetries /\ timeout' = "short"
        /\ saved'.timeout = timeout
        /\ \A d \in Caller : pc[d] # "idle" => disturbed'[d]
    BY <1>11 DEF Shorten
  <2>2. TypeOK'
    <3>1. disturbed' \in [Caller -> BOOLEAN]
      BY <1>11, Zenon DEF Shorten
    <3> QED  BY <1>11, <3>1 DEF Shorten
  <2>3. Settings'
    BY <2>1
  <2>4. Attempts'
    BY <1>11, <2>1 DEF Shorten
  <2>5. FullEffort'
    BY <1>11, <2>1 DEF Shorten
  <2>6. Copies'
    BY <1>11 DEF Shorten
  <2>7. AnswersRead'
    BY <1>11 DEF Shorten
  <2> QED  BY <2>2, <2>3, <2>4, <2>5, <2>6, <2>7
<1>12. ASSUME LimitRetries PROVE Inv'
  BY <1>12 DEF LimitRetries
<1>13. ASSUME Replay PROVE Inv'
  BY <1>13 DEF Replay, Begin
<1>14. ASSUME RestoreRetries PROVE Inv'
  BY <1>14 DEF RestoreRetries
<1>15. ASSUME RestoreTimeout PROVE Inv'
  BY <1>15 DEF RestoreTimeout
<1>16. ASSUME UNCHANGED vars PROVE Inv'
  BY <1>16 DEF vars
<1> QED
  BY <1>1, <1>2, <1>3, <1>4, <1>5, <1>6, <1>7, <1>8, <1>9, <1>10, <1>11,
     <1>12, <1>13, <1>14, <1>15, <1>16 DEF Next, CallStep, ReplayStep

LEMMA Invariance == Spec => []Inv
BY InitInv, StepInv, PTL DEF Spec

\* The variables keep their types; in particular no call makes more than
\* MaxRetries + 1 attempts.
THEOREM TypeCorrect == Spec => []TypeOK
<1>1. Inv => TypeOK
  BY DEF Inv
<1> QED  BY <1>1, Invariance, PTL

\* sendOfflineBatch leaves the shared settings as it found them.
THEOREM SettingsRestored == Spec => []ConfigRestored
<1>1. Inv => ConfigRestored
  BY DEF Inv, Settings, ConfigRestored
<1> QED  BY <1>1, Invariance, PTL

\* A call gives up early only on a refusal or when a replay disturbed it.
THEOREM FullEffortMade == Spec => []FullEffort
<1>1. Inv => FullEffort
  BY DEF Inv
<1> QED  BY <1>1, Invariance, PTL

\* Every copy the server took of one call but the first answers for a lost
\* answer.
THEOREM NoUnexplainedDuplicate == Spec => []DuplicatesExplained
<1>1. Inv => DuplicatesExplained
  BY DEF Inv, Copies, DuplicatesExplained
<1> QED  BY <1>1, Invariance, PTL
-----------------------------------------------------------------------------
\* A step of caller c that takes its call to state `to` is one move of Calls.
LEMMA OneMove ==
    ASSUME NEW c \in Caller, NEW from, NEW to,
           CallOf(c) \in from,
           CallOf(c)' = to,
           \A d \in Caller \ {c} : CallOf(d)' = CallOf(d)
    PROVE  Promise!Move(c, from, to)
BY DEF Promise!Move, CallsNow

\* A step of caller c that leaves its call where it is moves nothing.
LEMMA NoMove ==
    ASSUME NEW c \in Caller,
           CallOf(c)' = CallOf(c),
           \A d \in Caller \ {c} : CallOf(d)' = CallOf(d)
    PROVE  UNCHANGED CallsNow
BY DEF CallsNow

\* What a step of the loop does to the calls Calls knows: the caller's own
\* call may move, the others do not.
LEMMA StepMaps ==
    ASSUME Inv, [Next]_vars
    PROVE  [Promise!CallsNext]_CallsNow
<1> USE SendMessagesAssumption
        DEF Inv, TypeOK, Attempts, AnswersRead, InCall, Around, Verdict, Goto,
            calls, settings, CallOf, CallsNow
<1>1. ASSUME NEW c \in Caller, Call(c)
      PROVE  \/ Promise!Move(c, {"idle"}, "unread")
             \/ Promise!Move(c, {"idle"}, "failed")
  <2>1. /\ CallOf(c) \in {"idle"}
        /\ CallOf(c)' \in {"unread", "failed"}
        /\ \A d \in Caller \ {c} : CallOf(d)' = CallOf(d)
    BY <1>1 DEF Call, Begin
  <2> HIDE DEF Inv, CallOf, CallsNow
  <2> QED  BY <2>1, OneMove, NoMove
<1>2. ASSUME NEW c \in Caller, Test(c)
      PROVE  \/ UNCHANGED CallsNow
             \/ Promise!Move(c, {"unread", "accepted", "read"}, "failed")
  <2>1. /\ CallOf(c) \in {"unread", "accepted", "read"}
        /\ CallOf(c)' \in {CallOf(c), "failed"}
        /\ \A d \in Caller \ {c} : CallOf(d)' = CallOf(d)
    BY <1>2 DEF Test
  <2> HIDE DEF Inv, CallOf, CallsNow
  <2> QED  BY <2>1, OneMove, NoMove
<1>3. ASSUME NEW c \in Caller, Do(c) \/ Wake(c)
      PROVE  UNCHANGED CallsNow
  BY <1>3 DEF Do, Wake
<1>4. ASSUME NEW c \in Caller, Answer(c)
      PROVE  \/ UNCHANGED CallsNow
             \/ Promise!Move(c, {"unread", "read"}, "accepted")
             \/ Promise!Move(c, {"unread", "accepted"}, "read")
  <2>1. /\ CallOf(c) \in {"unread", "read"}
        /\ CallOf(c)' \in {"accepted", "read"}
        /\ \A d \in Caller \ {c} : CallOf(d)' = CallOf(d)
    BY <1>4 DEF Answer
  <2> HIDE DEF Inv, CallOf, CallsNow
  <2>2. CASE CallOf(c)' = "accepted"
    BY <2>1, <2>2, OneMove
  <2>3. CASE CallOf(c) = "unread" /\ CallOf(c)' = "read"
    BY <2>1, <2>3, OneMove
  <2>4. CASE CallOf(c) = "read" /\ CallOf(c)' = "read"
    BY <2>1, <2>4, NoMove
  <2> QED  BY <2>1, <2>2, <2>3, <2>4
<1>5. ASSUME NEW c \in Caller, Unsent(c)
      PROVE  \/ UNCHANGED CallsNow
             \/ Promise!Move(c, {"unread", "accepted"}, "read")
  <2>1. /\ CallOf(c) \in {"unread", "read"}
        /\ CallOf(c)' \in {CallOf(c), "read"}
        /\ \A d \in Caller \ {c} : CallOf(d)' = CallOf(d)
    BY <1>5 DEF Unsent
  <2> HIDE DEF Inv, CallOf, CallsNow
  <2> QED  BY <2>1, OneMove, NoMove
<1>6. ASSUME NEW c \in Caller, AnswerLost(c)
      PROVE  \/ UNCHANGED CallsNow
             \/ Promise!Move(c, {"unread", "accepted"}, "read")
  <2>1. /\ CallOf(c) \in {"accepted", "read"}
        /\ CallOf(c)' = "read"
        /\ \A d \in Caller \ {c} : CallOf(d)' = CallOf(d)
    BY <1>6 DEF AnswerLost
  <2> HIDE DEF Inv, CallOf, CallsNow
  <2> QED  BY <2>1, OneMove, NoMove
<1>7. ASSUME NEW c \in Caller, Failed(c)
      PROVE  \/ UNCHANGED CallsNow
             \/ Promise!Move(c, {"unread", "accepted", "read"}, "failed")
  <2>1. /\ CallOf(c) \in {"unread", "accepted", "read"}
        /\ CallOf(c)' \in {CallOf(c), "failed"}
        /\ \A d \in Caller \ {c} : CallOf(d)' = CallOf(d)
    BY <1>7 DEF Failed, Again
  <2> HIDE DEF Inv, CallOf, CallsNow
  <2> QED  BY <2>1, OneMove, NoMove
<1>8. ASSUME NEW c \in Caller, Read(c)
      PROVE  \/ UNCHANGED CallsNow
             \/ Promise!Move(c, {"accepted"}, "ok")
             \/ Promise!Move(c, {"unread", "accepted", "read"}, "failed")
  <2>1. /\ \/ CallOf(c) = "accepted" /\ CallOf(c)' = "ok"
           \/ CallOf(c) = "read" /\ CallOf(c)' \in {"read", "failed"}
        /\ \A d \in Caller \ {c} : CallOf(d)' = CallOf(d)
    BY <1>8 DEF Read, Again
  <2> HIDE DEF Inv, CallOf, CallsNow
  <2> QED  BY <2>1, OneMove, NoMove
<1>9. ASSUME NEW c \in Caller, Return(c)
      PROVE  Promise!Move(c, {"ok", "failed"}, "idle")
  <2>1. /\ CallOf(c) \in {"ok", "failed"}
        /\ CallOf(c)' = "idle"
        /\ \A d \in Caller \ {c} : CallOf(d)' = CallOf(d)
    BY <1>9 DEF Return
  <2> HIDE DEF Inv, CallOf, CallsNow
  <2> QED  BY <2>1, OneMove, NoMove
<1>10. ASSUME Replay
       PROVE  \/ Promise!Move("ret", {"idle"}, "unread")
              \/ Promise!Move("ret", {"idle"}, "failed")
  <2>1. /\ CallOf("ret") \in {"idle"}
        /\ CallOf("ret")' \in {"unread", "failed"}
        /\ \A d \in Caller \ {"ret"} : CallOf(d)' = CallOf(d)
    BY <1>10 DEF Replay, Begin
  <2> HIDE DEF Inv, CallOf, CallsNow
  <2> QED  BY <2>1, OneMove, NoMove
<1>11. ASSUME Shorten \/ LimitRetries \/ RestoreRetries \/ RestoreTimeout
       PROVE  UNCHANGED CallsNow
  BY <1>11 DEF Shorten, LimitRetries, RestoreRetries, RestoreTimeout
<1>12. ASSUME UNCHANGED vars
       PROVE  UNCHANGED CallsNow
  BY <1>12 DEF vars
<1> QED
  BY <1>1, <1>2, <1>3, <1>4, <1>5, <1>6, <1>7, <1>8, <1>9, <1>10, <1>11, <1>12
     DEF Next, CallStep, ReplayStep, Promise!CallsNext

\* The retry loop implements the calls of Calls, the interface Delivery is
\* built on: TLC's UsesCalls is the other half.
THEOREM LoopImplementsCalls == Spec => ImplementsCalls
<1>1. Init => Promise!CallsInit
  BY SendMessagesAssumption DEF Init, Promise!CallsInit, CallOf, CallsNow
<1>2. Inv /\ [Next]_vars => [Promise!CallsNext]_CallsNow
  BY StepMaps
<1> QED
  BY <1>1, <1>2, Invariance, PTL DEF Spec, ImplementsCalls, Promise!CallsSpec
=============================================================================
