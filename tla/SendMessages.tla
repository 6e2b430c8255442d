---------------------------- MODULE SendMessages ----------------------------
(***************************************************************************)
(* The retry loop of Client.sendMessages (client_publishing.go), run by    *)
(* several goroutines at once, and sendOfflineBatch (client_offline.go),   *)
(* which makes its own call cheaper by overwriting two fields all callers  *)
(* share, config.MaxRetries and httpClient.Timeout, and restoring them     *)
(* when it returns.                                                        *)
(*                                                                         *)
(* The fields are written and read without a lock; both are one machine    *)
(* word, so an access reads some value that was written.  What the server  *)
(* does with a request is open.  Delivery has the same calls without their *)
(* attempts; both implement Calls.                                         *)
(***************************************************************************)
EXTENDS Naturals

CONSTANTS Caller,       \* goroutines that may be in sendMessages, see "ret"
          MaxRetries    \* max_retries of the configuration, positive

ASSUME SendMessagesAssumption ==
    /\ "ret" \in Caller    \* the offline retrier
    /\ MaxRetries \in Nat \ {0}

VARIABLES
    pc,           \* per caller, where its call is
    attempt,      \* per caller, the loop variable
    body,         \* per caller, the request's body: whole or consumed
    verdict,      \* per caller, what its last request came to, see Verdict
    limit,        \* per caller, the timeout its last request ran with
    maxRetries,   \* c.config.MaxRetries
    timeout,      \* c.httpClient.Timeout
    saved,        \* originalMaxRetries and originalTimeout of sendOfflineBatch
    copies,       \* history, per call: requests the server answered with 2xx
    missed,       \* history, per call: such answers that never came back
    disturbed     \* history, per call: a replay was under way meanwhile

vars == <<pc, attempt, body, verdict, limit, maxRetries, timeout, saved, copies,
          missed, disturbed>>

calls    == <<attempt, body, verdict, limit, copies, missed>>
settings == <<maxRetries, timeout, saved>>

Verdict == {"none",        \* no answer, or none that came back
            "taken",       \* 2xx
            "transient",   \* 5xx or 429
            "refused"}     \* 4xx, or json.Marshal refused the data

Timeout == {"configured", "short"}

InCall == {"test", "do", "flight", "answer", "error", "sleep", "ok", "failed"}

\* Steps of sendOfflineBatch around its call.
Around == {"shortened", "limited", "restore", "restored"}

TypeOK ==
    /\ pc \in [Caller -> {"idle"} \cup InCall \cup Around]
    /\ attempt \in [Caller -> 0..MaxRetries]
    /\ body \in [Caller -> {"whole", "consumed"}]
    /\ verdict \in [Caller -> Verdict]
    /\ limit \in [Caller -> Timeout]
    /\ maxRetries \in 1..MaxRetries
    /\ timeout \in Timeout
    /\ saved \in [maxRetries : 1..MaxRetries, timeout : Timeout]
    /\ copies \in [Caller -> Nat]
    /\ missed \in [Caller -> Nat]
    /\ disturbed \in [Caller -> BOOLEAN]

Init ==
    /\ pc = [c \in Caller |-> "idle"]
    /\ attempt = [c \in Caller |-> 0]
    /\ body = [c \in Caller |-> "whole"]
    /\ verdict = [c \in Caller |-> "none"]
    /\ limit = [c \in Caller |-> "configured"]
    /\ maxRetries = MaxRetries
    /\ timeout = "configured"
    /\ saved = [maxRetries |-> MaxRetries, timeout |-> "configured"]
    /\ copies = [c \in Caller |-> 0]
    /\ missed = [c \in Caller |-> 0]
    /\ disturbed = [c \in Caller |-> FALSE]
-----------------------------------------------------------------------------
Goto(c, l) == pc' = [pc EXCEPT ![c] = l]

\* A call begins: the data is marshalled and the request built once, before
\* the loop, or the call fails with nothing sent.  Its history starts anew.
Begin(c) ==
    /\ \/ Goto(c, "test") /\ verdict' = [verdict EXCEPT ![c] = "none"]
       \/ Goto(c, "failed") /\ verdict' = [verdict EXCEPT ![c] = "refused"]
    /\ attempt' = [attempt EXCEPT ![c] = 0]
    /\ body' = [body EXCEPT ![c] = "whole"]
    /\ copies' = [copies EXCEPT ![c] = 0]
    /\ missed' = [missed EXCEPT ![c] = 0]
    /\ disturbed' = [disturbed EXCEPT ![c] = pc["ret"] # "idle"]
    /\ UNCHANGED <<limit, settings>>

\* Publish, the queue processor, a heartbeat.
Call(c) ==
    /\ c # "ret"
    /\ pc[c] = "idle"
    /\ Begin(c)

\* attempt <= c.config.MaxRetries, the test of the for statement.
Test(c) ==
    /\ pc[c] = "test"
    /\ Goto(c, IF attempt[c] <= maxRetries THEN "do" ELSE "failed")
    /\ UNCHANGED <<calls, settings, disturbed>>

\* httpClient.Do starts and fixes its deadline.
Do(c) ==
    /\ pc[c] = "do"
    /\ Goto(c, "flight")
    /\ limit' = [limit EXCEPT ![c] = timeout]
    /\ verdict' = [verdict EXCEPT ![c] = "none"]
    /\ UNCHANGED <<attempt, body, copies, missed, settings, disturbed>>

\* The server reads the request and answers.
Answer(c) ==
    /\ pc[c] = "flight"
    /\ Goto(c, "answer")
    /\ body' = [body EXCEPT ![c] = "consumed"]
    /\ \E v \in Verdict \ {"none"} :
          /\ verdict' = [verdict EXCEPT ![c] = v]
          /\ copies' = [copies EXCEPT ![c] = IF v = "taken" THEN @ + 1 ELSE @]
    /\ UNCHANGED <<attempt, limit, missed, settings, disturbed>>

\* Do fails before the server has the whole request: no connection, the
\* timeout, or a body an earlier attempt has consumed.
Unsent(c) ==
    /\ pc[c] = "flight"
    /\ Goto(c, "error")
    /\ body' \in {body, [body EXCEPT ![c] = "consumed"]}
    /\ UNCHANGED <<attempt, verdict, limit, copies, missed, settings, disturbed>>

\* Do fails after the server answered: the connection breaks, or the timeout.
AnswerLost(c) ==
    /\ pc[c] = "answer"
    /\ Goto(c, "error")
    /\ verdict' = [verdict EXCEPT ![c] = "none"]
    /\ missed' = [missed EXCEPT ![c] =
                     IF verdict[c] = "taken" THEN @ + 1 ELSE @]
    /\ UNCHANGED <<attempt, body, limit, copies, settings, disturbed>>

\* Sleep and go on if an attempt is left, by the limit of this moment.
Again(c) == Goto(c, IF attempt[c] < maxRetries THEN "sleep" ELSE "failed")

\* Mutant: a network error is not retried.
FailedForGood(c) ==
    /\ pc[c] = "error"
    /\ Goto(c, "failed")
    /\ UNCHANGED <<calls, settings, disturbed>>

\* The err != nil branch of the loop.
Failed(c) ==
    /\ pc[c] = "error"
    /\ Again(c)
    /\ UNCHANGED <<calls, settings, disturbed>>

\* Mutant: an answer that does not decode is retried, a 2xx one as well.
ReadRetriesAll(c) ==
    /\ pc[c] = "answer"
    /\ \/ verdict[c] = "taken" /\ (Goto(c, "ok") \/ Again(c))
       \/ verdict[c] = "transient" /\ Again(c)
       \/ verdict[c] = "refused" /\ Goto(c, "failed")
    /\ UNCHANGED <<calls, settings, disturbed>>

\* Mutant: any answer counts as success, as http.Client's nil error suggests.
ReadAnyAnswer(c) ==
    /\ pc[c] = "answer"
    /\ Goto(c, "ok")
    /\ UNCHANGED <<calls, settings, disturbed>>

\* The answer is read: 2xx succeeds, 5xx and 429 may be retried, the rest not.
Read(c) ==
    /\ pc[c] = "answer"
    /\ \/ verdict[c] = "taken" /\ Goto(c, "ok")
       \/ verdict[c] = "transient" /\ Again(c)
       \/ verdict[c] = "refused" /\ Goto(c, "failed")
    /\ UNCHANGED <<calls, settings, disturbed>>

\* Mutant: the loop variable is not advanced.
WakeSame(c) ==
    /\ pc[c] = "sleep"
    /\ Goto(c, "test")
    /\ UNCHANGED <<calls, settings, disturbed>>

\* The sleep is over, attempt++.
Wake(c) ==
    /\ pc[c] = "sleep"
    /\ Goto(c, "test")
    /\ attempt' = [attempt EXCEPT ![c] = @ + 1]
    /\ UNCHANGED <<body, verdict, limit, copies, missed, settings, disturbed>>

Return(c) ==
    /\ pc[c] \in {"ok", "failed"}
    /\ Goto(c, IF c = "ret" THEN "restore" ELSE "idle")
    /\ UNCHANGED <<calls, settings, disturbed>>
-----------------------------------------------------------------------------
(***************************************************************************)
(* sendOfflineBatch: two assignments, the call, and the two deferred       *)
(* assignments in the opposite order.                                      *)
(***************************************************************************)
Shorten ==
    /\ pc["ret"] = "idle"
    /\ Goto("ret", "shortened")
    /\ saved' = [saved EXCEPT !.timeout = timeout]
    /\ timeout' = "short"
    /\ disturbed' = [c \in Caller |-> disturbed[c] \/ pc[c] # "idle"]
    /\ UNCHANGED <<calls, maxRetries>>

\* Mutant: the original value is read after it was overwritten.
LimitRetriesFirst ==
    /\ pc["ret"] = "shortened"
    /\ Goto("ret", "limited")
    /\ saved' = [saved EXCEPT !.maxRetries = 1]
    /\ maxRetries' = 1
    /\ UNCHANGED <<calls, timeout, disturbed>>

\* MaxRetries = 1, whoever is in the middle of a call.
LimitRetries ==
    /\ pc["ret"] = "shortened"
    /\ Goto("ret", "limited")
    /\ saved' = [saved EXCEPT !.maxRetries = maxRetries]
    /\ maxRetries' = 1
    /\ UNCHANGED <<calls, timeout, disturbed>>

Replay ==
    /\ pc["ret"] = "limited"
    /\ Begin("ret")

RestoreRetries ==
    /\ pc["ret"] = "restore"
    /\ Goto("ret", "restored")
    /\ maxRetries' = saved.maxRetries
    /\ UNCHANGED <<calls, timeout, saved, disturbed>>

RestoreTimeout ==
    /\ pc["ret"] = "restored"
    /\ Goto("ret", "idle")
    /\ timeout' = saved.timeout
    /\ UNCHANGED <<calls, maxRetries, saved, disturbed>>
-----------------------------------------------------------------------------
CallStep(c) ==
    \/ Test(c) \/ Do(c) \/ Answer(c) \/ Unsent(c) \/ AnswerLost(c)
    \/ Failed(c) \/ Read(c) \/ Wake(c) \/ Return(c)

ReplayStep == LimitRetries \/ Replay \/ RestoreRetries \/ RestoreTimeout

Next ==
    \/ \E c \in Caller : Call(c) \/ CallStep(c)
    \/ Shorten \/ ReplayStep

Spec == Init /\ [][Next]_vars

\* Every goroutine in a call goes on: Do ends by its timeout at the latest.
Fairness == (\A c \in Caller : WF_vars(CallStep(c))) /\ WF_vars(ReplayStep)

LiveSpec == Spec /\ Fairness
-----------------------------------------------------------------------------
\* The overwritten settings are the configured ones again once the replay has
\* returned, however its call ended.
ConfigRestored ==
    pc["ret"] = "idle" => maxRetries = MaxRetries /\ timeout = "configured"

\* README.md:44 "Retries transient failures (5xx and 429) up to `max_retries`
\* times", README.md:818 "A 4xx is returned immediately", README.md:142 "HTTP
\* request timeout", where they hold: a call during which no replay ran at any
\* time gives up on anything but a refusal only after all its attempts, each
\* with the configured timeout; a replay makes two, each with the short one.
FullEffort ==
    \A c \in Caller :
        /\ pc[c] = "failed" /\ verdict[c] # "refused" =>
              IF c = "ret" THEN attempt[c] = 1
              ELSE disturbed[c] \/ attempt[c] = MaxRetries
        /\ pc[c] \in {"flight", "answer", "error"} =>
              IF c = "ret" THEN limit[c] = "short"
              ELSE disturbed[c] \/ limit[c] = "configured"

\* The server takes the payload of one call a second time only if the answer
\* to the first never came back.
DuplicatesExplained == \A c \in Caller : copies[c] <= missed[c] + 1

\* The refinement mapping to Calls.
CallOf(c) ==
    IF pc[c] \in {"idle"} \cup Around THEN "idle"
    ELSE IF pc[c] \in {"ok", "failed"} THEN pc[c]
    ELSE IF pc[c] = "answer" /\ verdict[c] = "taken" THEN "accepted"
    ELSE IF body[c] = "whole" THEN "unread" ELSE "read"

CallsNow == [c \in Caller |-> CallOf(c)]

Promise == INSTANCE Calls WITH call <- CallsNow

\* The loop, with its attempts, lost answers and overwritten settings,
\* implements the calls Delivery is built on.
ImplementsCalls == Promise!CallsSpec

\* Every call returns: the attempts are bounded, and overwriting the bound
\* while a call sleeps between two of them does not change that.
CallsReturn == \A c \in Caller : pc[c] # "idle" ~> pc[c] = "idle"
=============================================================================
