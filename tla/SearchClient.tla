---------------------------- MODULE SearchClient ----------------------------
(***************************************************************************)
(* The request loop of YouSearchClient (src/client/you-client.ts): up to   *)
(* MaxRetries + 1 attempts, each behind a token of the RateLimiter, with   *)
(* backoff on 429 and a timeout on every attempt.  One caller is one call  *)
(* of request(); the server's answers are free.                            *)
(***************************************************************************)
EXTENDS RateLimiter

CONSTANT MaxRetries

ASSUME RetriesAssumption == MaxRetries \in Nat

VARIABLES
  stage,      \* caller -> where its loop is
  attempt,    \* caller -> attempts begun before this one
  status      \* caller -> why its last attempt failed

requestVars == << stage, attempt, status >>

clientVars == << limiterVars, stage, attempt, status >>

\* What an attempt that did not succeed ended with: a network error, an
\* abort or an unreadable body ("network"), or the HTTP status.
Failure == {"network", "429", "5xx", "4xx"}

ClientTypeOK ==
  /\ TypeOK
  /\ stage \in [Callers -> {"idle", "acquiring", "fetching", "body", "errorBody",
                            "retrying", "done", "failed"}]
  /\ attempt \in [Callers -> 0 .. MaxRetries]
  /\ status \in [Callers -> Failure \cup {"none", "disposed"}]

Go(c, where) == stage' = [stage EXCEPT ![c] = where]

\* The attempt of c is over as far as the limiter is concerned.
Leaves(c) == waiting' = [waiting EXCEPT ![c] = "out"]

LimiterAtRest == UNCHANGED << tokens, queue, sleepLeft, refillLeft, disposed >>

NoBackoffChange == UNCHANGED << backoffs, backoffLeft >>

-----------------------------------------------------------------------------

\* Mutant: the last attempt is never made.
MayRetryOnceLess(c) == attempt[c] + 1 < MaxRetries

MayRetry(c) == attempt[c] < MaxRetries

Retryable(why) == why # "4xx"

\* The attempt failed: sleep and try again, or throw.
FailAttempt(c, why) ==
  /\ status' = [status EXCEPT ![c] = why]
  /\ Go(c, IF Retryable(why) /\ MayRetry(c) THEN "retrying" ELSE "failed")

StartRequest(c) ==
  /\ stage[c] = "idle"
  /\ Acquire(c)
  /\ Go(c, "acquiring")
  /\ UNCHANGED << attempt, status >>

\* acquire() resolves: the fetch is sent.
Fetch(c) ==
  /\ stage[c] = "acquiring"
  /\ waiting[c] = "granted"
  /\ Go(c, "fetching")
  /\ UNCHANGED << attempt, status >>
  /\ UNCHANGED limiterVars

\* acquire() rejects (disposed), outside the try: the call throws.
AcquireRejects(c) ==
  /\ stage[c] = "acquiring"
  /\ waiting[c] = "rejected"
  /\ status' = [status EXCEPT ![c] = "disposed"]
  /\ Go(c, "failed")
  /\ UNCHANGED attempt
  /\ UNCHANGED limiterVars

\* A success: the backoff is reset before the body is read.
RespondOk(c) ==
  /\ stage[c] = "fetching"
  /\ Go(c, "body")
  /\ Leaves(c)
  /\ backoffs' = 0
  /\ UNCHANGED << backoffLeft, attempt, status >>
  /\ LimiterAtRest

BodyParsed(c) ==
  /\ stage[c] = "body"
  /\ Go(c, "done")
  /\ UNCHANGED << attempt, status >>
  /\ UNCHANGED limiterVars

\* The body of a success is cut off, times out or is not JSON: caught like a
\* network error.
BodyFails(c) ==
  /\ stage[c] = "body"
  /\ FailAttempt(c, "network")
  /\ UNCHANGED attempt
  /\ UNCHANGED limiterVars

RespondError(c, why) ==
  /\ stage[c] = "fetching"
  /\ Go(c, "errorBody")
  /\ status' = [status EXCEPT ![c] = why]
  /\ UNCHANGED attempt
  /\ UNCHANGED limiterVars

\* The error's body was awaited; only now does a 429 open a backoff window.
ErrorBodyRead(c) ==
  /\ stage[c] = "errorBody"
  /\ FailAttempt(c, status[c])
  /\ IF status[c] = "429" THEN Backoff ELSE NoBackoffChange
  /\ Leaves(c)
  /\ UNCHANGED attempt
  /\ LimiterAtRest

\* The fetch rejects or is aborted after timeoutMs.
FetchFails(c) ==
  /\ stage[c] = "fetching"
  /\ FailAttempt(c, "network")
  /\ Leaves(c)
  /\ NoBackoffChange
  /\ UNCHANGED attempt
  /\ LimiterAtRest

\* Mutant: the next attempt is sent without a token.
RetryAtOnce(c) ==
  /\ stage[c] = "retrying"
  /\ attempt' = [attempt EXCEPT ![c] = @ + 1]
  /\ Go(c, "fetching")
  /\ UNCHANGED status
  /\ UNCHANGED limiterVars

\* Mutant: the attempts are not counted.
RetryUncounted(c) ==
  /\ stage[c] = "retrying"
  /\ Acquire(c)
  /\ Go(c, "acquiring")
  /\ UNCHANGED << attempt, status >>

\* The retry delay is over: next attempt, behind a new token.
Retry(c) ==
  /\ stage[c] = "retrying"
  /\ attempt' = [attempt EXCEPT ![c] = @ + 1]
  /\ Acquire(c)
  /\ Go(c, "acquiring")
  /\ UNCHANGED status

LimiterStep ==
  /\ \/ \E c \in Callers : Wake(c)
     \/ Refill
     \/ Dispose
     \/ Tick
  /\ UNCHANGED requestVars

ClientInit ==
  /\ Init
  /\ stage = [c \in Callers |-> "idle"]
  /\ attempt = [c \in Callers |-> 0]
  /\ status = [c \in Callers |-> "none"]

RequestStep(c) ==
  \/ Fetch(c)
  \/ AcquireRejects(c)
  \/ RespondOk(c)
  \/ BodyParsed(c)
  \/ BodyFails(c)
  \/ \E why \in {"429", "5xx", "4xx"} : RespondError(c, why)
  \/ ErrorBodyRead(c)
  \/ FetchFails(c)
  \/ Retry(c)

ClientNext ==
  \/ \E c \in Callers : StartRequest(c) \/ RequestStep(c)
  \/ LimiterStep

ClientSpec == ClientInit /\ [][ClientNext]_clientVars

-----------------------------------------------------------------------------
(* Properties *)

\* A call that gives up has used every attempt it has, unless the server
\* refused it for good or the client was disposed under it.
GivesUpOnlyAtTheEnd ==
  \A c \in Callers :
    stage[c] = "failed" /\ status[c] \notin {"4xx", "disposed"}
      => attempt[c] = MaxRetries

\* And one that was refused for good is not repeated.
RefusalIsFinal ==
  [][ \A c \in Callers : stage[c] # "idle" /\ status[c] = "4xx"
        => attempt'[c] = attempt[c] ]_clientVars

\* Every fetch has a token of its own: the loop, seen from the limiter, is one
\* of the clients its specification allows (no attempt passes the limiter by,
\* and no backoff but for a 429 that was answered).
UsesLimiterAsSpecified == Spec
=============================================================================
