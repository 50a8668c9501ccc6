------------------------- MODULE SearchClientProofs -------------------------
(***************************************************************************)
(* The rate limiter is fair and exact, the request loop of SearchClient     *)
(* uses it as its specification allows, and no minute sees more requests   *)
(* than a full bucket and its refills: for any callers, bucket, interval,  *)
(* delays and retries that the modules' assumptions admit.                 *)
(***************************************************************************)
EXTENDS SearchWindow, SequenceTheorems, FoldTheorems

-----------------------------------------------------------------------------
(* RateLimiter: its invariant *)

\* Together the three invariants are inductive: NoIdleToken needs the queue's
\* promises to be open, and a drain keeps the queue exact only because nobody
\* is in it twice.
IInv == TypeOK /\ QueueHoldsTheWaiting /\ NoIdleToken

-----------------------------------------------------------------------------
(* The three ways the queue and the tokens change *)

\* Taking a token or joining the queue, for a caller that is not in it.
LEMMA TakingKeepsInv ==
  ASSUME IInv, NEW c \in Callers, waiting[c] \in {"out", "sleeping"}, TakeOrQueue(c),
         UNCHANGED << backoffLeft, backoffs, refillLeft, disposed >>,
         sleepLeft' \in [Callers -> Nat]
  PROVE  IInv'
<1> USE DEF IInv
<1>0. \A i \in 1 .. Len(queue) : queue[i] # c
  BY DEF QueueHoldsTheWaiting
<1>1. CASE tokens > 0
  <2>1. /\ tokens' = tokens - 1
        /\ waiting' = [waiting EXCEPT ![c] = "granted"]
        /\ queue' = queue
        /\ queue = << >>
    BY <1>1 DEF TakeOrQueue, NoIdleToken
  <2>2. TypeOK'
    BY <1>1, <2>1, LimiterAssumption DEF TypeOK, Stage
  <2>3. QueueHoldsTheWaiting'
    BY <1>0, <2>1 DEF QueueHoldsTheWaiting, TypeOK
  <2>4. NoIdleToken'
    BY <2>1 DEF NoIdleToken
  <2> QED
    BY <2>2, <2>3, <2>4
<1>2. CASE ~ (tokens > 0)
  <2>1. /\ tokens' = tokens
        /\ waiting' = [waiting EXCEPT ![c] = "queued"]
        /\ queue' = Append(queue, c)
    BY <1>2 DEF TakeOrQueue
  <2>2. TypeOK'
    BY <2>1 DEF TypeOK, Stage
  <2>3. /\ Len(queue') = Len(queue) + 1
        /\ queue'[Len(queue) + 1] = c
        /\ \A i \in 1 .. Len(queue) : queue'[i] = queue[i]
    BY <2>1 DEF TypeOK
  <2>4. QueueHoldsTheWaiting'
    <3>1. ASSUME NEW d \in Callers
          PROVE  waiting'[d] = "queued" <=> \E i \in 1 .. Len(queue') : queue'[i] = d
      BY <1>0, <2>1, <2>3 DEF QueueHoldsTheWaiting, TypeOK
    <3>2. ASSUME NEW i \in 1 .. Len(queue'), NEW j \in 1 .. Len(queue'), queue'[i] = queue'[j]
          PROVE  i = j
      <4>1. Len(queue) \in Nat
        BY DEF TypeOK
      <4>2. CASE i = Len(queue) + 1 \/ j = Len(queue) + 1
        BY <1>0, <2>3, <3>2, <4>1, <4>2
      <4>3. CASE i \in 1 .. Len(queue) /\ j \in 1 .. Len(queue)
        BY <2>3, <3>2, <4>3 DEF QueueHoldsTheWaiting
      <4> QED
        BY <2>3, <4>1, <4>2, <4>3
    <3> QED
      BY <3>1, <3>2 DEF QueueHoldsTheWaiting
  <2>5. NoIdleToken'
    BY <1>2, <2>1 DEF NoIdleToken
  <2> QED
    BY <2>2, <2>4, <2>5
<1> QED
  BY <1>1, <1>2

\* Handing out the tokens that are available to the front of the queue.
LEMMA DrainingKeepsInv ==
  ASSUME IInv, NEW available \in 0 .. MaxTokens, Drain(available),
         UNCHANGED << sleepLeft, backoffLeft, backoffs, disposed >>,
         refillLeft' \in 0 .. Interval
  PROVE  IInv'
<1> USE DEF IInv
<1> DEFINE served == IF available < Len(queue) THEN available ELSE Len(queue)
<1>1. /\ tokens' = available - served
      /\ queue' = SubSeq(queue, served + 1, Len(queue))
      /\ waiting' = [c \in Callers |->
                       IF \E i \in 1 .. served : queue[i] = c
                         THEN "granted" ELSE waiting[c]]
  BY DEF Drain
<1>2. /\ Len(queue) \in Nat
      /\ served \in Nat /\ served <= Len(queue) /\ served <= available
      /\ available # served => served = Len(queue)
  BY LimiterAssumption DEF TypeOK
<1> HIDE DEF served
<1>3. /\ queue' \in Seq(Callers)
      /\ Len(queue') = Len(queue) - served
      /\ \A i \in 1 .. Len(queue') : queue'[i] = queue[served + i]
  BY <1>1, <1>2, SubSeqProperties DEF TypeOK
<1>4. TypeOK'
  BY <1>1, <1>2, <1>3, LimiterAssumption DEF TypeOK, Stage
<1>5. QueueHoldsTheWaiting'
  <2>1. ASSUME NEW i \in 1 .. Len(queue'), NEW j \in 1 .. Len(queue'), queue'[i] = queue'[j]
        PROVE  i = j
    <3>1. /\ served + i \in 1 .. Len(queue) /\ served + j \in 1 .. Len(queue)
          /\ queue[served + i] = queue[served + j]
      BY ONLY <1>2, <1>3, <2>1, i \in 1 .. Len(queue'), j \in 1 .. Len(queue')
    <3>2. served + i = served + j
      BY ONLY <3>1, QueueHoldsTheWaiting DEF QueueHoldsTheWaiting
    <3> QED
      BY ONLY <1>2, <1>3, <3>2, i \in 1 .. Len(queue'), j \in 1 .. Len(queue')
  <2>2. ASSUME NEW d \in Callers, waiting'[d] = "queued"
        PROVE  \E i \in 1 .. Len(queue') : queue'[i] = d
    <3>1. PICK k \in 1 .. Len(queue) : queue[k] = d
      BY <1>1, <2>2 DEF QueueHoldsTheWaiting
    <3>2. k > served
      BY <1>1, <1>2, <2>2, <3>1 DEF TypeOK
    <3>3. k - served \in 1 .. Len(queue') /\ queue'[k - served] = queue[k]
      BY ONLY <1>2, <1>3, <3>2, k \in 1 .. Len(queue)
    <3> QED
      BY <3>1, <3>3
  <2>3. ASSUME NEW d \in Callers, NEW i \in 1 .. Len(queue'), queue'[i] = d
        PROVE  waiting'[d] = "queued"
    <3>1. served + i \in 1 .. Len(queue) /\ queue[served + i] = d
      BY ONLY <1>2, <1>3, <2>3, i \in 1 .. Len(queue')
    <3>2. \A j \in 1 .. served : queue[j] # d
      BY <1>2, <3>1 DEF QueueHoldsTheWaiting, TypeOK
    <3> QED
      BY <1>1, <3>1, <3>2 DEF QueueHoldsTheWaiting
  <2> QED
    BY <2>1, <2>2, <2>3 DEF QueueHoldsTheWaiting
<1>6. NoIdleToken'
  BY <1>1, <1>2, <1>3, LimiterAssumption DEF NoIdleToken, TypeOK
<1> QED
  BY <1>4, <1>5, <1>6

-----------------------------------------------------------------------------

LEMMA RefilledFits == tokens \in 0 .. MaxTokens => Refilled(tokens) \in 0 .. MaxTokens
BY LimiterAssumption DEF Refilled

\* The invariant is inductive.
LEMMA InitIInv == Init => IInv
<1> SUFFICES ASSUME Init PROVE IInv
  OBVIOUS
<1>1. TypeOK
  <2>1. /\ MaxTokens \in 0 .. MaxTokens
        /\ Interval \in 0 .. Interval
        /\ 0 \in 0 .. Len(Delays)
        /\ 0 \in Nat
    BY LimiterAssumption
  <2>2. << >> \in Seq(Callers)
    OBVIOUS
  <2>3. /\ waiting \in [Callers -> Stage]
        /\ sleepLeft \in [Callers -> Nat]
    BY DEF Init, Stage
  <2> QED
    BY <2>1, <2>2, <2>3 DEF Init, TypeOK
<1>2. QueueHoldsTheWaiting /\ NoIdleToken
  BY DEF Init, QueueHoldsTheWaiting, NoIdleToken
<1> QED
  BY <1>1, <1>2 DEF IInv

LEMMA NextIInv == IInv /\ [Next]_limiterVars => IInv'
<1> SUFFICES ASSUME IInv, [Next]_limiterVars PROVE IInv'
  OBVIOUS
<1> USE DEF IInv
<1>1. ASSUME NEW c \in Callers, Acquire(c) PROVE IInv'
  <2>1. CASE backoffLeft > 0
    <3>1. TypeOK'
      BY <1>1, <2>1 DEF Acquire, TypeOK, Stage
    <3>2. QueueHoldsTheWaiting' /\ NoIdleToken'
      BY <1>1, <2>1 DEF Acquire, QueueHoldsTheWaiting, NoIdleToken, TypeOK
    <3> QED
      BY <3>1, <3>2
  <2>2. CASE ~ (backoffLeft > 0)
    BY <1>1, <2>2, TakingKeepsInv DEF Acquire, TypeOK
  <2> QED
    BY <2>1, <2>2
<1>2. ASSUME NEW c \in Callers, Wake(c) PROVE IInv'
  BY <1>2, TakingKeepsInv DEF Wake, TypeOK
<1>3. ASSUME NEW c \in Callers, RequestEnds(c) PROVE IInv'
  <2>1. TypeOK'
    <3>1. /\ backoffs' \in 0 .. Len(Delays)
          /\ backoffLeft' \in Nat
      BY <1>3, LimiterAssumption DEF RequestEnds, Backoff, TypeOK
    <3> QED
      BY <1>3, <3>1 DEF RequestEnds, TypeOK, Stage
  <2>2. QueueHoldsTheWaiting' /\ NoIdleToken'
    BY <1>3 DEF RequestEnds, QueueHoldsTheWaiting, NoIdleToken, TypeOK
  <2> QED
    BY <2>1, <2>2
<1>4. CASE Refill
  BY <1>4, DrainingKeepsInv, RefilledFits, LimiterAssumption DEF Refill, TypeOK
<1>5. CASE Dispose
  <2>1. TypeOK'
    BY <1>5 DEF Dispose, RejectQueue, TypeOK, Stage
  <2>2. QueueHoldsTheWaiting' /\ NoIdleToken'
    BY <1>5 DEF Dispose, RejectQueue, QueueHoldsTheWaiting, NoIdleToken, TypeOK
  <2> QED
    BY <2>1, <2>2
<1>6. CASE Tick
  <2>1. TypeOK'
    BY <1>6, LimiterAssumption DEF Tick, Down, TypeOK
  <2>2. QueueHoldsTheWaiting' /\ NoIdleToken'
    BY <1>6 DEF Tick, QueueHoldsTheWaiting, NoIdleToken
  <2> QED
    BY <2>1, <2>2
<1>7. CASE UNCHANGED limiterVars
  BY <1>7 DEF limiterVars, TypeOK, QueueHoldsTheWaiting, NoIdleToken
<1> QED
  BY <1>1, <1>2, <1>3, <1>4, <1>5, <1>6, <1>7 DEF Next

LEMMA Invariance == Spec => []IInv
BY InitIInv, NextIInv, PTL DEF Spec

-----------------------------------------------------------------------------
(* RateLimiter: the theorems *)

\* Whatever the callers, the server and the timers do, the bucket stays within
\* its size and every acquire() is at one of its stages.
THEOREM LimiterTypeCorrect == Spec => []TypeOK
BY Invariance, PTL DEF IInv

\* acquire(), drain() and dispose() neither lose a queued promise nor settle
\* one twice.
THEOREM QueueIsExact == Spec => []QueueHoldsTheWaiting
BY Invariance, PTL DEF IInv

\* The check `tokens > 0` of acquire() never passes while somebody queues.
THEOREM TokensAreHandedOut == Spec => []NoIdleToken
BY Invariance, PTL DEF IInv

\* Tokens are granted first in, first out across acquire(), the wake-ups from
\* a backoff and drain().
THEOREM FirstInFirstOut == Spec => NoOvertaking
<1> DEFINE Fair(c, d) ==
      /\ waiting[c] # "granted" /\ waiting'[c] = "granted" => waiting'[d] = "granted"
      /\ waiting'[c] = "queued" /\ waiting'[d] = "queued" => d \in Ahead(c)'
<1>1. ASSUME IInv, Next, NEW c \in Callers, NEW d \in Ahead(c) PROVE Fair(c, d)
  <2> USE DEF IInv
  <2>1. PICK i \in 1 .. Len(queue) : queue[i] = d /\ \A j \in 1 .. i : queue[j] # c
    BY DEF Ahead
  <2>2. /\ d \in Callers
        /\ i \in Nat /\ i > 0
        /\ Len(queue) \in Nat /\ queue \in Seq(Callers)
        /\ tokens = 0
    BY <1>1, <2>1 DEF Ahead, NoIdleToken, TypeOK
  <2>3. ASSUME queue' = queue PROVE d \in Ahead(c)'
    BY <2>3 DEF Ahead
  <2>4. ASSUME NEW e \in Callers, Acquire(e) \/ Wake(e) PROVE Fair(c, d)
    <3>1. CASE queue' = queue /\ waiting' = [waiting EXCEPT ![e] = "sleeping"]
      BY <1>1, <2>3, <3>1 DEF TypeOK
    <3>2. CASE queue' = Append(queue, e) /\ waiting' = [waiting EXCEPT ![e] = "queued"]
      <4>1. i \in 1 .. Len(queue') /\ \A j \in 1 .. i : queue'[j] = queue[j]
        BY ONLY <2>1, <2>2, <3>2, e \in Callers, i \in 1 .. Len(queue)
      <4>2. d \in Ahead(c)'
        BY <2>1, <2>2, <4>1 DEF Ahead
      <4> QED
        BY <1>1, <3>2, <4>2 DEF TypeOK
    <3> QED
      BY <2>2, <2>4, <3>1, <3>2 DEF Acquire, Wake, TakeOrQueue
  <2>5. ASSUME NEW e \in Callers, RequestEnds(e) PROVE Fair(c, d)
    BY <1>1, <2>3, <2>5 DEF RequestEnds, TypeOK
  <2>6. CASE Refill
    <3> DEFINE available == Refilled(tokens)
               served == IF available < Len(queue) THEN available ELSE Len(queue)
    <3>1. /\ waiting' = [e \in Callers |->
                           IF \E l \in 1 .. served : queue[l] = e
                             THEN "granted" ELSE waiting[e]]
          /\ queue' = SubSeq(queue, served + 1, Len(queue))
      BY <2>6 DEF Refill, Drain
    <3>2. served \in Nat /\ served <= Len(queue)
      BY <1>1, <2>2, RefilledFits, LimiterAssumption DEF TypeOK
    <3> HIDE DEF served
    <3>3. /\ Len(queue') = Len(queue) - served
          /\ \A l \in 1 .. Len(queue') : queue'[l] = queue[served + l]
      BY <2>2, <3>1, <3>2, SubSeqProperties
    <3>4. CASE i <= served
      BY <2>1, <2>2, <3>1, <3>2, <3>4
    <3>5. CASE served < i
      <4>1. waiting[c] # "granted" => waiting'[c] # "granted"
        BY <1>1, <2>1, <2>2, <3>1, <3>2, <3>5 DEF TypeOK
      <4>2. /\ i - served \in 1 .. Len(queue')
            /\ queue'[i - served] = d
            /\ \A j \in 1 .. i - served : queue'[j] # c
        <5>1. i - served \in 1 .. Len(queue') /\ served + (i - served) = i
          BY ONLY <2>2, <3>2, <3>3, <3>5, i \in 1 .. Len(queue)
        <5>2. \A j \in 1 .. i - served : j \in 1 .. Len(queue') /\ served + j \in 1 .. i
          BY ONLY <2>2, <3>2, <3>3, <3>5, i \in 1 .. Len(queue)
        <5> QED
          BY <2>1, <3>3, <5>1, <5>2
      <4> QED
        BY <2>2, <4>1, <4>2 DEF Ahead
    <3> QED
      BY <2>2, <3>2, <3>4, <3>5
  <2>7. CASE Dispose
    BY <1>1, <2>7 DEF Dispose, RejectQueue
  <2>8. CASE Tick
    BY <2>3, <2>8 DEF Tick
  <2> QED
    BY <1>1, <2>4, <2>5, <2>6, <2>7, <2>8 DEF Next
<1>2. IInv /\ [Next]_limiterVars => [\A c \in Callers : \A d \in Ahead(c) : Fair(c, d)]_limiterVars
  BY <1>1
<1> QED
  BY <1>2, Invariance, PTL DEF Spec, NoOvertaking

-----------------------------------------------------------------------------
(* SearchClient: its invariant *)

\* A call with a fetch under way, or an error body to read, holds a token.
FetchesHoldTokens ==
  \A c \in Callers : stage[c] \in {"fetching", "errorBody"} => waiting[c] = "granted"

\* Only a call that is about to throw was refused for good.
RefusedCallsThrow ==
  \A c \in Callers : status[c] = "4xx" => stage[c] \in {"errorBody", "failed"}

\* A call that sleeps before a retry has one.
RetriesAreLeft ==
  \A c \in Callers : stage[c] = "retrying" => attempt[c] < MaxRetries

RequestTypeOK ==
  /\ stage \in [Callers -> {"idle", "acquiring", "fetching", "body", "errorBody",
                            "retrying", "done", "failed"}]
  /\ attempt \in [Callers -> 0 .. MaxRetries]
  /\ status \in [Callers -> Failure \cup {"none", "disposed"}]

\* What the loop of attempts keeps by itself, at You.com and at the proxy.
CallsInv ==
  /\ RequestTypeOK
  /\ RefusedCallsThrow
  /\ RetriesAreLeft
  /\ GivesUpOnlyAtTheEnd

\* The loop behind the limiter: it talks of it only through waiting.
LoopInv == CallsInv /\ FetchesHoldTokens

-----------------------------------------------------------------------------

\* The error path, for a call that is not yet refused, or is refused now.
LEMMA FailingKeepsCalls ==
  ASSUME CallsInv, NEW c \in Callers, NEW why \in Failure \cup {"none", "disposed"},
         FailAttempt(c, why), attempt' = attempt
  PROVE  CallsInv'
<1>1. /\ status' = [status EXCEPT ![c] = why]
      /\ stage' = [stage EXCEPT ![c] = IF Retryable(why) /\ MayRetry(c)
                                         THEN "retrying" ELSE "failed"]
  BY DEF FailAttempt, Go
<1>2. RequestTypeOK'
  BY <1>1 DEF CallsInv, RequestTypeOK
<1>3. RefusedCallsThrow'
  BY <1>1 DEF CallsInv, RequestTypeOK, RefusedCallsThrow, Retryable
<1>4. RetriesAreLeft' /\ GivesUpOnlyAtTheEnd'
  BY <1>1, RetriesAssumption
     DEF CallsInv, RequestTypeOK, RetriesAreLeft, GivesUpOnlyAtTheEnd, Retryable, MayRetry
<1> QED
  BY <1>2, <1>3, <1>4 DEF CallsInv

LEMMA FailingKeepsLoopInv ==
  ASSUME LoopInv, NEW c \in Callers, NEW why \in Failure \cup {"none", "disposed"},
         FailAttempt(c, why), attempt' = attempt,
         \A d \in Callers : d # c /\ waiting[d] = "granted" => waiting'[d] = "granted"
  PROVE  LoopInv'
<1>1. CallsInv'
  BY FailingKeepsCalls DEF LoopInv
<1>2. stage' = [stage EXCEPT ![c] = IF Retryable(why) /\ MayRetry(c)
                                      THEN "retrying" ELSE "failed"]
  BY DEF FailAttempt, Go
<1>3. FetchesHoldTokens'
  BY <1>2 DEF LoopInv, CallsInv, RequestTypeOK, FetchesHoldTokens
<1> QED
  BY <1>1, <1>3 DEF LoopInv

\* A step of one call that keeps its status and goes on.
LEMMA GoingOnKeepsCalls ==
  ASSUME CallsInv, NEW c \in Callers,
         NEW where \in {"acquiring", "fetching", "body", "done"},
         status[c] # "4xx", Go(c, where), status' = status,
         attempt' \in [Callers -> 0 .. MaxRetries],
         \A d \in Callers : d # c => attempt'[d] = attempt[d]
  PROVE  CallsInv'
<1>1. stage' = [stage EXCEPT ![c] = where]
  BY DEF Go
<1>2. RequestTypeOK' /\ RefusedCallsThrow'
  BY <1>1 DEF CallsInv, RequestTypeOK, RefusedCallsThrow
<1>3. RetriesAreLeft' /\ GivesUpOnlyAtTheEnd'
  BY <1>1 DEF CallsInv, RequestTypeOK, RetriesAreLeft, GivesUpOnlyAtTheEnd
<1> QED
  BY <1>2, <1>3 DEF CallsInv

LEMMA GoingOnKeepsLoopInv ==
  ASSUME LoopInv, NEW c \in Callers,
         NEW where \in {"acquiring", "fetching", "body", "done"},
         status[c] # "4xx", Go(c, where), status' = status,
         attempt' \in [Callers -> 0 .. MaxRetries],
         \A d \in Callers : d # c => attempt'[d] = attempt[d],
         \A d \in Callers : d # c /\ waiting[d] = "granted" => waiting'[d] = "granted",
         where = "fetching" => waiting'[c] = "granted"
  PROVE  LoopInv'
<1>1. CallsInv'
  BY GoingOnKeepsCalls DEF LoopInv
<1>2. FetchesHoldTokens'
  BY DEF Go, LoopInv, CallsInv, RequestTypeOK, FetchesHoldTokens
<1> QED
  BY <1>1, <1>2 DEF LoopInv

LEMMA InitLoopInv == ClientInit => LoopInv
BY RetriesAssumption
   DEF ClientInit, LoopInv, CallsInv, RequestTypeOK, FetchesHoldTokens, RefusedCallsThrow,
       RetriesAreLeft, GivesUpOnlyAtTheEnd, Failure

\* acquire() moves nobody but its caller.
LEMMA AcquireIsPrivate ==
  ASSUME TypeOK, NEW c \in Callers, Acquire(c)
  PROVE  \A d \in Callers : d # c => waiting'[d] = waiting[d]
BY DEF Acquire, TakeOrQueue, TypeOK

\* Timers, refills and dispose() take no token back.
LEMMA GrantsStay ==
  ASSUME TypeOK, (\E c \in Callers : Wake(c)) \/ Refill \/ Dispose \/ Tick
  PROVE  \A d \in Callers : waiting[d] = "granted" => waiting'[d] = "granted"
<1>1. ASSUME NEW c \in Callers, Wake(c)
      PROVE  \A d \in Callers : waiting[d] = "granted" => waiting'[d] = "granted"
  BY <1>1 DEF Wake, TakeOrQueue, TypeOK
<1>2. CASE Refill
  BY <1>2 DEF Refill, Drain
<1>3. CASE Dispose
  BY <1>3 DEF Dispose, RejectQueue
<1>4. CASE Tick
  BY <1>4 DEF Tick
<1> QED
  BY <1>1, <1>2, <1>3, <1>4

LEMMA NextLoopInv == IInv /\ LoopInv /\ [ClientNext]_clientVars => LoopInv'
<1> SUFFICES ASSUME IInv, LoopInv, [ClientNext]_clientVars PROVE LoopInv'
  OBVIOUS
<1>0. /\ TypeOK
      /\ waiting \in [Callers -> Stage]
      /\ attempt \in [Callers -> 0 .. MaxRetries]
      /\ \A c \in Callers : stage[c] \notin {"errorBody", "failed"} => status[c] # "4xx"
  BY DEF IInv, TypeOK, LoopInv, CallsInv, RequestTypeOK, RefusedCallsThrow
<1>1. ASSUME NEW c \in Callers, StartRequest(c) PROVE LoopInv'
  BY <1>0, <1>1, AcquireIsPrivate, GoingOnKeepsLoopInv DEF StartRequest
<1>2. ASSUME NEW c \in Callers, Fetch(c) PROVE LoopInv'
  BY <1>0, <1>2, GoingOnKeepsLoopInv DEF Fetch, limiterVars
<1>3. ASSUME NEW c \in Callers, AcquireRejects(c) PROVE LoopInv'
  BY <1>3 DEF AcquireRejects, Go, limiterVars, LoopInv, CallsInv, RequestTypeOK,
              FetchesHoldTokens, RefusedCallsThrow, RetriesAreLeft, GivesUpOnlyAtTheEnd
<1>4. ASSUME NEW c \in Callers, RespondOk(c) PROVE LoopInv'
  BY <1>0, <1>4, GoingOnKeepsLoopInv DEF RespondOk, Leaves
<1>5. ASSUME NEW c \in Callers, BodyParsed(c) PROVE LoopInv'
  BY <1>0, <1>5, GoingOnKeepsLoopInv DEF BodyParsed, limiterVars
<1>6. ASSUME NEW c \in Callers, BodyFails(c) PROVE LoopInv'
  BY <1>6, FailingKeepsLoopInv DEF BodyFails, limiterVars, Failure
<1>7. ASSUME NEW c \in Callers, NEW why \in {"429", "5xx", "4xx"}, RespondError(c, why)
      PROVE  LoopInv'
  BY <1>7 DEF RespondError, Go, limiterVars, LoopInv, CallsInv, RequestTypeOK, Failure,
              FetchesHoldTokens, RefusedCallsThrow, RetriesAreLeft, GivesUpOnlyAtTheEnd
<1>8. ASSUME NEW c \in Callers, ErrorBodyRead(c) PROVE LoopInv'
  BY <1>0, <1>8, FailingKeepsLoopInv DEF ErrorBodyRead, Leaves, LoopInv, CallsInv, RequestTypeOK
<1>9. ASSUME NEW c \in Callers, FetchFails(c) PROVE LoopInv'
  BY <1>0, <1>9, FailingKeepsLoopInv DEF FetchFails, Leaves, Failure
<1>10. ASSUME NEW c \in Callers, Retry(c) PROVE LoopInv'
  <2>1. /\ attempt' \in [Callers -> 0 .. MaxRetries]
        /\ \A d \in Callers : d # c => attempt'[d] = attempt[d]
    BY <1>0, <1>10, RetriesAssumption DEF Retry, LoopInv, CallsInv, RetriesAreLeft
  <2> QED
    BY <1>0, <1>10, <2>1, AcquireIsPrivate, GoingOnKeepsLoopInv DEF Retry
<1>11. CASE LimiterStep
  BY <1>0, <1>11, GrantsStay DEF LimiterStep, requestVars, LoopInv, CallsInv, RequestTypeOK,
                                 FetchesHoldTokens, RefusedCallsThrow, RetriesAreLeft, GivesUpOnlyAtTheEnd
<1>12. CASE UNCHANGED clientVars
  BY <1>12 DEF clientVars, limiterVars, LoopInv, CallsInv, RequestTypeOK,
               FetchesHoldTokens, RefusedCallsThrow, RetriesAreLeft, GivesUpOnlyAtTheEnd
<1> QED
  BY <1>1, <1>2, <1>3, <1>4, <1>5, <1>6, <1>7, <1>8, <1>9, <1>10, <1>11, <1>12
     DEF ClientNext, RequestStep

\* Every step of the loop is a step of the limiter's specification.
LEMMA NextIsLimiterStep == LoopInv /\ [ClientNext]_clientVars => [Next]_limiterVars
<1> SUFFICES ASSUME LoopInv, [ClientNext]_clientVars PROVE [Next]_limiterVars
  OBVIOUS
<1>1. ASSUME NEW c \in Callers,
             \/ StartRequest(c) \/ Retry(c)
             \/ Fetch(c) \/ AcquireRejects(c) \/ BodyParsed(c) \/ BodyFails(c)
             \/ \E why \in {"429", "5xx", "4xx"} : RespondError(c, why)
      PROVE  [Next]_limiterVars
  BY <1>1 DEF StartRequest, Retry, Fetch, AcquireRejects, BodyParsed, BodyFails,
              RespondError, Next
<1>2. ASSUME NEW c \in Callers, RespondOk(c) \/ ErrorBodyRead(c) \/ FetchFails(c)
      PROVE  RequestEnds(c)
  BY <1>2 DEF RespondOk, ErrorBodyRead, FetchFails, Leaves, LimiterAtRest, NoBackoffChange,
              RequestEnds, LoopInv, FetchesHoldTokens
<1>3. CASE LimiterStep
  BY <1>3 DEF LimiterStep, Next
<1>4. CASE UNCHANGED clientVars
  BY <1>4 DEF clientVars
<1> QED
  BY <1>1, <1>2, <1>3, <1>4 DEF ClientNext, RequestStep, Next

LEMMA ClientInvariance == ClientSpec => [](IInv /\ LoopInv)
<1>1. ClientInit => IInv /\ LoopInv
  BY InitIInv, InitLoopInv DEF ClientInit
<1>2. IInv /\ LoopInv /\ [ClientNext]_clientVars => (IInv /\ LoopInv)'
  BY NextIInv, NextLoopInv, NextIsLimiterStep
<1> QED
  BY <1>1, <1>2, PTL DEF ClientSpec

-----------------------------------------------------------------------------
(* SearchClient: the theorems *)

\* The loop of request() is a client the limiter's specification allows: no
\* attempt passes acquire() by and no backoff is raised without a 429, so every
\* theorem about RateLimiter holds of the client.
THEOREM ClientRefinesLimiter == ClientSpec => UsesLimiterAsSpecified
<1>1. ClientInit => Init
  BY DEF ClientInit
<1> QED
  BY <1>1, NextIsLimiterStep, ClientInvariance, PTL
     DEF ClientSpec, UsesLimiterAsSpecified, Spec

\* Attempts are counted within the retries, whatever the server answers.
THEOREM ClientTypeCorrect == ClientSpec => []ClientTypeOK
<1>1. IInv /\ LoopInv => ClientTypeOK
  BY DEF IInv, LoopInv, CallsInv, RequestTypeOK, ClientTypeOK
<1> QED
  BY <1>1, ClientInvariance, PTL

\* request() throws only after its last attempt, a refusal or dispose().
THEOREM NoEarlyThrow == ClientSpec => []GivesUpOnlyAtTheEnd
<1>1. IInv /\ LoopInv => GivesUpOnlyAtTheEnd
  BY DEF LoopInv, CallsInv
<1> QED
  BY <1>1, ClientInvariance, PTL

\* request() does not repeat what the server refused.
THEOREM RefusalsEndTheLoop == ClientSpec => RefusalIsFinal
<1> DEFINE Final == \A c \in Callers : stage[c] # "idle" /\ status[c] = "4xx"
                                         => attempt'[c] = attempt[c]
<1>1. ASSUME LoopInv, ClientNext PROVE Final
  <2>1. ASSUME NEW c \in Callers, Retry(c) PROVE Final
    BY <1>1, <2>1 DEF Retry, LoopInv, CallsInv, RequestTypeOK, RefusedCallsThrow
  <2>2. ASSUME NEW c \in Callers, StartRequest(c) \/ (RequestStep(c) /\ ~ Retry(c))
        PROVE  attempt' = attempt
    BY <2>2 DEF StartRequest, RequestStep, Fetch, AcquireRejects, RespondOk, BodyParsed,
                BodyFails, RespondError, ErrorBodyRead, FetchFails
  <2>3. CASE LimiterStep
    BY <2>3 DEF LimiterStep, requestVars
  <2> QED
    BY <1>1, <2>1, <2>2, <2>3 DEF ClientNext
<1>2. IInv /\ LoopInv /\ [ClientNext]_clientVars => [Final]_clientVars
  BY <1>1
<1> QED
  BY <1>2, ClientInvariance, PTL DEF ClientSpec, RefusalIsFinal

-----------------------------------------------------------------------------
(* RateWindow: its invariant *)

\* Of the last a + 1 ticks, the grants and the tokens at hand are at most a full
\* bucket and the k refills that had the time to happen: refillLeft tells how
\* long ago, at the least, the last one was.
WindowInv ==
  /\ issued \in [Ages -> Nat]
  /\ \A a \in Ages : \E k \in Nat :
       /\ k * Interval <= a + refillLeft
       /\ tokens + SumFunctionOnSet(issued, 0 .. a) <= MaxTokens + k

\* What a step grants is paid for with tokens.
GrantsCost(available) == Granted \in Nat /\ Granted + tokens' <= available

LEMMA GrantsNone ==
  ASSUME TypeOK, tokens' = tokens,
         \A c \in Callers : waiting'[c] = "granted" => waiting[c] = "granted"
  PROVE  GrantsCost(tokens) /\ Granted = 0
<1>1. { c \in Callers : waiting[c] # "granted" /\ waiting'[c] = "granted" } = {}
  OBVIOUS
<1>2. Granted = 0
  BY <1>1, FS_EmptySet DEF Granted
<1> QED
  BY <1>2 DEF GrantsCost, TypeOK

LEMMA TakingCosts ==
  ASSUME TypeOK, NEW c \in Callers, TakeOrQueue(c)
  PROVE  GrantsCost(tokens)
<1>1. CASE tokens > 0
  <2> DEFINE granted == { d \in Callers : waiting[d] # "granted" /\ waiting'[d] = "granted" }
  <2>1. granted \in SUBSET {c} /\ tokens' = tokens - 1
    BY <1>1 DEF TakeOrQueue, TypeOK
  <2>2. Granted = Cardinality(granted)
    BY DEF Granted
  <2> HIDE DEF granted
  <2>3. IsFiniteSet({c}) /\ Cardinality({c}) = 1
    BY FS_Singleton
  <2>4. Cardinality(granted) \in Nat /\ Cardinality(granted) <= 1
    BY <2>1, <2>3, FS_Subset, FS_CardinalityType
  <2> QED
    BY <1>1, <2>1, <2>2, <2>4 DEF GrantsCost, TypeOK
<1>2. CASE ~ (tokens > 0)
  BY <1>2, GrantsNone DEF TakeOrQueue, TypeOK
<1> QED
  BY <1>1, <1>2

LEMMA DrainingCosts ==
  ASSUME TypeOK, NEW available \in Nat, Drain(available)
  PROVE  GrantsCost(available)
<1> DEFINE served == IF available < Len(queue) THEN available ELSE Len(queue)
           granted == { c \in Callers : waiting[c] # "granted" /\ waiting'[c] = "granted" }
           dom == 1 .. served
           turn == [i \in dom |-> queue[i]]
           called == { queue[i] : i \in dom }
<1>1. /\ tokens' = available - served
      /\ waiting' = [c \in Callers |->
                       IF \E i \in 1 .. served : queue[i] = c THEN "granted" ELSE waiting[c]]
  BY DEF Drain
<1>2. served \in Nat /\ served <= available
  BY LenProperties DEF TypeOK
<1>3. granted \subseteq called
  BY <1>1
<1>4. IsFiniteSet(dom) /\ Cardinality(dom) = served
  <2> HIDE DEF served
  <2> QED
    BY <1>2, FS_Interval
<1>5. turn \in Surjection(dom, called)
  <2> HIDE DEF dom
  <2> QED
    BY DEF Surjection
<1>6. Granted = Cardinality(granted)
  BY DEF Granted
<1> HIDE DEF granted, dom, turn, called
<1>7. IsFiniteSet(called) /\ Cardinality(called) <= Cardinality(dom)
  BY <1>4, <1>5, FS_Surjection
<1>8. IsFiniteSet(granted) /\ Cardinality(granted) <= Cardinality(called)
  BY <1>3, <1>7, FS_Subset
<1>9. Cardinality(granted) \in Nat /\ Cardinality(called) \in Nat
  BY <1>7, <1>8, FS_CardinalityType
<1> HIDE DEF served
<1>10. Cardinality(granted) + tokens' <= available
  BY <1>1, <1>2, <1>4, <1>7, <1>8, <1>9
<1> QED
  BY <1>6, <1>9, <1>10 DEF GrantsCost

\* The grants of now are added to every window.
LEMMA CountingAdds ==
  ASSUME issued \in [Ages -> Nat], Granted \in Nat, Counted
  PROVE  /\ issued' \in [Ages -> Nat]
         /\ \A a \in Ages : /\ SumFunctionOnSet(issued, 0 .. a) \in Nat
                            /\ SumFunctionOnSet(issued', 0 .. a)
                                 = SumFunctionOnSet(issued, 0 .. a) + Granted
<1>1. IsFiniteSet(Ages) /\ 0 \in Ages /\ \A a \in Ages : 0 .. a \in SUBSET Ages /\ 0 \in 0 .. a
  BY WindowAssumption, FS_Interval DEF Ages
<1>2. PICK g \in Nat : g = Granted
  OBVIOUS
<1>3. PICK old, new : old = issued /\ new = issued'
  OBVIOUS
<1>4. /\ old \in [Ages -> Nat] /\ new \in [Ages -> Nat] /\ new[0] = old[0] + g
      /\ \A a \in Ages : a # 0 => new[a] = old[a]
  BY <1>1, <1>2, <1>3 DEF Counted
<1>5. ASSUME NEW s \in SUBSET Ages, 0 \in s
      PROVE  /\ SumFunctionOnSet(old, s) \in Nat
             /\ SumFunctionOnSet(new, s) = SumFunctionOnSet(old, s) + g
  <2> DEFINE rest == s \ {0}
  <2>1. rest \in SUBSET Ages /\ \A a \in rest : old[a] = new[a]
    BY <1>4
  <2>2. SumFunctionOnSet(old, rest) = SumFunctionOnSet(new, rest)
    BY <1>1, <1>4, <2>1, SumAgrees
  <2>3. /\ SumFunctionOnSet(old, s) = old[0] + SumFunctionOnSet(old, rest)
        /\ SumFunctionOnSet(new, s) = new[0] + SumFunctionOnSet(new, rest)
        /\ SumFunctionOnSet(old, s) \in Nat /\ SumFunctionOnSet(old, rest) \in Nat
    BY <1>1, <1>4, <1>5, <2>1, SumFacts DEF AddsUp
  <2>4. old[0] \in Nat
    BY <1>1, <1>4
  <2> HIDE DEF rest
  <2> QED
    BY <1>4, <2>2, <2>3, <2>4
<1> QED
  BY <1>1, <1>2, <1>3, <1>4, <1>5

LEMMA Balance ==
  ASSUME NEW before \in Nat, NEW after \in Nat, NEW granted \in Nat, NEW sum \in Nat,
         NEW bound \in Nat, NEW earned \in Nat,
         before + sum <= bound, granted + after <= before + earned
  PROVE  after + (sum + granted) <= bound + earned
OBVIOUS

\* A step that is paid for from the bucket, or from one refill.
LEMMA CountedKeepsWindow ==
  ASSUME TypeOK, TypeOK', WindowInv, Counted,
         \/ GrantsCost(tokens) /\ refillLeft' = refillLeft
         \/ GrantsCost(tokens + 1) /\ refillLeft = 0 /\ refillLeft' = Interval
  PROVE  WindowInv'
<1>1. /\ issued \in [Ages -> Nat] /\ Granted \in Nat
      /\ tokens \in Nat /\ tokens' \in Nat /\ refillLeft \in Nat
      /\ Interval \in Nat \ {0} /\ MaxTokens \in Nat
  BY LimiterAssumption DEF WindowInv, GrantsCost, TypeOK
<1>2. /\ issued' \in [Ages -> Nat]
      /\ \A a \in Ages : /\ SumFunctionOnSet(issued, 0 .. a) \in Nat
                         /\ SumFunctionOnSet(issued', 0 .. a)
                              = SumFunctionOnSet(issued, 0 .. a) + Granted
  BY <1>1, CountingAdds
<1>3. Ages \subseteq Nat
  BY WindowAssumption DEF Ages
<1>4. ASSUME NEW a \in Ages
      PROVE  \E k \in Nat : /\ k * Interval <= a + refillLeft'
                            /\ tokens' + SumFunctionOnSet(issued', 0 .. a) <= MaxTokens + k
  <2>1. PICK k \in Nat : /\ k * Interval <= a + refillLeft
                         /\ tokens + SumFunctionOnSet(issued, 0 .. a) <= MaxTokens + k
    BY DEF WindowInv
  <2>2. PICK sum \in Nat : sum = SumFunctionOnSet(issued, 0 .. a)
    BY <1>2
  <2>3. SumFunctionOnSet(issued', 0 .. a) = sum + Granted /\ a \in Nat
    BY <1>2, <1>3, <2>2
  <2>4. CASE GrantsCost(tokens) /\ refillLeft' = refillLeft
    <3>1. tokens' + (sum + Granted) <= MaxTokens + k
      <4>1. /\ tokens + sum <= MaxTokens + k /\ Granted + tokens' <= tokens
            /\ sum \in Nat /\ k \in Nat
        BY <2>1, <2>2, <2>4 DEF GrantsCost
      <4>2. PICK after \in Nat, bound \in Nat : after = tokens' /\ bound = MaxTokens + k
        BY <1>1
      <4>5. tokens + 0 = tokens
        BY <1>1
      <4>3. tokens + sum <= bound /\ Granted + after <= tokens + 0 /\ 0 \in Nat
        BY <4>1, <4>2, <4>5
      <4>4. after + (sum + Granted) <= bound + 0
        BY <1>1, <4>1, <4>3, Balance
      <4> QED
        BY <4>2, <4>4
    <3> QED
      BY <2>1, <2>3, <2>4, <3>1
  <2>5. CASE GrantsCost(tokens + 1) /\ refillLeft = 0 /\ refillLeft' = Interval
    <3>1. tokens' + (sum + Granted) <= MaxTokens + (k + 1)
      <4>1. /\ tokens + sum <= MaxTokens + k /\ Granted + tokens' <= tokens + 1
            /\ sum \in Nat /\ k \in Nat
        BY <2>1, <2>2, <2>5 DEF GrantsCost
      <4>2. PICK after \in Nat, bound \in Nat : after = tokens' /\ bound = MaxTokens + k
        BY <1>1
      <4>3. tokens + sum <= bound /\ Granted + after <= tokens + 1 /\ 1 \in Nat
        BY <4>1, <4>2
      <4>4. after + (sum + Granted) <= bound + 1
        BY <1>1, <4>1, <4>3, Balance
      <4>5. bound + 1 = MaxTokens + (k + 1)
        BY <1>1, <4>1, <4>2
      <4> QED
        BY <4>2, <4>4, <4>5
    <3>2. (k + 1) * Interval <= a + Interval
      <4>1. (k + 1) * Interval = k * Interval + Interval /\ k * Interval \in Nat
        BY <1>1
      <4> QED
        BY <1>1, <2>1, <2>3, <2>5, <4>1
    <3>3. k + 1 \in Nat
      OBVIOUS
    <3> QED
      BY <2>3, <2>5, <3>1, <3>2, <3>3
  <2> QED
    BY <2>4, <2>5
<1> QED
  BY <1>2, <1>4 DEF WindowInv

\* Time passes: every window is that of one tick less, and the next refill is at
\* most one tick nearer.
LEMMA OlderKeepsWindow ==
  ASSUME TypeOK, WindowInv, Tick, Older
  PROVE  WindowInv'
<1>1. /\ issued \in [Ages -> Nat] /\ tokens \in 0 .. MaxTokens /\ tokens' = tokens
      /\ refillLeft \in Nat /\ refillLeft' \in Nat /\ refillLeft <= refillLeft' + 1
      /\ MaxTokens \in Nat /\ Interval \in Nat
  BY LimiterAssumption DEF WindowInv, TypeOK, Tick, Down
<1>a. PICK left \in Nat : left = refillLeft'
  BY <1>1
<1>2. PICK m \in Nat : m = Minute - 1 /\ Ages = 0 .. m
  BY WindowAssumption DEF Ages
<1>3. /\ issued' \in [0 .. m -> Nat] /\ issued'[0] = 0
      /\ \A i \in 1 .. m : issued'[i] = issued[i - 1]
  BY <1>1, <1>2 DEF Older
<1>4. \A a \in 0 .. m : SumFunctionOnSet(issued', 0 .. a) = SumFunctionOnSet(issued, 0 .. a - 1)
  BY <1>1, <1>2, <1>3, SumMovedUp
<1>5. ASSUME NEW a \in Ages
      PROVE  \E k \in Nat : /\ k * Interval <= a + refillLeft'
                            /\ tokens' + SumFunctionOnSet(issued', 0 .. a) <= MaxTokens + k
  <2>1. CASE a = 0
    <3>1. 0 .. a - 1 = {}
      BY <2>1
    <3>2. SumFunctionOnSet(issued, {}) = 0
      <4>1. IsFiniteSet(Ages)
        BY <1>2, FS_Interval
      <4>2. AddsUp(Ages, issued)
        BY <1>1, <4>1, SumFacts
      <4> QED
        BY <4>2 DEF AddsUp
    <3>3. SumFunctionOnSet(issued', 0 .. a) = 0
      BY <1>2, <1>4, <3>1, <3>2
    <3>4. tokens' + 0 <= MaxTokens + 0 /\ 0 * Interval <= a + refillLeft'
      <4>1. 0 * Interval = 0
        BY <1>1
      <4>2. 0 <= a + refillLeft'
        <5>1. 0 <= a + left
          BY <2>1
        <5> QED
          BY <1>a, <5>1
      <4>3. tokens' \in Nat /\ tokens' <= MaxTokens
        BY <1>1
      <4> QED
        BY <1>1, <4>1, <4>2, <4>3
    <3> QED
      BY <3>3, <3>4
  <2>2. CASE a # 0
    <3>1. a - 1 \in Ages /\ a \in Nat /\ (a - 1) + 1 = a
      BY <1>2, <2>2
    <3>2. PICK k \in Nat : /\ k * Interval <= (a - 1) + refillLeft
                           /\ tokens + SumFunctionOnSet(issued, 0 .. a - 1) <= MaxTokens + k
      BY <3>1 DEF WindowInv
    <3>3. k * Interval \in Nat
      BY <1>1
    <3>4. k * Interval <= a + refillLeft'
      <4>1. PICK ticks \in Nat : ticks = k * Interval
        BY <3>3
      <4>2. ticks <= (a - 1) + refillLeft
        BY <3>2, <4>1
      <4>3. ticks \in Nat /\ a \in Nat
        BY <3>1
      <4>4. ticks <= a + refillLeft'
        <5>1. refillLeft <= left + 1 /\ refillLeft \in Nat
          BY <1>1, <1>a
        <5>2. ticks <= a + left
          BY <4>2, <4>3, <5>1
        <5> QED
          BY <1>a, <5>2
      <4> QED
        BY <4>1, <4>4
    <3> QED
      BY <1>1, <1>2, <1>4, <3>2, <3>4
  <2> QED
    BY <2>1, <2>2
<1> QED
  BY <1>2, <1>3, <1>5 DEF WindowInv

LEMMA InitWindow == WindowInit => WindowInv
<1> SUFFICES ASSUME WindowInit PROVE WindowInv
  OBVIOUS
<1>1. issued \in [Ages -> Nat] /\ \A a \in Ages : issued[a] = 0
  BY DEF WindowInit, NothingIssued
<1>2. /\ tokens = MaxTokens /\ MaxTokens \in Nat /\ refillLeft \in Nat
      /\ Interval \in Nat
  BY LimiterAssumption DEF WindowInit, Init
<1>3. ASSUME NEW a \in Ages
      PROVE  tokens + SumFunctionOnSet(issued, 0 .. a) <= MaxTokens + 0
  <2> DEFINE s == 0 .. a
             some == [b \in s |-> 0]
  <2>1. a \in Nat /\ s \in SUBSET Ages /\ IsFiniteSet(s) /\ IsFiniteSet(Ages)
    BY WindowAssumption, FS_Interval DEF Ages
  <2> HIDE DEF s
  <2>2. SumFunctionOnSet(issued, s) = 0
    BY <1>1, <2>1, SumOfZeros
  <2> QED
    BY <1>2, <2>2 DEF s
<1>4. \A a \in Ages : 0 * Interval <= a + refillLeft
  BY <1>2, WindowAssumption DEF Ages
<1> QED
  BY <1>1, <1>3, <1>4 DEF WindowInv

\* Only a tick looks like a tick: any other step of the limiter that leaves the
\* callers and the queue alone changes nothing, or starts a new interval.
LEMMA OtherStepsPay ==
  ASSUME IInv, Next, ~ Tick
  PROVE  \/ GrantsCost(tokens) /\ refillLeft' = refillLeft
         \/ GrantsCost(tokens + 1) /\ refillLeft = 0 /\ refillLeft' = Interval
<1>0. TypeOK /\ tokens \in Nat
  BY DEF IInv, TypeOK
<1>1. ASSUME NEW c \in Callers, Acquire(c)
      PROVE  GrantsCost(tokens) /\ refillLeft' = refillLeft
  <2>1. CASE backoffLeft > 0
    BY <1>0, <1>1, <2>1, GrantsNone DEF Acquire, TypeOK
  <2>2. CASE ~ (backoffLeft > 0)
    BY <1>0, <1>1, <2>2, TakingCosts DEF Acquire
  <2> QED
    BY <1>1, <2>1, <2>2 DEF Acquire
<1>2. ASSUME NEW c \in Callers, Wake(c)
      PROVE  GrantsCost(tokens) /\ refillLeft' = refillLeft
  BY <1>0, <1>2, TakingCosts DEF Wake
<1>3. ASSUME NEW c \in Callers, RequestEnds(c)
      PROVE  GrantsCost(tokens) /\ refillLeft' = refillLeft
  BY <1>0, <1>3, GrantsNone DEF RequestEnds, TypeOK
<1>4. ASSUME Refill
      PROVE  GrantsCost(tokens + 1) /\ refillLeft = 0 /\ refillLeft' = Interval
  <2>1. Refilled(tokens) \in Nat /\ Refilled(tokens) <= tokens + 1
    BY <1>0 DEF Refilled
  <2>2. GrantsCost(Refilled(tokens))
    BY <1>0, <1>4, <2>1, DrainingCosts DEF Refill
  <2>3. tokens' \in Nat
    BY <1>0, <1>4, RefilledFits, DrainingKeepsInv, LimiterAssumption DEF Refill, IInv, TypeOK
  <2>4. GrantsCost(tokens + 1)
    <3>1. PICK after \in Nat, cap \in Nat : after = tokens' /\ cap = Refilled(tokens)
      BY <2>1, <2>3
    <3>2. Granted \in Nat /\ Granted + after <= cap /\ cap <= tokens + 1
      BY <2>1, <2>2, <3>1 DEF GrantsCost
    <3>3. Granted + after <= tokens + 1
      BY <1>0, <3>2
    <3> QED
      BY <3>1, <3>2, <3>3 DEF GrantsCost
  <2> QED
    BY <1>4, <2>4 DEF Refill
<1>5. ASSUME Dispose
      PROVE  GrantsCost(tokens) /\ refillLeft' = refillLeft
  BY <1>0, <1>5, GrantsNone DEF Dispose, RejectQueue, TypeOK
<1> QED
  BY <1>1, <1>2, <1>3, <1>4, <1>5 DEF Next

LEMMA NextWindow ==
  IInv /\ WindowInv /\ [WindowNext]_<< limiterVars, issued >> => (IInv /\ WindowInv)'
<1> SUFFICES ASSUME IInv, WindowInv, [WindowNext]_<< limiterVars, issued >>
             PROVE  (IInv /\ WindowInv)'
  OBVIOUS
<1>1. IInv' /\ TypeOK /\ TypeOK'
  <2>1. [Next]_limiterVars
    BY DEF WindowNext, Next
  <2>2. IInv'
    BY <2>1, NextIInv
  <2> QED
    BY <2>2 DEF IInv
<1>2. CASE Tick /\ Older
  BY <1>1, <1>2, OlderKeepsWindow
<1>3. CASE Next /\ ~ Tick /\ Counted
  BY <1>1, <1>3, OtherStepsPay, CountedKeepsWindow
<1>4. CASE UNCHANGED << limiterVars, issued >>
  BY <1>1, <1>4 DEF limiterVars, WindowInv
<1> QED
  BY <1>1, <1>2, <1>3, <1>4 DEF WindowNext

LEMMA WindowInvariance == WindowSpec => [](IInv /\ WindowInv)
<1>1. WindowInit => IInv /\ WindowInv
  BY InitIInv, InitWindow DEF WindowInit
<1> QED
  BY <1>1, NextWindow, PTL DEF WindowSpec

-----------------------------------------------------------------------------
(* RateWindow: the theorems *)

LEMMA Quotient ==
  ASSUME NEW n \in Nat, NEW i \in Nat \ {0}, NEW k \in Nat, k * i <= n
  PROVE  n \div i \in Nat /\ k <= n \div i
OBVIOUS

LEMMA WindowImpliesBurst == IInv /\ WindowInv => BurstAndRefillsOnly
<1> SUFFICES ASSUME IInv, WindowInv PROVE BurstAndRefillsOnly
  OBVIOUS
<1>1. /\ tokens \in Nat /\ refillLeft \in Nat /\ refillLeft <= Interval
      /\ Interval \in Nat \ {0} /\ MaxTokens \in Nat /\ Minute \in Nat \ {0}
  BY LimiterAssumption, WindowAssumption DEF IInv, TypeOK
<1>2. PICK m \in Nat : m = Minute - 1
  BY <1>1
<1>3. m \in Ages /\ 0 .. m = Ages /\ issued \in [Ages -> Nat]
  BY <1>1, <1>2 DEF Ages, WindowInv
<1>4. PICK k \in Nat : /\ k * Interval <= m + refillLeft
                       /\ tokens + SumFunctionOnSet(issued, 0 .. m) <= MaxTokens + k
  BY <1>3 DEF WindowInv
<1>5. PICK sum \in Nat : sum = SumFunction(issued)
  <2>1. IsFiniteSet(Ages)
    <3>1. 0 \in Int /\ m \in Int
      OBVIOUS
    <3> QED
      BY <1>3, <3>1, FS_Interval
  <2> QED
    BY <1>3, <2>1, SumType
<1>6. tokens + sum <= MaxTokens + k
  BY <1>3, <1>4, <1>5 DEF SumFunction
<1>7. PICK ticks \in Nat : ticks = k * Interval
  BY <1>1
<1>8. PICK n \in Nat : n = Minute + Interval - 1
  BY <1>1
<1>9. k * Interval <= n
  <2>1. ticks <= n
    BY <1>1, <1>2, <1>4, <1>7, <1>8
  <2> QED
    BY <1>7, <2>1
<1>10. n \div Interval \in Nat /\ k <= n \div Interval
  BY <1>1, <1>9, Quotient
<1>11. RefillsPerMinute = n \div Interval
  BY <1>8 DEF RefillsPerMinute
<1>12. PICK refills \in Nat : refills = RefillsPerMinute /\ k <= refills
  BY <1>10, <1>11
<1>13. sum <= MaxTokens + refills
  BY <1>1, <1>6, <1>12
<1> QED
  BY <1>5, <1>12, <1>13 DEF BurstAndRefillsOnly, IssuedInLastMinute

\* acquire() and the refill timer: whatever drives the limiter, backoffs and
\* late timers included, no minute sees more than a full bucket and its refills.
THEOREM MinuteIsBounded == WindowSpec => []BurstAndRefillsOnly
BY WindowInvariance, WindowImpliesBurst, PTL

-----------------------------------------------------------------------------
(* The search clients of a process *)

\* request() at the proxy keeps what the loop keeps, and leaves the limiter be.
LEMMA ProxyKeepsCalls ==
  ASSUME CallsInv, NEW c \in Callers, SendToProxy(c) \/ ProxyStep(c)
  PROVE  CallsInv' /\ UNCHANGED limiterVars
<1>0. /\ attempt \in [Callers -> 0 .. MaxRetries]
      /\ \A d \in Callers : stage[d] \notin {"errorBody", "failed"} => status[d] # "4xx"
      /\ status[c] \in Failure \cup {"none", "disposed"}
  BY DEF CallsInv, RequestTypeOK, RefusedCallsThrow
<1>1. CASE SendToProxy(c)
  BY <1>0, <1>1, GoingOnKeepsCalls DEF SendToProxy
<1>2. CASE ProxyRespondsOk(c)
  BY <1>0, <1>2, GoingOnKeepsCalls DEF ProxyRespondsOk
<1>3. CASE BodyParsed(c)
  BY <1>0, <1>3, GoingOnKeepsCalls DEF BodyParsed
<1>4. CASE BodyFails(c)
  BY <1>4, FailingKeepsCalls DEF BodyFails, Failure
<1>5. CASE ProxyRespondsError(c)
  <2>1. PICK why \in {"429", "5xx", "4xx"} : RespondError(c, why)
    BY <1>5 DEF ProxyRespondsError, ProxyFailure
  <2> QED
    BY <2>1 DEF RespondError, Go, CallsInv, RequestTypeOK, Failure,
                RefusedCallsThrow, RetriesAreLeft, GivesUpOnlyAtTheEnd
<1>6. CASE ProxyErrorBodyRead(c)
  BY <1>0, <1>6, FailingKeepsCalls DEF ProxyErrorBodyRead
<1>7. CASE ProxyFetchFails(c)
  BY <1>7, FailingKeepsCalls DEF ProxyFetchFails, Failure
<1>8. CASE RetryAtProxy(c)
  <2>1. /\ attempt' \in [Callers -> 0 .. MaxRetries]
        /\ \A d \in Callers : d # c => attempt'[d] = attempt[d]
    BY <1>0, <1>8, RetriesAssumption DEF RetryAtProxy, CallsInv, RetriesAreLeft
  <2> QED
    BY <1>0, <1>8, <2>1, GoingOnKeepsCalls DEF RetryAtProxy
<1> QED
  BY <1>1, <1>2, <1>3, <1>4, <1>5, <1>6, <1>7, <1>8 DEF ProxyStep

\* The calls go through the limiter only where they have one.
SearchInv ==
  /\ IInv
  /\ CallsInv
  /\ provider = "direct" => FetchesHoldTokens

\* With the direct provider a step is one of the request loop.
LEMMA DirectStepsAreTheLoops ==
  ASSUME [ProviderNext]_providerVars, provider = "direct"
  PROVE  provider' = "direct" /\ [ClientNext]_clientVars
BY DEF ProviderNext, DirectStep, NetworkStep, WithProvider, Exit, ClientNext, providerVars

\* With the network's, it is one of the loop at the proxy.
LEMMA NetworkStepsAreTheProxys ==
  ASSUME [ProviderNext]_providerVars, provider # "direct"
  PROVE  /\ provider' = provider
         /\ \/ \E c \in Callers : SendToProxy(c) \/ ProxyStep(c)
            \/ UNCHANGED clientVars
BY DEF ProviderNext, DirectStep, NetworkStep, WithProvider, Exit, providerVars

LEMMA SearchStepKeepsInv ==
  ASSUME SearchInv, [ProviderNext]_providerVars
  PROVE  SearchInv' /\ [Next]_limiterVars
<1>1. CASE provider = "direct"
  <2>1. LoopInv /\ IInv
    BY <1>1 DEF SearchInv, LoopInv
  <2>2. provider' = "direct" /\ [ClientNext]_clientVars
    BY <1>1, DirectStepsAreTheLoops
  <2>3. LoopInv' /\ [Next]_limiterVars
    BY <2>1, <2>2, NextLoopInv, NextIsLimiterStep
  <2>4. IInv'
    BY <2>1, <2>3, NextIInv
  <2> QED
    BY <2>2, <2>3, <2>4 DEF SearchInv, LoopInv
<1>2. CASE provider # "direct"
  <2>1. /\ provider' = provider
        /\ \/ \E c \in Callers : SendToProxy(c) \/ ProxyStep(c)
           \/ UNCHANGED clientVars
    BY <1>2, NetworkStepsAreTheProxys
  <2>2. CallsInv' /\ UNCHANGED limiterVars
    <3>1. CASE UNCHANGED clientVars
      BY <3>1 DEF SearchInv, clientVars, CallsInv, RequestTypeOK, RefusedCallsThrow,
                  RetriesAreLeft, GivesUpOnlyAtTheEnd
    <3>2. ASSUME NEW c \in Callers, SendToProxy(c) \/ ProxyStep(c)
          PROVE  CallsInv' /\ UNCHANGED limiterVars
      BY <3>2, ProxyKeepsCalls DEF SearchInv
    <3> QED
      BY <2>1, <3>1, <3>2
  <2>3. IInv'
    <3>1. [Next]_limiterVars /\ IInv
      BY <2>2 DEF SearchInv
    <3> QED
      BY <3>1, NextIInv
  <2> QED
    BY <1>2, <2>1, <2>2, <2>3 DEF SearchInv
<1> QED
  BY <1>1, <1>2

\* Only the passing of time looks like a tick of the limiter.
LEMMA TicksAreTime ==
  ASSUME SearchInv, ProviderNext, ~ TimePasses, Tick
  PROVE  UNCHANGED limiterVars
<1>0. /\ TypeOK /\ waiting \in [Callers -> Stage] /\ Interval # 0 /\ waiting' = waiting
      /\ refillLeft' = Down(refillLeft) /\ disposed' = disposed
      /\ queue' = queue /\ tokens' = tokens
  BY LimiterAssumption DEF SearchInv, IInv, TypeOK, Tick
<1>1. ASSUME NEW c \in Callers, Acquire(c) PROVE FALSE
  <2>1. waiting[c] = "out" /\ waiting'[c] \in {"sleeping", "granted", "queued"}
    BY <1>0, <1>1 DEF Acquire, TakeOrQueue
  <2> QED
    BY <1>0, <2>1
<1>2. ASSUME NEW c \in Callers, provider = "direct", RequestStep(c)
      PROVE  UNCHANGED limiterVars
  <2>1. CASE RespondOk(c) \/ ErrorBodyRead(c) \/ FetchFails(c)
    <3>1. waiting[c] = "granted" /\ waiting'[c] = "out"
      BY <1>0, <1>2, <2>1
         DEF RespondOk, ErrorBodyRead, FetchFails, Leaves, SearchInv, FetchesHoldTokens
    <3> QED
      BY <1>0, <3>1
  <2>2. CASE Retry(c)
    BY <1>1, <2>2 DEF Retry
  <2> QED
    BY <1>2, <2>1, <2>2 DEF RequestStep, Fetch, AcquireRejects, BodyParsed, BodyFails, RespondError
<1>3. CASE WithProvider("direct") /\ LimiterStep
  <2>1. ASSUME NEW c \in Callers, Wake(c) PROVE FALSE
    <3>1. waiting[c] = "sleeping" /\ waiting'[c] \in {"granted", "queued"}
      BY <1>0, <2>1 DEF Wake, TakeOrQueue
    <3> QED
      BY <1>0, <3>1
  <2>2. ~ Refill
    BY <1>0 DEF Refill, Down
  <2>3. CASE Dispose
    BY <1>0, <2>3 DEF Dispose, limiterVars
  <2>4. ~ (Tick /\ UNCHANGED requestVars)
    BY <1>3 DEF TimePasses, WithProvider
  <2> QED
    BY <1>3, <2>1, <2>2, <2>3, <2>4 DEF LimiterStep
<1>4. ASSUME NEW c \in Callers, SendToProxy(c) \/ ProxyStep(c)
      PROVE  UNCHANGED limiterVars
  BY <1>4, ProxyKeepsCalls DEF SearchInv
<1>5. CASE Exit
  BY <1>5 DEF Exit, clientVars
<1> QED
  BY <1>1, <1>2, <1>3, <1>4, <1>5
     DEF ProviderNext, WithProvider, StartRequest, DirectStep, NetworkStep

\* A step of the searches is a step of the limiter with its history.
LEMMA SearchStepIsWindowStep ==
  ASSUME SearchInv, WindowInv, [SearchNext]_searchVars
  PROVE  SearchInv' /\ [WindowNext]_<< limiterVars, issued >>
<1>1. [ProviderNext]_providerVars
  BY DEF SearchNext, searchVars, TimePasses, ProviderNext, LimiterStep, WithProvider
<1>2. SearchInv' /\ [Next]_limiterVars
  BY <1>1, SearchStepKeepsInv
<1>3. CASE TimePasses /\ Older
  BY <1>2, <1>3 DEF TimePasses, WindowNext
<1>4. CASE ProviderNext /\ ~ TimePasses /\ Counted
  <2>1. CASE UNCHANGED limiterVars
    <3>1. TypeOK /\ issued \in [Ages -> Nat] /\ 0 \in Ages
      BY WindowAssumption DEF SearchInv, IInv, WindowInv, Ages
    <3>2. Granted = 0
      BY <2>1, <3>1, GrantsNone DEF limiterVars
    <3>3. issued' = [issued EXCEPT ![0] = issued[0] + 0] /\ issued[0] + 0 = issued[0]
      BY <1>4, <3>1, <3>2 DEF Counted
    <3>4. issued' = issued
      BY <3>1, <3>3
    <3> QED
      BY <1>2, <2>1, <3>4
  <2>2. CASE ~ UNCHANGED limiterVars
    <3>1. Next /\ ~ Tick
      BY <1>2, <1>4, <2>2, TicksAreTime
    <3> QED
      BY <1>2, <1>4, <3>1 DEF WindowNext
  <2> QED
    BY <2>1, <2>2
<1>5. CASE UNCHANGED searchVars
  BY <1>2, <1>5 DEF searchVars, providerVars, clientVars, limiterVars
<1> QED
  BY <1>3, <1>4, <1>5 DEF SearchNext

LEMMA SearchInvariance == SearchSpec => [](SearchInv /\ WindowInv)
<1>1. SearchInit => SearchInv /\ WindowInit
  BY InitIInv, InitLoopInv
     DEF SearchInit, ProviderInit, ClientInit, SearchInv, LoopInv, WindowInit
<1>2. SearchInit => SearchInv /\ WindowInv
  BY <1>1, InitWindow
<1>3. SearchInv /\ WindowInv /\ [SearchNext]_searchVars => (SearchInv /\ WindowInv)'
  BY SearchStepIsWindowStep, NextWindow DEF SearchInv
<1> QED
  BY <1>2, <1>3, PTL DEF SearchSpec

\* The searches of a process, by either client, use the limiter as it is
\* specified: what is proved of RateWindow holds of them.
THEOREM SearchesKeepToTheWindow == SearchSpec => WindowSpec
<1>1. SearchInit => WindowInit
  BY DEF SearchInit, ProviderInit, ClientInit, WindowInit
<1>2. SearchInv /\ WindowInv /\ [SearchNext]_searchVars => [WindowNext]_<< limiterVars, issued >>
  BY SearchStepIsWindowStep
<1> QED
  BY <1>1, <1>2, SearchInvariance, PTL DEF SearchSpec, WindowSpec

\* And so the searches of a process, retries included, keep within a full bucket
\* and the refills of a minute.
THEOREM SearchesAreBounded == SearchSpec => []BurstAndRefillsOnly
BY SearchesKeepToTheWindow, MinuteIsBounded, PTL

\* No step of either client passes the limiter by.
THEOREM SearchesUseLimiter == SearchSpec => UsesLimiterAsSpecified
<1>1. WindowInit => Init
  BY DEF WindowInit
<1>2. [WindowNext]_<< limiterVars, issued >> => [Next]_limiterVars
  BY DEF WindowNext, Next
<1> QED
  BY <1>1, <1>2, SearchesKeepToTheWindow, PTL DEF WindowSpec, UsesLimiterAsSpecified, Spec

\* A search gives up only after its last attempt, a refusal or dispose(), at
\* You.com and at the network's proxy.
THEOREM SearchesTryToTheEnd == SearchSpec => []GivesUpOnlyAtTheEnd
<1>1. SearchInv => GivesUpOnlyAtTheEnd
  BY DEF SearchInv, CallsInv
<1> QED
  BY <1>1, SearchInvariance, PTL
=============================================================================
