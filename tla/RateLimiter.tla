----------------------------- MODULE RateLimiter -----------------------------
(***************************************************************************)
(* The token bucket of the search client (src/client/rate-limiter.ts) and  *)
(* the requests that go through it.  Time passes in ticks; a timer is a    *)
(* number of ticks left, fires at 0 and may fire late.                     *)
(***************************************************************************)
EXTENDS Naturals, Sequences

CONSTANTS
  Callers,      \* concurrent requests; each awaits at most one acquire()
  MaxTokens,    \* requestsPerMinute
  Interval,     \* ticks between two refills, Minute \div MaxTokens
  Delays        \* backoff delays in ticks: 1 s, 2 s, 4 s, ... up to 60 s

ASSUME LimiterAssumption ==
  /\ MaxTokens \in Nat \ {0}
  /\ Interval \in Nat \ {0}
  /\ Delays \in Seq(Nat \ {0})
  /\ Len(Delays) > 0
  /\ \A n \in 1 .. Len(Delays) - 1 : Delays[n] <= Delays[n + 1]

VARIABLES
  tokens,
  queue,         \* callers waiting for a token, first in first out
  waiting,       \* caller -> where its acquire() is
  sleepLeft,     \* caller -> ticks left of its sleep
  backoffLeft,   \* ticks until backoffUntil
  backoffs,      \* consecutiveBackoffs; past Len(Delays) nothing changes
  refillLeft,    \* ticks until the refill timer fires
  disposed       \* the refill timer is cleared

limiterVars ==
  << tokens, queue, waiting, sleepLeft, backoffLeft, backoffs, refillLeft, disposed >>

\* "out": no acquire() outstanding; "granted" and "rejected": it has settled
\* and the caller has not moved on.
Stage == {"out", "sleeping", "queued", "granted", "rejected"}

TypeOK ==
  /\ tokens \in 0 .. MaxTokens
  /\ queue \in Seq(Callers)
  /\ waiting \in [Callers -> Stage]
  /\ sleepLeft \in [Callers -> Nat]
  /\ backoffLeft \in Nat
  /\ backoffs \in 0 .. Len(Delays)
  /\ refillLeft \in 0 .. Interval
  /\ disposed \in BOOLEAN

Init ==
  /\ tokens = MaxTokens
  /\ queue = << >>
  /\ waiting = [c \in Callers |-> "out"]
  /\ sleepLeft = [c \in Callers |-> 0]
  /\ backoffLeft = 0
  /\ backoffs = 0
  /\ refillLeft = Interval
  /\ disposed = FALSE

-----------------------------------------------------------------------------
(* acquire() *)

\* Mutant: the newcomer goes to the head of the queue.
TakeOrJoinFront(c) ==
  IF tokens > 0
    THEN /\ tokens' = tokens - 1
         /\ waiting' = [waiting EXCEPT ![c] = "granted"]
         /\ UNCHANGED queue
    ELSE /\ queue' = << c >> \o queue
         /\ waiting' = [waiting EXCEPT ![c] = "queued"]
         /\ UNCHANGED tokens

\* The end of acquire(): take a token, or join the queue.
TakeOrQueue(c) ==
  IF tokens > 0
    THEN /\ tokens' = tokens - 1
         /\ waiting' = [waiting EXCEPT ![c] = "granted"]
         /\ UNCHANGED queue
    ELSE /\ queue' = Append(queue, c)
         /\ waiting' = [waiting EXCEPT ![c] = "queued"]
         /\ UNCHANGED tokens

\* acquire(): in a backoff window, sleep until its present end.
Acquire(c) ==
  /\ waiting[c] = "out"
  /\ IF backoffLeft > 0
       THEN /\ waiting' = [waiting EXCEPT ![c] = "sleeping"]
            /\ sleepLeft' = [sleepLeft EXCEPT ![c] = backoffLeft]
            /\ UNCHANGED << tokens, queue >>
       ELSE TakeOrQueue(c) /\ UNCHANGED sleepLeft
  /\ UNCHANGED << backoffLeft, backoffs, refillLeft, disposed >>

\* The sleep is over; the window is not looked at again.
Wake(c) ==
  /\ waiting[c] = "sleeping"
  /\ sleepLeft[c] = 0
  /\ TakeOrQueue(c)
  /\ UNCHANGED << sleepLeft, backoffLeft, backoffs, refillLeft, disposed >>

-----------------------------------------------------------------------------
(* Refill, backoff and disposal *)

\* Mutant: the refill leaves its token in the bucket.
DrainNobody(available) ==
  /\ tokens' = available
  /\ UNCHANGED << queue, waiting >>

\* drain(): hand out the available tokens in the order of the queue.
Drain(available) ==
  LET served == IF available < Len(queue) THEN available ELSE Len(queue)
  IN  /\ tokens' = available - served
      /\ queue' = SubSeq(queue, served + 1, Len(queue))
      /\ waiting' = [c \in Callers |->
                       IF \E i \in 1 .. served : queue[i] = c
                         THEN "granted" ELSE waiting[c]]

\* Mutant: the bucket is not capped.
TokensPlusOne(n) == n + 1

\* The bucket after one more token.
Refilled(n) == IF n < MaxTokens THEN n + 1 ELSE n

\* The refill timer fires, whether or not a backoff window is open.  It does
\* not keep the process up: see Exit in NetworkSearchClient.
Refill ==
  /\ ~ disposed
  /\ refillLeft = 0
  /\ refillLeft' = Interval
  /\ Drain(Refilled(tokens))
  /\ UNCHANGED << sleepLeft, backoffLeft, backoffs, disposed >>

\* backoff(), after a 429.
Backoff ==
  LET n == IF backoffs < Len(Delays) THEN backoffs + 1 ELSE backoffs
  IN  /\ backoffs' = n
      /\ backoffLeft' = Delays[n]

\* A request that holds a grant ends: with a 429, a success, or otherwise.
RequestEnds(c) ==
  /\ waiting[c] = "granted"
  /\ waiting' = [waiting EXCEPT ![c] = "out"]
  /\ \/ Backoff
     \/ backoffs' = 0 /\ UNCHANGED backoffLeft
     \/ UNCHANGED << backoffs, backoffLeft >>
  /\ UNCHANGED << tokens, queue, sleepLeft, refillLeft, disposed >>

\* Mutant: the queue is emptied and its callers are not told.
DropQueue ==
  /\ queue' = << >>
  /\ UNCHANGED waiting

RejectQueue ==
  /\ queue' = << >>
  /\ waiting' = [c \in Callers |->
                   IF waiting[c] = "queued" THEN "rejected" ELSE waiting[c]]

\* dispose(), any number of times: stop the refills and reject whoever is
\* queued now.
Dispose ==
  /\ disposed' = TRUE
  /\ RejectQueue
  /\ UNCHANGED << tokens, sleepLeft, backoffLeft, backoffs, refillLeft >>

Down(n) == IF n > 0 THEN n - 1 ELSE 0

\* Time passes; due timers may still be waiting to fire.
Tick ==
  /\ sleepLeft' = [c \in Callers |-> Down(sleepLeft[c])]
  /\ backoffLeft' = Down(backoffLeft)
  /\ refillLeft' = Down(refillLeft)
  /\ UNCHANGED << tokens, queue, waiting, backoffs, disposed >>

Next ==
  \/ \E c \in Callers : Acquire(c) \/ Wake(c) \/ RequestEnds(c)
  \/ Refill
  \/ Dispose
  \/ Tick

Spec == Init /\ [][Next]_limiterVars

-----------------------------------------------------------------------------
(* Properties *)

\* The queue holds exactly the callers whose promise is open, each once: a
\* grant or a rejection never reaches a caller twice, and none is lost.
QueueHoldsTheWaiting ==
  /\ \A c \in Callers : waiting[c] = "queued" <=> \E i \in 1 .. Len(queue) : queue[i] = c
  /\ \A i, j \in 1 .. Len(queue) : queue[i] = queue[j] => i = j

\* No token lies idle while somebody queues, so no newcomer (and nobody who
\* wakes up from a backoff) can take a token past the queue.
NoIdleToken == tokens > 0 => queue = << >>

\* Who is queued ahead of c: everybody in the queue, if c is not in it.
Ahead(c) ==
  { d \in Callers : \E i \in 1 .. Len(queue) :
                      queue[i] = d /\ \A j \in 1 .. i : queue[j] # c }

\* First in, first out over the whole system: when a caller is granted a
\* token, everybody ahead of it is granted one too, and who is ahead of whom
\* does not change while both queue.
NoOvertaking ==
  [][ \A c \in Callers : \A d \in Ahead(c) :
        /\ waiting[c] # "granted" /\ waiting'[c] = "granted" => waiting'[d] = "granted"
        /\ waiting'[c] = "queued" /\ waiting'[d] = "queued" => d \in Ahead(c)' ]_limiterVars

-----------------------------------------------------------------------------
(* What a comment says and the code does not do *)

\* backoff(): "All pending and future requests will be paused": nobody is
\* granted a token while a window is open.
PausedDuringBackoff ==
  [][ backoffLeft > 0 =>
        \A c \in Callers : waiting'[c] = "granted" => waiting[c] = "granted" ]_limiterVars
=============================================================================
