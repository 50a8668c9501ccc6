----------------------- MODULE AgentA2AServiceProofs -----------------------
(***************************************************************************)
(* Theorems of AgentA2AService, for any scripts of the peer, any number of *)
(* stop()s and any limits.                                                 *)
(***************************************************************************)
EXTENDS AgentA2AService, FiniteSetTheorems, WellFoundedInduction, TLAPS

-----------------------------------------------------------------------------
(* Requests and the database *)

Reading == \E r \in Requests : request[r].at = "reading"

\* A request is read only between listening and the close, and the database is
\* closed only with the server, or by a stop() that found nothing started.
OpenInv ==
  /\ Reading => socket \in {"listening", "closing"}
  /\ ~ service.open => socket = "closed" \/ \E k \in Stops : stop[k] = "released"
  /\ stop = [k \in Stops |-> stop[k]]
  /\ request = [r \in Requests |-> request[r]]
  /\ service \in [started : BOOLEAN, open : BOOLEAN]


LEMMA OpenInitially == ServiceInit => OpenInv
  BY DEF ServiceInit, OpenInv, Reading, NoAnswer

LEMMA OpenPreserved == OpenInv /\ [ServiceNext]_serviceVars => OpenInv'
<1> SUFFICES ASSUME OpenInv, [ServiceNext]_serviceVars
             PROVE  OpenInv'
  OBVIOUS
<1> USE DEF OpenInv, Reading, Requests, Calls
<1>1. CASE Start
  BY <1>1 DEF Start, peerVars, dataVars
<1>2. CASE Listening
  BY <1>2 DEF Listening, peerVars, dataVars
<1>3. CASE BindFails
  BY <1>3 DEF BindFails, peerVars, dataVars
<1>4. ASSUME NEW k \in Stops, Stop(k)
      PROVE  OpenInv'
  <2>1. CASE service.started
    BY <1>4, <2>1 DEF Stop, peerVars, dataVars
  <2>2. CASE ~ service.started
    <3>1. stop'[k] = "released"
      BY <1>4, <2>2 DEF Stop
    <3>2. QED
      BY <1>4, <2>2, <3>1 DEF Stop, peerVars, dataVars
  <2>3. QED
    BY <2>1, <2>2
<1>5. ASSUME NEW k \in Stops, CloseServer(k)
      PROVE  OpenInv'
  <2>1. \A j \in Stops : stop[j] = "released" => stop'[j] = "released"
    BY <1>5 DEF CloseServer
  <2>2. QED
    BY <1>5, <2>1 DEF CloseServer, peerVars, dataVars
<1>6. CASE ServerClosed
  BY <1>6 DEF ServerClosed, peerVars, dataVars
<1>7. CASE SavePost
  BY <1>7 DEF SavePost, peerVars, lifeVars
<1>8. ASSUME NEW r \in Requests, Accept(r)
      PROVE  OpenInv'
  BY <1>8 DEF Accept, peerVars, lifeVars, dataVars
<1>9. ASSUME NEW r \in Requests, NEW ok, NEW posts, Answer(r, ok, posts),
             UNCHANGED << script, lifeVars >>
      PROVE  OpenInv'
  BY <1>9 DEF Answer, NoAnswer, lifeVars
<1>10. ASSUME NEW r \in Requests, Handle(r)
       PROVE  OpenInv'
  <2>1. \E ok, posts : Answer(r, ok, posts)
    BY <1>10 DEF Handle
  <2>2. UNCHANGED << script, lifeVars >>
    BY <1>10 DEF Handle, peerVars
  <2>3. QED
    BY <1>9, <2>1, <2>2
<1>11. ASSUME NEW r \in Requests, ServeFeed(r) \/ ServeCard(r) \/ HandlerFails(r)
       PROVE  OpenInv'
  <2>1. \E ok, posts : Answer(r, ok, posts)
    BY <1>11 DEF ServeFeed, ServeCard, HandlerFails
  <2>2. UNCHANGED << script, lifeVars >>
    BY <1>11 DEF ServeFeed, ServeCard, HandlerFails, peerVars
  <2>3. QED
    BY <1>9, <2>1, <2>2
<1>12. ASSUME NEW r \in Requests, BodyCutOff(r)
       PROVE  OpenInv'
  BY <1>12 DEF BodyCutOff, NoAnswer, peerVars, lifeVars, dataVars
<1>13. ASSUME NEW c \in Calls, Begin(c)
       PROVE  OpenInv'
  BY <1>13 DEF Begin, NoAnswer, lifeVars, dataVars
<1>14. ASSUME NEW c \in Calls, Receive(c)
       PROVE  OpenInv'
  BY <1>14 DEF Receive, NoAnswer, lifeVars, dataVars
<1>15. ASSUME NEW c \in Calls, NextAttempt(c)
       PROVE  OpenInv'
  <2> DEFINE n == rpc[c].attempt
  <2>1. request' = [r \in Requests |-> request'[r]]
    BY <1>15 DEF NextAttempt
  <2>2. \A r \in Requests : request'[r].at = "reading" => request[r].at = "reading"
    <3>1. ASSUME n < Attempts(c), NEW r \in Requests
          PROVE  request'[r] \in {request[r], NoAnswer("gone"), NoAnswer("sent")}
      <4>1. request' = [request EXCEPT ![<< c, n >>] = GivenUp(<< c, n >>),
                                       ![<< c, n + 1 >>] = NoAnswer("sent")]
        BY <1>15, <3>1 DEF NextAttempt
      <4>2. QED
        BY <4>1 DEF GivenUp
    <3>2. ASSUME ~ n < Attempts(c), NEW r \in Requests
          PROVE  request'[r] \in {request[r], NoAnswer("gone")}
      <4>1. request' = [request EXCEPT ![<< c, n >>] = GivenUp(<< c, n >>)]
        BY <1>15, <3>2 DEF NextAttempt
      <4>2. QED
        BY <4>1 DEF GivenUp
    <3>3. NoAnswer("gone").at = "gone" /\ NoAnswer("sent").at = "sent"
      BY DEF NoAnswer
    <3>4. QED
      BY <3>1, <3>2, <3>3
  <2>3. UNCHANGED << script, lifeVars >>
    BY <1>15 DEF NextAttempt
  <2>4. QED
    BY <2>1, <2>2, <2>3 DEF lifeVars
<1>16. CASE UNCHANGED serviceVars
  BY <1>16 DEF serviceVars, peerVars, lifeVars, dataVars
<1>17. QED
  BY <1>1, <1>2, <1>3, <1>4, <1>5, <1>6, <1>7, <1>8, <1>10, <1>11, <1>12,
     <1>13, <1>14, <1>15, <1>16 DEF ServiceNext, AttemptFails, ProbeFails

\* A request that is being read finds the database open, however stop()s and
\* requests overlap, unless a stop() came before start() had resolved.
THEOREM DatabaseOutlivesRequests == ServiceSpec => []RequestsHaveTheDatabase
<1>1. OpenInv => RequestsHaveTheDatabase
  BY DEF OpenInv, Reading, RequestsHaveTheDatabase
<1>2. QED
  BY <1>1, OpenInitially, OpenPreserved, PTL DEF ServiceSpec

-----------------------------------------------------------------------------
(* Requests and tasks *)

\* Whether attempt n of call c may still be handled.
Pending(c, n) == IF request[<< c, n >>].at \in {"sent", "reading"} THEN 1 ELSE 0

Shape ==
  /\ rpc \in [Calls -> [pc : {"new", "waiting", "resolved", "refused", "failed"},
                        attempt : {0, 1, 2}]]
  /\ request = [r \in Requests |-> request[r]]
  /\ tasks \in [Calls -> Nat]

\* What is known of one call: every attempt is answered for by a task at most
\* once, and no answer is on its way but to the attempt under way.
Accounted(c) ==
  /\ rpc[c].pc = "new" <=> rpc[c].attempt = 0
  /\ \A n \in {1, 2} : n > rpc[c].attempt => request[<< c, n >>].at = "none"
  /\ tasks[c] + Pending(c, 1) + Pending(c, 2) <= rpc[c].attempt
  /\ \A n \in {1, 2} : request[<< c, n >>].at = "answered" =>
       /\ rpc[c].pc = "waiting"
       /\ rpc[c].attempt = n
       /\ request[<< c, n >>].ok /\ IsMessage(script[c]) => tasks[c] >= 1
       /\ ~ request[<< c, n >>].ok /\ n = 1 => tasks[c] = 0
  /\ rpc[c].pc = "resolved" /\ IsMessage(script[c]) => tasks[c] >= 1
  /\ rpc[c].pc = "refused" /\ rpc[c].attempt = 1 =>
       tasks[c] = 0 /\ request[<< c, 1 >>].at = "gone"

RecordInv == Shape /\ \A c \in Calls : Accounted(c)

LEMMA RecordInitially == ServiceInit => RecordInv
  BY DEF ServiceInit, RecordInv, Shape, Accounted, Pending, NoAnswer, Requests

\* A step that leaves a call and its requests alone.
LEMMA AccountedUntouched ==
  ASSUME NEW c \in Calls, Accounted(c), UNCHANGED script,
         rpc'[c] = rpc[c], tasks'[c] = tasks[c],
         \A n \in {1, 2} : request'[<< c, n >>] = request[<< c, n >>]
  PROVE  Accounted(c)'
  BY DEF Accounted, Pending

LEMMA RecordPreserved == RecordInv /\ [ServiceNext]_serviceVars => RecordInv'
<1> SUFFICES ASSUME RecordInv, [ServiceNext]_serviceVars
             PROVE  RecordInv'
  OBVIOUS
<1>0. Shape /\ \A c \in Calls : Accounted(c)
  BY DEF RecordInv
\* It is enough to account for the call the step is about.
<1>1. ASSUME NEW c \in Calls, UNCHANGED script, Shape', Accounted(c)',
             \A d \in Calls : d # c => rpc'[d] = rpc[d] /\ tasks'[d] = tasks[d],
             \A d \in Calls, n \in {1, 2} :
               d # c => request'[<< d, n >>] = request[<< d, n >>]
      PROVE  RecordInv'
  <2>1. \A d \in Calls : d # c => Accounted(d)'
    BY <1>0, <1>1, AccountedUntouched
  <2>2. QED
    BY <1>1, <2>1 DEF RecordInv, Calls
<1>2. ASSUME UNCHANGED << script, rpc, request, tasks >>
      PROVE  RecordInv'
  <2>1. \A c \in Calls : Accounted(c)'
    BY <1>0, <1>2, AccountedUntouched
  <2>2. QED
    BY <1>0, <1>2, <2>1 DEF RecordInv, Shape, Calls, Requests
<1>3. ASSUME NEW c \in Calls, Begin(c)
      PROVE  RecordInv'
  <2>1. UNCHANGED << script, tasks >>
    BY <1>3 DEF Begin, dataVars
  <2>2. Shape'
    BY <1>0, <1>3, <2>1 DEF Begin, Shape, Calls, Requests
  <2>3. /\ rpc[c].pc = "new" /\ rpc[c].attempt = 0
        /\ rpc'[c].pc = "waiting" /\ rpc'[c].attempt = 1
    BY <1>0, <1>3 DEF Begin, Shape, Accounted
  <2>4. /\ request'[<< c, 1 >>].at = "sent"
        /\ request'[<< c, 2 >>] = request[<< c, 2 >>]
    BY <1>0, <1>3 DEF Begin, Shape, Requests, NoAnswer
  <2>5. request[<< c, 1 >>].at = "none" /\ request[<< c, 2 >>].at = "none"
    BY <1>0, <2>3 DEF Accounted
  <2>6. tasks[c] = 0
    <3>1. Pending(c, 1) = 0 /\ Pending(c, 2) = 0
      BY <2>5 DEF Pending
    <3>2. tasks[c] + Pending(c, 1) + Pending(c, 2) <= rpc[c].attempt
      BY <1>0 DEF Accounted
    <3>3. tasks[c] \in Nat
      BY <1>0 DEF Shape
    <3>4. QED
      BY <2>3, <3>1, <3>2, <3>3
  <2>7. Accounted(c)'
    BY <2>1, <2>3, <2>4, <2>5, <2>6 DEF Accounted, Pending
  <2>8. QED
    BY <1>0, <1>1, <1>3, <2>1, <2>2, <2>7 DEF Begin, Shape, Requests
<1>4. ASSUME NEW c \in Calls, Receive(c)
      PROVE  RecordInv'
  <2> DEFINE n == rpc[c].attempt
             answer == request[<< c, n >>]
  <2>1. UNCHANGED << script, tasks >>
    BY <1>4 DEF Receive, dataVars
  <2>2. Shape'
    BY <1>0, <1>4, <2>1 DEF Receive, Shape, Calls, Requests
  <2>3. /\ rpc[c].pc = "waiting"
        /\ rpc'[c].attempt = n
        /\ rpc'[c].pc = IF answer.ok THEN "resolved" ELSE "refused"
        /\ answer.at = "answered"
    BY <1>0, <1>4 DEF Receive, Shape
  <2>4. n \in {1, 2} /\ tasks[c] \in Nat
    BY <1>0, <2>3 DEF Accounted, Shape
  <2>5. /\ request'[<< c, n >>].at = "gone"
        /\ \A k \in {1, 2} : k # n => request'[<< c, k >>] = request[<< c, k >>]
    BY <1>0, <1>4, <2>4 DEF Receive, Shape, Requests, NoAnswer
  <2>6. \A k \in {1, 2} : Pending(c, k)' <= Pending(c, k)
    BY <2>5 DEF Pending
  <2>7. tasks'[c] + Pending(c, 1)' + Pending(c, 2)' <= rpc'[c].attempt
    BY <1>0, <2>1, <2>3, <2>4, <2>6 DEF Accounted, Pending
  <2>8. Accounted(c)'
    BY <1>0, <2>1, <2>3, <2>4, <2>5, <2>7 DEF Accounted
  <2>9. QED
    BY <1>0, <1>1, <1>4, <2>1, <2>2, <2>8 DEF Receive, Shape, Requests
<1>5. ASSUME NEW c \in Calls, NextAttempt(c)
      PROVE  RecordInv'
  <2> DEFINE n == rpc[c].attempt
  <2>1. UNCHANGED << script, tasks >> /\ rpc[c].pc = "waiting"
    BY <1>5 DEF NextAttempt, dataVars
  <2>2. n \in {1, 2} /\ tasks[c] \in Nat /\ Attempts(c) \in {1, 2}
    BY <1>0, <2>1 DEF Accounted, Shape, Attempts
  <2>3. GivenUp(<< c, n >>).at \in {request[<< c, n >>].at, "gone"} \ {"answered"}
    BY DEF GivenUp, NoAnswer
  <2>4. CASE n < Attempts(c)
    <3>1. n = 1
      BY <2>2, <2>4
    <3>2. rpc' = [rpc EXCEPT ![c].attempt = 2]
      BY <1>5, <2>4, <3>1 DEF NextAttempt
    <3>3. request' = [request EXCEPT ![<< c, 1 >>] = GivenUp(<< c, 1 >>),
                                     ![<< c, 2 >>] = NoAnswer("sent")]
      BY <1>5, <2>4, <3>1 DEF NextAttempt
    <3>4. Shape'
      BY <1>0, <2>1, <3>2, <3>3 DEF Shape, Calls, Requests
    <3>5. rpc'[c].pc = "waiting" /\ rpc'[c].attempt = 2
      BY <1>0, <2>1, <3>2 DEF Shape
    <3>6. /\ request'[<< c, 1 >>].at \in {request[<< c, 1 >>].at, "gone"} \ {"answered"}
          /\ request'[<< c, 2 >>].at = "sent"
      BY <1>0, <2>3, <3>1, <3>3 DEF Shape, Requests, NoAnswer
    <3>7. request[<< c, 2 >>].at = "none"
      <4>1. \A k \in {1, 2} : k > 1 => request[<< c, k >>].at = "none"
        BY <1>0, <3>1 DEF Accounted
      <4>2. QED
        BY <4>1
    <3>8. tasks'[c] + Pending(c, 1)' + Pending(c, 2)' <= 2
      BY <1>0, <2>1, <2>2, <3>1, <3>6, <3>7 DEF Accounted, Pending
    <3>9. Accounted(c)'
      BY <2>1, <3>5, <3>6, <3>8 DEF Accounted
    <3>10. QED
      BY <1>0, <1>1, <2>1, <3>2, <3>3, <3>4, <3>9 DEF Shape, Requests
  <2>5. CASE ~ n < Attempts(c)
    <3>1. rpc' = [rpc EXCEPT ![c].pc = "failed"]
      BY <1>5, <2>5 DEF NextAttempt
    <3>2. request' = [request EXCEPT ![<< c, n >>] = GivenUp(<< c, n >>)]
      BY <1>5, <2>5 DEF NextAttempt
    <3>3. Shape'
      BY <1>0, <2>1, <3>1, <3>2 DEF Shape, Calls, Requests
    <3>4. rpc'[c].pc = "failed" /\ rpc'[c].attempt = n
      BY <1>0, <3>1 DEF Shape
    <3>5. /\ request'[<< c, n >>].at \in {request[<< c, n >>].at, "gone"} \ {"answered"}
          /\ \A k \in {1, 2} : k # n => request'[<< c, k >>] = request[<< c, k >>]
      BY <1>0, <2>2, <2>3, <3>2 DEF Shape, Requests
    <3>6. \A k \in {1, 2} : Pending(c, k)' <= Pending(c, k)
      BY <3>5 DEF Pending
    <3>7. tasks'[c] + Pending(c, 1)' + Pending(c, 2)' <= rpc'[c].attempt
      BY <1>0, <2>1, <2>2, <3>4, <3>6 DEF Accounted, Pending
    <3>8. Accounted(c)'
      BY <1>0, <2>1, <2>2, <3>4, <3>5, <3>7 DEF Accounted
    <3>9. QED
      BY <1>0, <1>1, <2>1, <3>1, <3>2, <3>3, <3>8 DEF Shape, Requests
  <2>6. QED
    BY <2>4, <2>5
<1>6. ASSUME NEW r \in Requests, Accept(r)
      PROVE  RecordInv'
  <2>1. PICK c \in Calls, n \in {1, 2} : r = << c, n >>
    BY DEF Requests
  <2>2. UNCHANGED << script, rpc, tasks >>
    BY <1>6 DEF Accept, peerVars, dataVars
  <2>3. Shape'
    BY <1>0, <1>6, <2>2 DEF Accept, Shape, Calls, Requests
  <2>4. request[<< c, n >>].at = "sent" /\ request'[<< c, n >>].at = "reading"
    BY <1>0, <1>6, <2>1 DEF Accept, Shape, NoAnswer
  <2>5. \A k \in {1, 2} : k # n => request'[<< c, k >>] = request[<< c, k >>]
    BY <1>0, <1>6, <2>1 DEF Accept, Shape, Requests
  <2>6. \A k \in {1, 2} : Pending(c, k)' = Pending(c, k)
    BY <2>4, <2>5 DEF Pending
  <2>7. Accounted(c)'
    BY <1>0, <2>2, <2>4, <2>5, <2>6 DEF Accounted
  <2>8. QED
    BY <1>0, <1>1, <1>6, <2>1, <2>2, <2>3, <2>7 DEF Accept, Shape, Requests
<1>7. ASSUME NEW r \in Requests, BodyCutOff(r)
      PROVE  RecordInv'
  <2>1. PICK c \in Calls, n \in {1, 2} : r = << c, n >>
    BY DEF Requests
  <2>2. UNCHANGED << script, rpc, tasks >>
    BY <1>7 DEF BodyCutOff, peerVars, dataVars
  <2>3. Shape'
    BY <1>0, <1>7, <2>2 DEF BodyCutOff, Shape, Calls, Requests
  <2>4. request[<< c, n >>].at = "reading" /\ request'[<< c, n >>].at = "gone"
    BY <1>0, <1>7, <2>1 DEF BodyCutOff, Shape, NoAnswer
  <2>5. \A k \in {1, 2} : k # n => request'[<< c, k >>] = request[<< c, k >>]
    BY <1>0, <1>7, <2>1 DEF BodyCutOff, Shape, Requests
  <2>6. \A k \in {1, 2} : Pending(c, k)' <= Pending(c, k)
    BY <2>4, <2>5 DEF Pending
  <2>7. tasks[c] \in Nat /\ rpc[c].attempt \in Nat
    BY <1>0 DEF Shape
  <2>8. tasks'[c] + Pending(c, 1)' + Pending(c, 2)' <= rpc'[c].attempt
    BY <1>0, <2>2, <2>6, <2>7 DEF Accounted, Pending
  <2>9. Accounted(c)'
    BY <1>0, <2>2, <2>4, <2>5, <2>8 DEF Accounted
  <2>10. QED
    BY <1>0, <1>1, <1>7, <2>1, <2>2, <2>3, <2>9 DEF BodyCutOff, Shape, Requests
\* An answer with or without a task, by Handle and the others.
<1>8. ASSUME NEW c \in Calls, NEW n \in {1, 2}, NEW ok \in BOOLEAN, NEW posts,
             request[<< c, n >>].at = "reading", Answer(<< c, n >>, ok, posts),
             UNCHANGED << script, rpc >>,
             tasks' = [tasks EXCEPT ![c] = IF ok /\ IsMessage(script[c]) THEN @ + 1 ELSE @]
      PROVE  RecordInv'
  <2>1. Shape'
    <3>1. tasks' \in [Calls -> Nat]
      BY <1>0, <1>8 DEF Shape
    <3>2. request' = [r \in Requests |-> request'[r]]
      BY <1>0, <1>8 DEF Answer, Shape
    <3>3. QED
      BY <1>0, <1>8, <3>1, <3>2 DEF Shape, Calls, Requests
  <2>2. /\ tasks[c] \in Nat /\ rpc[c].attempt \in {0, 1, 2}
        /\ tasks'[c] = IF ok /\ IsMessage(script[c]) THEN tasks[c] + 1 ELSE tasks[c]
    BY <1>0, <1>8 DEF Shape
  <2>3. /\ request'[<< c, n >>].at = IF Awaited(<< c, n >>) THEN "answered" ELSE "gone"
        /\ request'[<< c, n >>].ok = (Awaited(<< c, n >>) /\ ok)
    BY <1>0, <1>8 DEF Answer, Shape, Requests, NoAnswer
  <2>4. \A k \in {1, 2} : k # n => request'[<< c, k >>] = request[<< c, k >>]
    BY <1>0, <1>8 DEF Answer, Shape, Requests
  <2>5. Awaited(<< c, n >>) <=> rpc[c].pc = "waiting" /\ rpc[c].attempt = n
    BY DEF Awaited
  <2>6. n <= rpc[c].attempt
    <3>1. n > rpc[c].attempt => request[<< c, n >>].at = "none"
      BY <1>0 DEF Accounted
    <3>2. QED
      BY <1>8, <2>2, <3>1
  <2>7. /\ Pending(c, n) = 1 /\ Pending(c, n)' = 0
        /\ \A k \in {1, 2} : k # n => Pending(c, k)' = Pending(c, k)
    BY <1>8, <2>3, <2>4 DEF Pending
  <2>8. tasks'[c] + Pending(c, 1)' + Pending(c, 2)' <= rpc'[c].attempt
    BY <1>0, <1>8, <2>2, <2>7 DEF Accounted, Pending
  <2>9. rpc[c].attempt = 1 => tasks[c] = 0 /\ n = 1
    BY <1>0, <2>2, <2>6, <2>7 DEF Accounted, Pending
  <2>10. Accounted(c)'
    BY <1>0, <1>8, <2>2, <2>3, <2>4, <2>5, <2>6, <2>8, <2>9 DEF Accounted
  <2>11. QED
    BY <1>0, <1>1, <1>8, <2>1, <2>10 DEF Answer, Shape, Requests
<1>9. ASSUME NEW r \in Requests, Handle(r)
      PROVE  RecordInv'
  <2>1. PICK c \in Calls, n \in {1, 2} : r = << c, n >>
    BY DEF Requests
  <2>2. PICK posts : Answer(<< c, n >>, TRUE, posts)
    BY <1>9, <2>1 DEF Handle
  <2>3. /\ request[<< c, n >>].at = "reading"
        /\ UNCHANGED << script, rpc >>
        /\ IsMessage(script[c])
        /\ tasks' = [tasks EXCEPT ![c] = @ + 1]
    BY <1>9, <2>1 DEF Handle, peerVars
  <2>4. QED
    BY <1>8, <2>2, <2>3
\* No task: a GET request, or an error.
<1>10. ASSUME NEW r \in Requests, ServeFeed(r) \/ ServeCard(r) \/ HandlerFails(r)
       PROVE  RecordInv'
  <2>1. PICK c \in Calls, n \in {1, 2} : r = << c, n >>
    BY DEF Requests
  <2>2. \E ok \in BOOLEAN : \E posts :
          Answer(<< c, n >>, ok, posts) /\ (ok => ~ IsMessage(script[c]))
    BY <1>10, <2>1 DEF ServeFeed, ServeCard, HandlerFails, IsMessage
  <2>3. /\ request[<< c, n >>].at = "reading"
        /\ UNCHANGED << script, rpc, tasks >>
    BY <1>10, <2>1 DEF ServeFeed, ServeCard, HandlerFails, peerVars, dataVars
  <2>4. tasks' = [tasks EXCEPT ![c] = tasks[c]]
    BY <1>0, <2>3 DEF Shape
  <2>5. QED
    BY <1>8, <2>2, <2>3, <2>4
<1>11. CASE Start \/ Listening \/ BindFails \/ ServerClosed \/ SavePost
  BY <1>2, <1>11 DEF Start, Listening, BindFails, ServerClosed, SavePost, peerVars, dataVars
<1>12. ASSUME NEW k \in Stops, Stop(k) \/ CloseServer(k)
       PROVE  RecordInv'
  BY <1>2, <1>12 DEF Stop, CloseServer, peerVars, dataVars
<1>13. CASE UNCHANGED serviceVars
  BY <1>2, <1>13 DEF serviceVars, peerVars, dataVars
<1>14. QED
  BY <1>3, <1>4, <1>5, <1>6, <1>7, <1>9, <1>10, <1>11, <1>12, <1>13
     DEF ServiceNext, AttemptFails, ProbeFails

\* A call that resolves was recorded, never more often than it was sent, and one
\* refused at its first attempt left no task.
THEOREM TasksAccountForCalls == ServiceSpec => []CallsAreRecorded
<1>1. RecordInv => CallsAreRecorded
  <2> SUFFICES ASSUME Shape, NEW c \in Calls, Accounted(c), IsMessage(script[c])
               PROVE  /\ tasks[c] <= rpc[c].attempt
                      /\ rpc[c].pc = "resolved" => tasks[c] >= 1
                      /\ rpc[c].pc = "refused" /\ rpc[c].attempt = 1 => tasks[c] = 0
    BY DEF RecordInv, CallsAreRecorded
  <2>1. tasks[c] \in Nat /\ rpc[c].attempt \in Nat
    BY DEF Shape
  <2>2. tasks[c] + Pending(c, 1) + Pending(c, 2) <= rpc[c].attempt
    BY DEF Accounted
  <2>3. Pending(c, 1) \in {0, 1} /\ Pending(c, 2) \in {0, 1}
    BY DEF Pending
  <2>4. tasks[c] <= rpc[c].attempt
    BY <2>1, <2>2, <2>3
  <2>5. QED
    BY <2>4 DEF Accounted
<1>2. QED
  BY <1>1, RecordInitially, RecordPreserved, PTL DEF ServiceSpec

-----------------------------------------------------------------------------
(* Finite sets of rows *)

\* Two timestamps out of order: what is greater than the one that has fewest
\* above it is nothing.
LEMMA MaxInt ==
  ASSUME NEW S \in SUBSET Int, IsFiniteSet(S), S # {}
  PROVE  Max(S) \in S /\ \A y \in S : y <= Max(S)
<1> DEFINE Above(x) == { y \in S : x < y }
           U == { Above(x) : x \in S }
<1>1. U \subseteq FiniteSubsetsOf(S) /\ U # {}
  <2>1. \A x \in S : Above(x) \in SUBSET S /\ IsFiniteSet(Above(x))
    BY FS_Subset
  <2>2. QED
    BY <2>1 DEF FiniteSubsetsOf
<1>2. PICK u \in U : \A v \in U : << v, u >> \notin StrictSubsetOrdering(S)
  <2> HIDE DEF U
  <2>1. QED
    BY <1>1, FS_StrictSubsetOrderingWellFounded, WFMin
<1>3. PICK x \in S : u = Above(x)
  OBVIOUS
<1>4. \A y \in S : y <= x
  <2> SUFFICES ASSUME NEW y \in S, x < y PROVE FALSE
    OBVIOUS
  <2>1. Above(y) \subseteq Above(x) /\ y \in Above(x) /\ y \notin Above(y)
    <3>1. \A z \in S : y < z => x < z
      OBVIOUS
    <3>2. ~ (y < y)
      OBVIOUS
    <3>3. QED
      BY <3>1, <3>2
  <2>2. Above(x) \in SUBSET S /\ Above(y) \in SUBSET S /\ Above(y) \in U
    OBVIOUS
  <2> HIDE DEF Above, U
  <2>3. << Above(y), Above(x) >> \in StrictSubsetOrdering(S)
    BY <2>1, <2>2 DEF StrictSubsetOrdering
  <2>4. QED
    BY <1>2, <1>3, <2>2, <2>3
<1>5. QED
  <2>1. \E m \in S : \A y \in S : m >= y
    BY <1>4
  <2>2. Max(S) \in S /\ \A y \in S : Max(S) >= y
    BY <2>1 DEF Max
  <2>3. QED
    BY <2>2

\* The greatest timestamp of some rows.
LEMMA MaxOfRows ==
  ASSUME NEW n \in Nat, NEW ids \in SUBSET (1 .. n), NEW table \in Seq(Int), Len(table) >= n,
         NEW since \in Int
  PROVE  LET S == {since} \cup { table[i] : i \in ids }
         IN  Max(S) \in S /\ \A y \in S : y <= Max(S)
<1> DEFINE T == { table[i] : i \in ids }
           image == [i \in ids |-> table[i]]
<1>1. IsFiniteSet(ids)
  <2>1. IsFiniteSet(1 .. n)
    BY FS_Interval
  <2>2. QED
    BY <2>1, FS_Subset
<1>2. image \in Surjection(ids, T)
  BY DEF Surjection
<1>3. IsFiniteSet(T)
  BY <1>1, <1>2, FS_Surjection
<1>4. T \in SUBSET Int
  <2>1. \A i \in ids : table[i] \in Int
    <3>1. ids \subseteq 1 .. Len(table)
      OBVIOUS
    <3>2. QED
      BY <3>1
  <2>2. QED
    BY <2>1
<1> HIDE DEF T
<1>5. IsFiniteSet({since} \cup T)
  BY <1>3, FS_Singleton, FS_Union
<1>6. {since} \cup T \in SUBSET Int /\ {since} \cup T # {}
  BY <1>4
<1>7. Max({since} \cup T) \in {since} \cup T
        /\ \A y \in {since} \cup T : y <= Max({since} \cup T)
  BY <1>5, <1>6, MaxInt
<1>8. QED
  BY <1>7 DEF T

\* What a limit leaves: some of the posts, all of them if they are fewer, and
\* none that is older than one left out.
LEMMA FirstTaken ==
  ASSUME NEW n \in Nat, NEW ids \in SUBSET DOMAIN rows, rows \in Seq(Int),
         NEW some \in First(n, ids)
  PROVE  /\ some \subseteq ids
         /\ IsFiniteSet(some) /\ Cardinality(some) \in Nat /\ Cardinality(some) <= n
         /\ Cardinality(some) # n => some = ids
         /\ \A i \in some, j \in ids \ some : rows[j] <= rows[i]
<1>1. DOMAIN rows = 1 .. Len(rows) /\ Len(rows) \in Nat
  OBVIOUS
<1>2. IsFiniteSet(ids) /\ Cardinality(ids) \in Nat
  <2>1. IsFiniteSet(DOMAIN rows)
    BY <1>1, FS_Interval
  <2>2. QED
    BY <2>1, FS_Subset, FS_CardinalityType
<1>3. /\ some \in SUBSET ids
      /\ Cardinality(some) = IF Cardinality(ids) < n THEN Cardinality(ids) ELSE n
      /\ \A i \in some, j \in ids \ some : rows[j] <= rows[i]
  BY DEF First
<1>4. IsFiniteSet(some) /\ (Cardinality(ids) = Cardinality(some) => ids = some)
  BY <1>2, <1>3, FS_Subset
<1>5. QED
  BY <1>2, <1>3, <1>4

\* An answer to a poll names posts of the table.  If it is shorter than the
\* limit, whatever it leaves out is older than what it was asked for.
LEMMA RequestedPosts ==
  ASSUME ServiceAssumption, rows \in Seq(Int), NEW since \in Nat,
         NEW posts \in PostsRequested(since)
  PROVE  /\ posts \subseteq DOMAIN rows
         /\ Cardinality(posts) # Limit /\ since = 0 => posts = DOMAIN rows
         /\ Cardinality(posts) # Limit /\ since # 0 =>
              \A i \in DOMAIN rows \ posts : rows[i] < since
<1>1. Limit \in Nat /\ MaxPosts \in Nat /\ Limit <= MaxPosts
  BY DEF ServiceAssumption
<1>2. \A i \in DOMAIN rows : rows[i] \in Int
  OBVIOUS
<1>3. CASE since = 0
  <2>1. posts \in First(Limit, DOMAIN rows) /\ DOMAIN rows \in SUBSET DOMAIN rows
    BY <1>3 DEF PostsRequested
  <2>2. QED
    BY <1>1, <1>3, <2>1, FirstTaken
<1>4. CASE since # 0
  <2>1. PICK loaded \in First(MaxPosts, DOMAIN rows) :
          posts \in First(Limit, NotBefore(loaded, since))
    BY <1>4 DEF PostsRequested
  <2>2. /\ loaded \subseteq DOMAIN rows /\ Cardinality(loaded) \in Nat
        /\ Cardinality(loaded) # MaxPosts => loaded = DOMAIN rows
        /\ \A i \in loaded, j \in DOMAIN rows \ loaded : rows[j] <= rows[i]
    <3>1. DOMAIN rows \in SUBSET DOMAIN rows
      OBVIOUS
    <3>2. QED
      BY <1>1, <3>1, FirstTaken
  <2>3. NotBefore(loaded, since) \subseteq loaded
    BY DEF NotBefore
  <2>4. /\ posts \subseteq NotBefore(loaded, since)
        /\ Cardinality(posts) \in Nat /\ Cardinality(posts) <= Limit
        /\ Cardinality(posts) # Limit => posts = NotBefore(loaded, since)
    <3>1. NotBefore(loaded, since) \in SUBSET DOMAIN rows
      BY <2>2, <2>3
    <3>2. QED
      BY <1>1, <2>1, <3>1, FirstTaken
  <2>5. ASSUME Cardinality(posts) # Limit, NEW i \in DOMAIN rows \ posts
        PROVE  rows[i] < since
    <3>1. posts = NotBefore(loaded, since) /\ Cardinality(posts) < MaxPosts
      BY <1>1, <2>4, <2>5
    <3>2. CASE i \in loaded
      BY <1>2, <2>5, <3>1, <3>2 DEF NotBefore
    <3>3. CASE i \notin loaded
      <4>1. Cardinality(loaded) = MaxPosts
        BY <2>2, <2>5, <3>3
      <4>2. PICK j \in loaded : j \notin posts
        <5>1. posts # loaded /\ posts \subseteq loaded
          BY <1>1, <2>3, <3>1, <4>1
        <5>2. QED
          BY <5>1
      <4>3. rows[j] < since /\ rows[j] \in Int
        BY <1>2, <2>2, <3>1, <4>2 DEF NotBefore
      <4>4. rows[i] <= rows[j] /\ rows[i] \in Int
        BY <1>2, <2>2, <2>5, <3>3
      <4>5. QED
        BY <4>3, <4>4
    <3>4. QED
      BY <3>2, <3>3
  <2>6. QED
    BY <1>4, <2>2, <2>3, <2>4, <2>5
<1>5. QED
  BY <1>3, <1>4

-----------------------------------------------------------------------------
(* Type correctness *)

\* The peer's calls are made in turn.
OneAtATime == \A c, d \in Calls : d < c /\ rpc[c].pc # "new" => Over(d)

\* A call that was answered at its first attempt has nothing under way.
Settled ==
  \A c \in Calls : rpc[c].pc \in {"resolved", "refused"} /\ rpc[c].attempt = 1
    => request[<< c, 1 >>].at = "gone"

\* An answer names posts that there were when it was made.
AnswersInRange ==
  \A r \in Requests : request[r].at = "answered" =>
    request[r].posts \subseteq 1 .. request[r].upTo /\ request[r].upTo <= Len(rows)

PeerInv ==
  /\ PeerTypeOK
  /\ RecordInv
  /\ OneAtATime
  /\ Settled
  /\ AnswersInRange

\* Calls are told apart by their place in the script.
LEMMA CallsAreNumbers == ServiceAssumption /\ script \in Scripts => Calls \subseteq Nat
<1> SUFFICES ASSUME ServiceAssumption, script \in Scripts PROVE Calls \subseteq Nat
  OBVIOUS
<1>1. script \in Seq(Kinds)
  BY DEF ServiceAssumption
<1>2. QED
  BY <1>1 DEF Calls

\* At most as many tasks as attempts.
TasksInRange == tasks \in [Calls -> 0 .. 2]

LEMMA TasksBounded == RecordInv => TasksInRange
<1> SUFFICES ASSUME RecordInv PROVE tasks \in [Calls -> 0 .. 2]
  BY DEF TasksInRange
<1>1. ASSUME NEW c \in Calls
      PROVE  tasks[c] \in 0 .. 2
  <2>1. tasks[c] \in Nat /\ rpc[c].attempt \in {0, 1, 2}
    BY DEF RecordInv, Shape
  <2>2. tasks[c] + Pending(c, 1) + Pending(c, 2) <= rpc[c].attempt
    BY DEF RecordInv, Accounted
  <2>3. Pending(c, 1) \in {0, 1} /\ Pending(c, 2) \in {0, 1}
    BY DEF Pending
  <2>4. QED
    BY <2>1, <2>2, <2>3
<1>2. QED
  BY <1>1 DEF RecordInv, Shape

LEMMA TasksThen == RecordInv' => TasksInRange'
BY TasksBounded, PTL

\* No timestamp is zero: that stands for none.
LEMMA SavedAt ==
  ASSUME rows \in Seq(Nat \ {0}), SavePost
  PROVE  \E at \in Nat \ {0} : rows' = Append(rows, at)
<1>1. Newest \in Nat \ {0}
  <2> DEFINE T == { rows[i] : i \in DOMAIN rows }
             ids == DOMAIN rows
             image == [i \in ids |-> rows[i]]
  <2>1. CASE rows = << >>
    BY <2>1 DEF Newest
  <2>2. CASE rows # << >>
    <3>1. ids = 1 .. Len(rows) /\ Len(rows) \in Nat /\ \A i \in ids : rows[i] \in Nat \ {0}
      OBVIOUS
    <3>2. 1 \in ids
      BY <2>2, <3>1
    <3>3. IsFiniteSet(ids)
      BY <3>1, FS_Interval
    <3>4. image \in Surjection(ids, T)
      BY DEF Surjection
    <3>5. IsFiniteSet(T)
      BY <3>3, <3>4, FS_Surjection
    <3>6. T \in SUBSET (Nat \ {0}) /\ T # {}
      BY <3>1, <3>2
    <3> HIDE DEF T
    <3>7. T \in SUBSET Int
      BY <3>6
    <3>8. Max(T) \in T
      BY <3>5, <3>6, <3>7, MaxInt
    <3>9. QED
      BY <2>2, <3>6, <3>8 DEF Newest, T
  <2>3. QED
    BY <2>1, <2>2
<1>2. PICK at \in {Newest - 1, Newest, Newest + 1} \ {0} : rows' = Append(rows, at)
  BY DEF SavePost
<1>3. at \in Nat \ {0}
  BY <1>1
<1>4. QED
  BY <1>2, <1>3

LEMMA PeerInitially == ServiceInit => PeerInv
<1> SUFFICES ASSUME ServiceInit PROVE PeerInv
  OBVIOUS
<1>1. PeerTypeOK
  <2>1. /\ rpc \in [Calls -> [pc : {"new", "waiting", "resolved", "refused", "failed"},
                              attempt : 0 .. 2]]
        /\ tasks \in [Calls -> 0 .. 2]
    BY DEF ServiceInit
  <2>2. /\ request \in [Requests -> Request]
        /\ \A c \in Calls, n \in {1, 2} :
             request[c, n].at = "none" /\ rpc[c].attempt = 0
    BY DEF ServiceInit, Request, NoAnswer, Requests
  <2>3. poller \in Poller /\ poller.seen = {} /\ poller.upTo = 0
    BY DEF ServiceInit, Poller
  <2>4. rows = << >> /\ rows \in Seq(Nat \ {0}) /\ Len(rows) = 0
    BY DEF ServiceInit
  <2>5. /\ service \in [started : BOOLEAN, open : BOOLEAN]
        /\ stop \in [Stops -> {"idle", "flushing", "closing", "late", "done", "released",
                               "rejected"}]
    BY DEF ServiceInit
  <2>6. \A c \in Calls, n \in {1, 2} : request[c, n].at # "none" <=> n <= rpc[c].attempt
    <3>1. \A n \in {1, 2} : ~ n <= 0
      OBVIOUS
    <3>2. QED
      BY <2>2, <3>1
  <2>7. poller.seen \subseteq DOMAIN rows /\ poller.upTo <= Len(rows)
    BY <2>3, <2>4
  <2>8. /\ script \in Scripts /\ follows \subseteq {Me, Peer} \X {Me, Peer}
        /\ socket \in {"new", "binding", "listening", "closing", "closed"}
    BY DEF ServiceInit
  <2>9. QED
    BY <2>1, <2>2, <2>3, <2>4, <2>5, <2>6, <2>7, <2>8 DEF PeerTypeOK
<1>2. OneAtATime /\ Settled /\ AnswersInRange
  BY DEF ServiceInit, OneAtATime, Settled, AnswersInRange, NoAnswer
<1>3. QED
  BY <1>1, <1>2, RecordInitially DEF PeerInv

\* A step of the service's life.
LEMMA LifeSteps ==
  ASSUME PeerInv, RecordInv', UNCHANGED << peerVars, dataVars, request >>,
         \/ Start \/ Listening \/ BindFails \/ ServerClosed
         \/ \E k \in Stops : Stop(k) \/ CloseServer(k)
  PROVE  PeerInv'
<1>1. UNCHANGED << script, rpc, poller, follows, rows, tasks, request >>
  BY DEF peerVars, dataVars
<1>2. /\ service' \in [started : BOOLEAN, open : BOOLEAN]
      /\ socket' \in {"new", "binding", "listening", "closing", "closed"}
      /\ stop' \in [Stops -> {"idle", "flushing", "closing", "late", "done", "released",
                              "rejected"}]
  <2>1. CASE Start \/ Listening \/ BindFails
    BY <2>1 DEF Start, Listening, BindFails, PeerInv, PeerTypeOK
  <2>2. CASE ServerClosed
    BY <2>2 DEF ServerClosed, PeerInv, PeerTypeOK
  <2>3. ASSUME NEW k \in Stops, Stop(k)
        PROVE  <1>2!1 /\ <1>2!2 /\ <1>2!3
    BY <2>3 DEF Stop, PeerInv, PeerTypeOK
  <2>4. ASSUME NEW k \in Stops, CloseServer(k)
        PROVE  <1>2!1 /\ <1>2!2 /\ <1>2!3
    BY <2>4 DEF CloseServer, PeerInv, PeerTypeOK
  <2>5. QED
    BY <2>1, <2>2, <2>3, <2>4
<1>3. PeerTypeOK'
  BY <1>1, <1>2 DEF PeerInv, PeerTypeOK, Calls, Requests
<1>4. OneAtATime' /\ Settled' /\ AnswersInRange'
  BY <1>1 DEF PeerInv, OneAtATime, Over, Settled, AnswersInRange, Calls, Requests
<1>5. QED
  BY <1>3, <1>4 DEF PeerInv

\* A step of one request, from one place to another.
LEMMA RequestSteps ==
  ASSUME PeerInv, RecordInv', NEW r \in Requests, NEW answer \in Request,
         request' = [request EXCEPT ![r] = answer],
         request[r].at \notin {"none", "gone"}, answer.at # "none",
         answer.at = "answered" =>
           answer.posts \subseteq 1 .. answer.upTo /\ answer.upTo <= Len(rows),
         UNCHANGED << peerVars, lifeVars, rows >>,
         follows' \subseteq {Me, Peer} \X {Me, Peer}
  PROVE  PeerInv'
<1>1. UNCHANGED << script, rpc, poller, service, socket, stop, rows >>
  BY DEF peerVars, lifeVars
<1>2. Calls' = Calls /\ Requests' = Requests
  BY <1>1 DEF Calls, Requests
<1>3. /\ request' \in [Requests -> Request] /\ request'[r] = answer
      /\ \A q \in Requests : q # r => request'[q] = request[q]
  BY DEF PeerInv, PeerTypeOK
<1>4. \A c \in Calls, n \in {1, 2} : << c, n >> \in Requests
  BY DEF Requests
<1>5. \A c \in Calls, n \in {1, 2} :
        request'[c, n].at = "none" <=> request[c, n].at = "none"
  BY <1>3, <1>4
<1>6. PeerTypeOK'
  <2>1. tasks' \in [Calls -> 0 .. 2]
    BY <1>2, TasksThen DEF TasksInRange
  <2>2. \A c \in Calls, n \in {1, 2} : request'[c, n].at # "none" <=> n <= rpc'[c].attempt
    BY <1>1, <1>5 DEF PeerInv, PeerTypeOK
  <2>3. QED
    BY <1>1, <1>2, <1>3, <2>1, <2>2 DEF PeerInv, PeerTypeOK
<1>7. OneAtATime'
  BY <1>1, <1>2 DEF PeerInv, OneAtATime, Over
<1>8. Settled'
  <2>1. \A q \in Requests : request[q].at = "gone" => request'[q].at = "gone"
    BY <1>3
  <2>2. QED
    BY <1>1, <1>2, <1>4, <2>1 DEF PeerInv, Settled
<1>9. AnswersInRange'
  BY <1>1, <1>2, <1>3 DEF PeerInv, AnswersInRange
<1>10. QED
  BY <1>6, <1>7, <1>8, <1>9 DEF PeerInv

\* What the peer has after an answer to a poll.
LEMMA PollerWithAnswer ==
  ASSUME rows \in Seq(Nat \ {0}), poller \in Poller, NEW answer \in Request,
         answer.posts \subseteq 1 .. answer.upTo, answer.upTo <= Len(rows)
  PROVE  LET then == WithAnswer(answer)
         IN  /\ then \in Poller
             /\ then.seen = poller.seen \cup answer.posts
             /\ then.upTo = answer.upTo
             /\ then.full <=> poller.full \/ Cardinality(answer.posts) = Limit
             /\ poller.since <= then.since
             /\ \A i \in answer.posts : rows[i] <= then.since
             /\ then.since # poller.since => \E i \in answer.posts : rows[i] = then.since
<1> DEFINE S == {poller.since} \cup { rows[i] : i \in answer.posts }
<1>1. /\ poller.since \in Nat /\ answer.upTo \in Nat
      /\ poller.seen \in SUBSET Nat /\ answer.posts \in SUBSET Nat
  BY DEF Poller, Request
<1>2. rows \in Seq(Int) /\ \A i \in 1 .. Len(rows) : rows[i] \in Nat \ {0}
  OBVIOUS
<1>3. answer.posts \subseteq 1 .. Len(rows)
  BY <1>1
<1>4. Max(S) \in S /\ \A y \in S : y <= Max(S)
  <2> DEFINE m == answer.upTo
             ids == answer.posts
             first == poller.since
  <2>1. m \in Nat /\ ids \in SUBSET (1 .. m) /\ Len(rows) >= m /\ first \in Int
    BY <1>1
  <2> HIDE DEF m, ids, first
  <2>2. LET T == {first} \cup { rows[i] : i \in ids }
        IN  Max(T) \in T /\ \A y \in T : y <= Max(T)
    BY <1>2, <2>1, MaxOfRows
  <2>3. QED
    BY <2>2 DEF first, ids
<1>5. Max(S) \in Nat
  BY <1>1, <1>2, <1>3, <1>4
<1> DEFINE then == WithAnswer(answer)
<1>6. /\ then.since = Max(S) /\ then.seen = poller.seen \cup answer.posts
      /\ then.upTo = answer.upTo
      /\ then.full = (poller.full \/ Cardinality(answer.posts) = Limit)
      /\ then = [since |-> then.since, seen |-> then.seen, upTo |-> then.upTo, full |-> then.full]
  BY DEF WithAnswer
<1>7. then \in Poller
  <2>1. then.since \in Nat /\ then.seen \in SUBSET Nat /\ then.upTo \in Nat /\ then.full \in BOOLEAN
    BY <1>1, <1>5, <1>6
  <2> HIDE DEF then
  <2>2. QED
    BY <1>6, <2>1 DEF Poller
<1> HIDE DEF then
<1>8. poller.since <= then.since /\ \A i \in answer.posts : rows[i] <= then.since
  BY <1>4, <1>6
<1>9. then.since # poller.since => \E i \in answer.posts : rows[i] = then.since
  BY <1>4, <1>6
<1>10. QED
  BY <1>6, <1>7, <1>8, <1>9 DEF then

LEMMA BeginStep ==
  ASSUME PeerInv, RecordInv', ServiceAssumption, NEW c \in Calls, Begin(c)
  PROVE  PeerInv'
<1>1. UNCHANGED << script, poller, service, socket, stop, follows, rows, tasks >>
  BY DEF Begin, lifeVars, dataVars
<1>2. Calls' = Calls /\ Requests' = Requests
  BY <1>1 DEF Calls, Requests
<1>3. /\ rpc[c].pc = "new" /\ rpc[c].attempt = 0
      /\ \A n \in {1, 2} : n > 0 => request[<< c, n >>].at = "none"
  BY DEF Begin, PeerInv, RecordInv, Accounted
<1>4. /\ rpc'[c] = [pc |-> "waiting", attempt |-> 1]
      /\ \A d \in Calls : d # c => rpc'[d] = rpc[d]
      /\ rpc' \in [Calls -> [pc : {"new", "waiting", "resolved", "refused", "failed"},
                             attempt : 0 .. 2]]
  <2>1. [pc |-> "waiting", attempt |-> 1] \in
          [pc : {"new", "waiting", "resolved", "refused", "failed"}, attempt : 0 .. 2]
    OBVIOUS
  <2>2. QED
    BY <2>1 DEF Begin, PeerInv, PeerTypeOK
<1>5. \A d \in Calls, n \in {1, 2} : << d, n >> \in Requests
  BY DEF Requests
<1>6. /\ NoAnswer("sent") \in Request /\ NoAnswer("sent").at = "sent"
      /\ request' \in [Requests -> Request]
      /\ request'[<< c, 1 >>] = NoAnswer("sent")
      /\ \A r \in Requests : r # << c, 1 >> => request'[r] = request[r]
  <2>1. NoAnswer("sent") \in Request /\ NoAnswer("sent").at = "sent"
    BY DEF NoAnswer, Request
  <2>2. QED
    BY <1>5, <2>1 DEF Begin, PeerInv, PeerTypeOK
<1>7. PeerTypeOK'
  <2>1. tasks' \in [Calls -> 0 .. 2]
    BY <1>2, TasksThen DEF TasksInRange
  <2>2. ASSUME NEW d \in Calls, NEW n \in {1, 2}
        PROVE  request'[d, n].at # "none" <=> n <= rpc'[d].attempt
    <3>1. CASE d = c
      <4>1. request'[<< c, 1 >>].at # "none" /\ request'[<< c, 2 >>].at = "none"
        BY <1>3, <1>5, <1>6
      <4>2. \A k \in {1, 2} : k <= 1 <=> k = 1
        OBVIOUS
      <4>3. rpc'[d].attempt = 1
        BY <1>4, <3>1
      <4>4. request'[d, n].at # "none" <=> n = 1
        BY <3>1, <4>1
      <4>5. QED
        BY <4>2, <4>3, <4>4
    <3>2. CASE d # c
      <4>1. request'[<< d, n >>] = request[<< d, n >>] /\ rpc'[d] = rpc[d]
        BY <1>4, <1>5, <1>6, <3>2
      <4>2. request[d, n].at # "none" <=> n <= rpc[d].attempt
        BY DEF PeerInv, PeerTypeOK
      <4>3. QED
        BY <4>1, <4>2
    <3>3. QED
      BY <3>1, <3>2
  <2>3. QED
    BY <1>1, <1>2, <1>4, <1>6, <2>1, <2>2 DEF PeerInv, PeerTypeOK
<1>8. OneAtATime'
  <2>1. ASSUME NEW d \in Calls, NEW e \in Calls, e < d, rpc'[d].pc # "new"
        PROVE  Over(e)'
    <3>1. Over(e)
      <4>1. d = c => Over(e)
        BY <2>1 DEF Begin
      <4>2. d # c => Over(e)
        BY <1>4, <2>1 DEF PeerInv, OneAtATime
      <4>3. QED
        BY <4>1, <4>2
    <3>2. e # c
      BY <1>3, <3>1 DEF Over
    <3>3. QED
      BY <1>4, <3>1, <3>2 DEF Over
  <2>2. QED
    BY <1>2, <2>1 DEF OneAtATime
<1>9. Settled'
  <2>1. ASSUME NEW d \in Calls, rpc'[d].pc \in {"resolved", "refused"}, rpc'[d].attempt = 1
        PROVE  request'[<< d, 1 >>].at = "gone"
    <3>1. d # c
      BY <1>4, <2>1
    <3>2. QED
      BY <1>4, <1>5, <1>6, <2>1, <3>1 DEF PeerInv, Settled
  <2>2. QED
    BY <1>2, <2>1 DEF Settled
<1>10. AnswersInRange'
  BY <1>1, <1>2, <1>5, <1>6 DEF PeerInv, AnswersInRange
<1>11. QED
  BY <1>7, <1>8, <1>9, <1>10 DEF PeerInv

LEMMA ReceiveStep ==
  ASSUME PeerInv, RecordInv', NEW c \in Calls, Receive(c)
  PROVE  /\ PeerInv'
         /\ << c, rpc[c].attempt >> \in Requests /\ rpc[c].pc = "waiting"
         /\ \A d \in Calls : d # c => rpc'[d] = rpc[d]
         /\ rpc'[c].pc \in {"resolved", "refused"} /\ rpc'[c].attempt = rpc[c].attempt
         /\ request'[<< c, rpc[c].attempt >>].at = "gone"
         /\ \A r \in Requests : r # << c, rpc[c].attempt >> => request'[r] = request[r]
<1> DEFINE n == rpc[c].attempt
           answer == request[c, n]
<1>1. UNCHANGED << script, service, socket, stop, follows, rows, tasks >>
  BY DEF Receive, lifeVars, dataVars
<1>2. Calls' = Calls /\ Requests' = Requests
  BY <1>1 DEF Calls, Requests
<1>3. n \in {1, 2} /\ rpc[c].pc = "waiting" /\ answer.at = "answered"
  <2>1. rpc[c].pc = "waiting" /\ answer.at = "answered"
    BY DEF Receive
  <2>2. n \in {0, 1, 2} /\ n # 0
    BY <2>1 DEF PeerInv, RecordInv, Shape, Accounted
  <2>3. QED
    BY <2>1, <2>2
<1>4. \A d \in Calls, m \in {1, 2} : << d, m >> \in Requests
  BY DEF Requests
<1>5. /\ rpc' = [rpc EXCEPT ![c].pc = IF answer.ok THEN "resolved" ELSE "refused"]
      /\ request' = [request EXCEPT ![<< c, n >>] = NoAnswer("gone")]
  BY DEF Receive
<1>6. /\ rpc'[c].attempt = n /\ rpc'[c].pc \in {"resolved", "refused"}
      /\ \A d \in Calls : d # c => rpc'[d] = rpc[d]
      /\ rpc' \in [Calls -> [pc : {"new", "waiting", "resolved", "refused", "failed"},
                             attempt : 0 .. 2]]
  BY <1>5 DEF PeerInv, PeerTypeOK
<1>7. /\ NoAnswer("gone") \in Request /\ NoAnswer("gone").at = "gone"
      /\ request' \in [Requests -> Request]
      /\ request'[<< c, n >>] = NoAnswer("gone")
      /\ \A r \in Requests : r # << c, n >> => request'[r] = request[r]
  <2>1. NoAnswer("gone") \in Request /\ NoAnswer("gone").at = "gone"
    BY DEF NoAnswer, Request
  <2>2. QED
    BY <1>3, <1>4, <1>5, <2>1 DEF PeerInv, PeerTypeOK
<1>8. /\ poller' \in Poller
      /\ poller'.seen \subseteq DOMAIN rows /\ poller'.upTo <= Len(rows)
  <2>1. answer \in Request /\ answer.posts \subseteq 1 .. answer.upTo /\ answer.upTo <= Len(rows)
    BY <1>3, <1>4 DEF PeerInv, PeerTypeOK, AnswersInRange
  <2>2. /\ rows \in Seq(Nat \ {0}) /\ poller \in Poller
        /\ poller.seen \subseteq DOMAIN rows /\ poller.upTo <= Len(rows)
    BY DEF PeerInv, PeerTypeOK
  <2>3. WithAnswer(answer) \in Poller
          /\ WithAnswer(answer).seen = poller.seen \cup answer.posts
          /\ WithAnswer(answer).upTo = answer.upTo
    BY <2>1, <2>2, PollerWithAnswer
  <2>4. answer.posts \subseteq DOMAIN rows
    <3> HIDE DEF answer
    <3>1. answer.upTo \in Nat /\ Len(rows) \in Nat /\ DOMAIN rows = 1 .. Len(rows)
      BY <2>1, <2>2 DEF Request
    <3>2. QED
      BY <2>1, <3>1
  <2>5. poller' = poller \/ poller' = WithAnswer(answer)
    BY DEF Receive
  <2> HIDE DEF answer
  <2>6. QED
    BY <2>1, <2>2, <2>3, <2>4, <2>5
<1>9. PeerTypeOK'
  <2>1. tasks' \in [Calls -> 0 .. 2]
    BY <1>2, TasksThen DEF TasksInRange
  <2>2. \A d \in Calls : rpc'[d].attempt = rpc[d].attempt
    BY <1>6
  <2>3. \A d \in Calls, m \in {1, 2} : request'[d, m].at = "none" <=> request[d, m].at = "none"
    BY <1>3, <1>4, <1>7
  <2>4. \A d \in Calls, m \in {1, 2} : request'[d, m].at # "none" <=> m <= rpc'[d].attempt
    BY <2>2, <2>3 DEF PeerInv, PeerTypeOK
  <2>5. QED
    BY <1>1, <1>2, <1>6, <1>7, <1>8, <2>1, <2>4 DEF PeerInv, PeerTypeOK
<1>10. OneAtATime'
  BY <1>2, <1>3, <1>6 DEF PeerInv, OneAtATime, Over
<1>11. Settled'
  <2>1. ASSUME NEW d \in Calls, rpc'[d].pc \in {"resolved", "refused"}, rpc'[d].attempt = 1
        PROVE  request'[<< d, 1 >>].at = "gone"
    <3>1. CASE d = c
      BY <1>6, <1>7, <2>1, <3>1
    <3>2. CASE d # c
      BY <1>4, <1>6, <1>7, <2>1, <3>2 DEF PeerInv, Settled
    <3>3. QED
      BY <3>1, <3>2
  <2>2. QED
    BY <1>2, <2>1 DEF Settled
<1>12. AnswersInRange'
  BY <1>1, <1>2, <1>7 DEF PeerInv, AnswersInRange
<1>13. QED
  BY <1>3, <1>4, <1>6, <1>7, <1>9, <1>10, <1>11, <1>12 DEF PeerInv

LEMMA NextAttemptStep ==
  ASSUME PeerInv, RecordInv', NEW c \in Calls, NextAttempt(c)
  PROVE  /\ PeerInv'
         /\ rpc[c].pc = "waiting"
         /\ \A d \in Calls : d # c => rpc'[d] = rpc[d]
         /\ rpc'[c].pc \in {"waiting", "failed"}
         /\ rpc'[c].pc = "waiting" => rpc'[c].attempt = 2
         /\ \A r \in Requests : request'[r].at = "answered" => request'[r] = request[r]
<1> DEFINE n == rpc[c].attempt
<1>1. UNCHANGED << script, poller, service, socket, stop, follows, rows, tasks >>
  BY DEF NextAttempt, lifeVars, dataVars
<1>2. Calls' = Calls /\ Requests' = Requests
  BY <1>1 DEF Calls, Requests
<1>3. n \in {1, 2} /\ rpc[c].pc = "waiting"
  <2>1. rpc[c].pc = "waiting"
    BY DEF NextAttempt
  <2>2. n \in {0, 1, 2} /\ n # 0
    BY <2>1 DEF PeerInv, RecordInv, Shape, Accounted
  <2>3. QED
    BY <2>1, <2>2
<1>4. \A d \in Calls, m \in {1, 2} : << d, m >> \in Requests
  BY DEF Requests
<1>5. \A d \in Calls, m \in {1, 2} : request[<< d, m >>].at # "none" <=> m <= rpc[d].attempt
  BY DEF PeerInv, PeerTypeOK
<1>6. /\ NoAnswer("gone") \in Request /\ NoAnswer("gone").at = "gone"
      /\ NoAnswer("sent") \in Request /\ NoAnswer("sent").at = "sent"
  BY DEF NoAnswer, Request
<1>7. /\ GivenUp(<< c, n >>) \in Request
      /\ GivenUp(<< c, n >>).at \notin {"none", "answered"}
  <2>1. request[<< c, n >>] \in Request /\ request[<< c, n >>].at # "none"
    <3>1. \A k \in {1, 2} : k <= k
      OBVIOUS
    <3>2. QED
      BY <1>3, <1>4, <1>5, <3>1 DEF PeerInv, PeerTypeOK
  <2>2. QED
    BY <1>6, <2>1 DEF GivenUp
<1> HIDE DEF n
<1>8. /\ \A d \in Calls : d # c => rpc'[d] = rpc[d]
      /\ rpc' \in [Calls -> [pc : {"new", "waiting", "resolved", "refused", "failed"},
                             attempt : 0 .. 2]]
      /\ \/ /\ n = 1 /\ rpc'[c].pc = "waiting" /\ rpc'[c].attempt = 2
            /\ request' = [request EXCEPT ![<< c, 1 >>] = GivenUp(<< c, 1 >>),
                                          ![<< c, 2 >>] = NoAnswer("sent")]
         \/ /\ rpc'[c].pc = "failed" /\ rpc'[c].attempt = n
            /\ request' = [request EXCEPT ![<< c, n >>] = GivenUp(<< c, n >>)]
  <2>1. Attempts(c) \in {1, 2}
    BY DEF Attempts
  <2>2. CASE n < Attempts(c)
    <3>1. n = 1
      BY <1>3, <2>1, <2>2
    <3>2. /\ rpc' = [rpc EXCEPT ![c].attempt = 2]
          /\ request' = [request EXCEPT ![<< c, 1 >>] = GivenUp(<< c, 1 >>),
                                        ![<< c, 2 >>] = NoAnswer("sent")]
      BY <2>2, <3>1 DEF NextAttempt, n
    <3>3. /\ rpc'[c] = [rpc[c] EXCEPT !.attempt = 2]
          /\ \A d \in Calls : d # c => rpc'[d] = rpc[d]
          /\ rpc' \in [Calls -> [pc : {"new", "waiting", "resolved", "refused", "failed"},
                                 attempt : 0 .. 2]]
      <4> DEFINE Rpc == [pc : {"new", "waiting", "resolved", "refused", "failed"},
                         attempt : 0 .. 2]
                 one == [rpc[c] EXCEPT !.attempt = 2]
      <4>1. rpc \in [Calls -> Rpc]
        BY DEF PeerInv, PeerTypeOK
      <4>2. one \in Rpc
        BY <4>1
      <4>3. rpc' = [rpc EXCEPT ![c] = one]
        BY <3>2
      <4> HIDE DEF Rpc, one
      <4>4. rpc' \in [Calls -> Rpc] /\ rpc'[c] = one /\ \A d \in Calls : d # c => rpc'[d] = rpc[d]
        BY <4>1, <4>2, <4>3
      <4>5. QED
        BY <4>4 DEF Rpc, one
    <3>4. rpc'[c].pc = "waiting" /\ rpc'[c].attempt = 2
      BY <1>3, <3>3 DEF PeerInv, PeerTypeOK
    <3>5. QED
      BY <3>1, <3>2, <3>3, <3>4
  <2>3. CASE ~ n < Attempts(c)
    <3>1. /\ rpc' = [rpc EXCEPT ![c].pc = "failed"]
          /\ request' = [request EXCEPT ![<< c, n >>] = GivenUp(<< c, n >>)]
      BY <2>3 DEF NextAttempt, n
    <3>2. QED
      BY <3>1 DEF PeerInv, PeerTypeOK, n
  <2>4. QED
    BY <2>2, <2>3
<1>9. request \in [Requests -> Request]
  BY DEF PeerInv, PeerTypeOK
<1>10. /\ request' \in [Requests -> Request]
       /\ \A r \in Requests : request'[r].at = "answered" => request'[r] = request[r]
       /\ \A d \in Calls, m \in {1, 2} : d # c => request'[<< d, m >>] = request[<< d, m >>]
       /\ \A m \in {1, 2} : request'[<< c, m >>].at # "none" <=> m <= rpc'[c].attempt
  <2>1. CASE /\ n = 1 /\ rpc'[c].attempt = 2
             /\ request' = [request EXCEPT ![<< c, 1 >>] = GivenUp(<< c, 1 >>),
                                           ![<< c, 2 >>] = NoAnswer("sent")]
    <3>1. /\ request'[<< c, 1 >>] = GivenUp(<< c, 1 >>)
          /\ request'[<< c, 2 >>] = NoAnswer("sent")
          /\ \A r \in Requests : r \notin {<< c, 1 >>, << c, 2 >>} => request'[r] = request[r]
          /\ request' \in [Requests -> Request]
      BY <1>4, <1>6, <1>7, <1>9, <2>1
    <3>2. \A m \in {1, 2} : m <= 2
      OBVIOUS
    <3>3. QED
      BY <1>4, <1>6, <1>7, <2>1, <3>1, <3>2
  <2>2. CASE /\ rpc'[c].attempt = n
             /\ request' = [request EXCEPT ![<< c, n >>] = GivenUp(<< c, n >>)]
    <3>1. /\ request'[<< c, n >>] = GivenUp(<< c, n >>)
          /\ \A r \in Requests : r # << c, n >> => request'[r] = request[r]
          /\ request' \in [Requests -> Request]
      BY <1>3, <1>4, <1>7, <1>9, <2>2 DEF n
    <3>2. request[<< c, n >>].at # "none"
      <4>1. \A k \in {1, 2} : k <= k
        OBVIOUS
      <4>2. QED
        BY <1>3, <1>5, <4>1 DEF n
    <3>3. \A m \in {1, 2} : request'[<< c, m >>].at = "none" <=> request[<< c, m >>].at = "none"
      BY <1>4, <1>7, <3>1, <3>2
    <3>4. \A m \in {1, 2} : request'[<< c, m >>].at # "none" <=> m <= rpc'[c].attempt
      BY <1>5, <2>2, <3>3 DEF n
    <3>5. QED
      BY <1>4, <1>7, <3>1, <3>4
  <2>3. QED
    BY <1>8, <2>1, <2>2
<1>11. PeerTypeOK'
  <2>1. tasks' \in [Calls -> 0 .. 2]
    BY <1>2, TasksThen DEF TasksInRange
  <2>2. \A d \in Calls, m \in {1, 2} : request'[d, m].at # "none" <=> m <= rpc'[d].attempt
    <3> SUFFICES ASSUME NEW d \in Calls, NEW m \in {1, 2}
                 PROVE  request'[d, m].at # "none" <=> m <= rpc'[d].attempt
      OBVIOUS
    <3>1. CASE d = c
      BY <1>10, <3>1
    <3>2. CASE d # c
      <4>1. request'[<< d, m >>] = request[<< d, m >>] /\ rpc'[d] = rpc[d]
        BY <1>8, <1>10, <3>2
      <4>2. QED
        BY <1>5, <4>1
    <3>3. QED
      BY <3>1, <3>2
  <2>3. QED
    BY <1>1, <1>2, <1>8, <1>10, <2>1, <2>2 DEF PeerInv, PeerTypeOK
<1>12. OneAtATime'
  <2>1. ~ Over(c) /\ rpc[c].pc # "new"
    BY <1>3 DEF Over
  <2>2. \A d \in Calls : Over(d) => Over(d)'
    BY <1>8, <2>1 DEF Over
  <2>3. \A d \in Calls : rpc'[d].pc # "new" => rpc[d].pc # "new"
    BY <1>8, <2>1
  <2>4. QED
    BY <1>2, <2>2, <2>3 DEF PeerInv, OneAtATime
<1>13. Settled'
  BY <1>2, <1>8, <1>10 DEF PeerInv, Settled
<1>14. AnswersInRange'
  BY <1>1, <1>2, <1>10 DEF PeerInv, AnswersInRange
<1>15. QED
  BY <1>3, <1>8, <1>10, <1>11, <1>12, <1>13, <1>14 DEF PeerInv

\* Answers, the peer's posts and the table, each by its parts.
LEMMA Parts ==
  ASSUME PeerInv
  PROVE  /\ poller \in Poller /\ poller.since \in Nat /\ poller.upTo \in Nat
         /\ poller.seen \subseteq DOMAIN rows /\ poller.upTo <= Len(rows)
         /\ rows \in Seq(Nat \ {0}) /\ Len(rows) \in Nat /\ DOMAIN rows = 1 .. Len(rows)
         /\ \A r \in Requests : request[r] \in Request /\ request[r].upTo \in Nat
<1>1. /\ poller \in Poller /\ rows \in Seq(Nat \ {0})
      /\ poller.seen \subseteq DOMAIN rows /\ poller.upTo <= Len(rows)
      /\ request \in [Requests -> Request]
  BY DEF PeerInv, PeerTypeOK
<1>2. poller.since \in Nat /\ poller.upTo \in Nat
  BY <1>1 DEF Poller
<1>3. Len(rows) \in Nat /\ DOMAIN rows = 1 .. Len(rows)
  BY <1>1
<1>4. \A r \in Requests : request[r] \in Request /\ request[r].upTo \in Nat
  BY <1>1 DEF Request
<1>5. QED
  BY <1>1, <1>2, <1>3, <1>4

\* A row more changes no row there was.
LEMMA RowAdded ==
  ASSUME rows \in Seq(Nat \ {0}), SavePost
  PROVE  /\ rows' \in Seq(Nat \ {0})
         /\ Len(rows') = Len(rows) + 1
         /\ DOMAIN rows \subseteq DOMAIN rows'
         /\ \A i \in DOMAIN rows : rows'[i] = rows[i]
<1>1. PICK at \in Nat \ {0} : rows' = Append(rows, at)
  BY SavedAt
<1>2. QED
  BY <1>1

LEMMA SavePostStep ==
  ASSUME PeerInv, RecordInv', SavePost
  PROVE  PeerInv'
<1>1. UNCHANGED << script, rpc, poller, service, socket, stop, request, follows, tasks >>
  BY DEF SavePost, peerVars, lifeVars
<1>2. Calls' = Calls /\ Requests' = Requests
  BY <1>1 DEF Calls, Requests
<1>3. /\ rows \in Seq(Nat \ {0}) /\ rows' \in Seq(Nat \ {0})
      /\ Len(rows') = Len(rows) + 1 /\ DOMAIN rows \subseteq DOMAIN rows'
  BY RowAdded DEF PeerInv, PeerTypeOK
<1>4. PeerTypeOK'
  <2>1. poller.seen \subseteq DOMAIN rows' /\ poller.upTo <= Len(rows')
    BY <1>3, Parts
  <2>2. QED
    BY <1>1, <1>2, <1>3, <2>1 DEF PeerInv, PeerTypeOK
<1>5. OneAtATime' /\ Settled'
  BY <1>1, <1>2 DEF PeerInv, OneAtATime, Over, Settled
<1>6. AnswersInRange'
  <2>1. ASSUME NEW r \in Requests, request[r].at = "answered"
        PROVE  request[r].upTo <= Len(rows')
    <3>1. request[r].upTo \in Nat /\ Len(rows) \in Nat /\ request[r].upTo <= Len(rows)
      BY <2>1, Parts DEF PeerInv, AnswersInRange
    <3>2. QED
      BY <1>3, <3>1
  <2>2. QED
    BY <1>1, <1>2, <2>1 DEF PeerInv, AnswersInRange
<1>7. QED
  BY <1>4, <1>5, <1>6 DEF PeerInv

\* The answer to a request, if there is still someone to take it.
LEMMA AnswerStep ==
  ASSUME PeerInv, RecordInv', NEW r \in Requests, NEW ok \in BOOLEAN,
         NEW posts \in SUBSET DOMAIN rows,
         request[r].at = "reading", Answer(r, ok, posts),
         UNCHANGED << peerVars, lifeVars, rows >>,
         follows' \subseteq {Me, Peer} \X {Me, Peer}
  PROVE  PeerInv'
<1> DEFINE answer == IF Awaited(r)
                       THEN [at |-> "answered", ok |-> ok, posts |-> posts, upTo |-> Len(rows)]
                       ELSE NoAnswer("gone")
<1>1. rows \in Seq(Nat \ {0})
  BY DEF PeerInv, PeerTypeOK
<1>2. posts \in SUBSET Nat /\ Len(rows) \in Nat /\ posts \subseteq 1 .. Len(rows)
  BY <1>1
<1>3. /\ answer \in Request /\ answer.at # "none"
      /\ answer.at = "answered" =>
           answer.posts \subseteq 1 .. answer.upTo /\ answer.upTo <= Len(rows)
  BY <1>2 DEF Request, NoAnswer
<1>4. request' = [request EXCEPT ![r] = answer]
  BY DEF Answer
<1> HIDE DEF answer
<1>5. QED
  BY <1>3, <1>4, RequestSteps

\* A step of a request that is no answer.
LEMMA QuietRequest ==
  ASSUME PeerInv, RecordInv', NEW r \in Requests, Accept(r) \/ BodyCutOff(r)
  PROVE  /\ PeerInv'
         /\ request' \in [Requests -> Request]
         /\ request'[r].at # "answered" /\ \A q \in Requests : q # r => request'[q] = request[q]
<1>1. PICK at \in {"reading", "gone"} : request' = [request EXCEPT ![r] = NoAnswer(at)]
  BY DEF Accept, BodyCutOff
<1>2. NoAnswer(at) \in Request /\ NoAnswer(at).at = at
  BY DEF NoAnswer, Request
<1>3. /\ request[r].at \notin {"none", "gone"}
      /\ UNCHANGED << peerVars, lifeVars, rows, follows >>
  BY DEF Accept, BodyCutOff, dataVars
<1>4. request \in [Requests -> Request]
  BY DEF PeerInv, PeerTypeOK
<1>5. follows' \subseteq {Me, Peer} \X {Me, Peer}
  BY <1>3 DEF PeerInv, PeerTypeOK
<1>6. PeerInv'
  BY <1>1, <1>2, <1>3, <1>5, RequestSteps
<1>7. QED
  BY <1>1, <1>2, <1>4, <1>6

\* What a handler does, as far as its request goes.
Handled(r, ok, posts) ==
  /\ request[r].at = "reading"
  /\ Answer(r, ok, posts)
  /\ script[r[1]] = "posts" => \/ ~ ok
                               \/ posts \in PostsRequested(poller.since)
  /\ UNCHANGED << peerVars, lifeVars, rows >>
  /\ follows' = IF ok THEN RowsAfter(script[r[1]]) ELSE follows
  /\ tasks' = [tasks EXCEPT ![r[1]] = IF ok /\ IsMessage(script[r[1]]) THEN @ + 1 ELSE @]

LEMMA HandlerSteps ==
  ASSUME PeerInv, NEW r \in Requests,
         Handle(r) \/ ServeFeed(r) \/ ServeCard(r) \/ HandlerFails(r)
  PROVE  \E ok \in BOOLEAN : \E posts \in SUBSET DOMAIN rows : Handled(r, ok, posts)
<1>1. PICK c \in Calls, n \in {1, 2} : r = << c, n >>
  BY DEF Requests
<1>2. r[1] = c
  BY <1>1
<1>3. rows \in Seq(Nat \ {0}) /\ rows \in Seq(Int) /\ poller.since \in Nat
  <2>1. rows \in Seq(Nat \ {0}) /\ poller.since \in Nat
    BY Parts
  <2>2. QED
    BY <2>1
<1>4. tasks \in [Calls -> 0 .. 2]
  BY DEF PeerInv, PeerTypeOK
<1>5. CASE Handle(r)
  <2>1. PICK posts : /\ Answer(r, TRUE, posts)
                     /\ IF script[c] = "posts" THEN posts \in PostsRequested(poller.since)
                                               ELSE posts = {}
    BY <1>2, <1>5 DEF Handle
  <2>2. posts \in SUBSET DOMAIN rows
    BY <1>3, <2>1, ServiceAssumption, RequestedPosts
  <2>3. Handled(r, TRUE, posts)
    BY <1>2, <1>5, <2>1 DEF Handle, Handled, IsMessage
  <2>4. QED
    BY <2>2, <2>3
<1>6. CASE ServeFeed(r)
  <2>1. PICK posts \in First(Limit, DOMAIN rows) : Answer(r, TRUE, posts)
    BY <1>6 DEF ServeFeed
  <2>2. posts \in SUBSET DOMAIN rows
    BY <2>1 DEF First
  <2>3. script[c] = "feed" /\ UNCHANGED << peerVars, lifeVars, rows, follows, tasks >>
    BY <1>2, <1>6 DEF ServeFeed, dataVars
  <2>4. RowsAfter(script[c]) = follows /\ ~ IsMessage(script[c])
    BY <2>3 DEF RowsAfter, IsMessage
  <2>5. Handled(r, TRUE, posts)
    BY <1>2, <1>4, <1>6, <2>1, <2>3, <2>4 DEF ServeFeed, Handled
  <2>6. QED
    BY <2>2, <2>5
<1>7. CASE ServeCard(r)
  <2>1. script[c] = "card" /\ UNCHANGED << peerVars, lifeVars, rows, follows, tasks >>
    BY <1>2, <1>7 DEF ServeCard, dataVars
  <2>2. RowsAfter(script[c]) = follows /\ ~ IsMessage(script[c])
    BY <2>1 DEF RowsAfter, IsMessage
  <2>3. Handled(r, TRUE, {})
    BY <1>2, <1>4, <1>7, <2>1, <2>2 DEF ServeCard, Handled
  <2>4. QED
    BY <2>3
<1>8. CASE HandlerFails(r)
  <2>1. UNCHANGED << peerVars, lifeVars, rows, follows, tasks >>
    BY <1>8 DEF HandlerFails, dataVars
  <2>2. Handled(r, FALSE, {})
    BY <1>2, <1>4, <1>8, <2>1 DEF HandlerFails, Handled
  <2>3. QED
    BY <2>2
<1>9. QED
  BY <1>5, <1>6, <1>7, <1>8

\* The follows table holds but follows of the two.
LEMMA RowsAfterType ==
  ASSUME follows \subseteq {Me, Peer} \X {Me, Peer}, NEW kind
  PROVE  RowsAfter(kind) \subseteq {Me, Peer} \X {Me, Peer}
BY DEF RowsAfter

LEMMA PeerPreserved == PeerInv /\ [ServiceNext]_serviceVars => PeerInv'
<1> SUFFICES ASSUME PeerInv, [ServiceNext]_serviceVars PROVE PeerInv'
  OBVIOUS
<1>1. RecordInv'
  BY RecordPreserved DEF PeerInv
<1>2. CASE Start \/ Listening \/ BindFails \/ ServerClosed
             \/ \E k \in Stops : Stop(k) \/ CloseServer(k)
  <2>1. UNCHANGED << peerVars, dataVars, request >>
    BY <1>2 DEF Start, Listening, BindFails, ServerClosed, Stop, CloseServer
  <2>2. QED
    BY <1>1, <1>2, <2>1, LifeSteps
<1>3. CASE SavePost
  BY <1>1, <1>3, SavePostStep
<1>4. ASSUME NEW r \in Requests, Accept(r) \/ BodyCutOff(r)
      PROVE  PeerInv'
  BY <1>1, <1>4, QuietRequest
<1>5. ASSUME NEW r \in Requests,
             Handle(r) \/ ServeFeed(r) \/ ServeCard(r) \/ HandlerFails(r)
      PROVE  PeerInv'
  <2>1. PICK ok \in BOOLEAN, posts \in SUBSET DOMAIN rows : Handled(r, ok, posts)
    BY <1>5, HandlerSteps
  <2>2. follows' \subseteq {Me, Peer} \X {Me, Peer}
    BY <2>1, RowsAfterType DEF Handled, PeerInv, PeerTypeOK
  <2>3. QED
    BY <1>1, <2>1, <2>2, AnswerStep DEF Handled
<1>6. ASSUME NEW c \in Calls, Begin(c)
      PROVE  PeerInv'
  BY <1>1, <1>6, ServiceAssumption, BeginStep
<1>7. ASSUME NEW c \in Calls, Receive(c)
      PROVE  PeerInv'
  BY <1>1, <1>7, ReceiveStep
<1>8. ASSUME NEW c \in Calls, NextAttempt(c)
      PROVE  PeerInv'
  BY <1>1, <1>8, NextAttemptStep
<1>9. CASE UNCHANGED serviceVars
  <2>1. UNCHANGED << script, rpc, poller, service, socket, stop, follows, rows, tasks, request >>
    BY <1>9 DEF serviceVars, peerVars, lifeVars, dataVars
  <2>2. PeerTypeOK'
    BY <2>1 DEF PeerInv, PeerTypeOK, Calls, Requests
  <2>3. OneAtATime' /\ Settled' /\ AnswersInRange'
    BY <2>1 DEF PeerInv, OneAtATime, Over, Settled, AnswersInRange, Calls, Requests
  <2>4. QED
    BY <1>1, <2>2, <2>3 DEF PeerInv
<1>10. QED
  BY <1>2, <1>3, <1>4, <1>5, <1>6, <1>7, <1>8, <1>9 DEF ServiceNext, AttemptFails, ProbeFails

LEMMA PeerInvariant == ServiceSpec => []PeerInv
BY PeerInitially, PeerPreserved, PTL DEF ServiceSpec

\* The peer, its requests, the service and the agent's tables are at all times
\* what their declarations say; no attempt is made beyond the second.
THEOREM ServiceTypeCorrect == ServiceSpec => []PeerTypeOK
<1>1. PeerInv => PeerTypeOK
  BY DEF PeerInv
<1>2. QED
  BY <1>1, PeerInvariant, PTL

-----------------------------------------------------------------------------
(* The last wish *)

\* Nothing can be left of the calls before c, and none comes after it.
Alone(c) == \A d \in Wishes \ {c} : d < c /\ rpc[d].attempt = 1 /\ rpc[d].pc # "failed"

\* From the first time the last wish is handled it is in the table.
WishInv ==
  \A c \in Wishes : Alone(c) /\ tasks[c] >= 1 =>
    (<< Peer, Me >> \in follows <=> script[c] = "follow")

\* Steps that end no wish badly, start none and handle none.
LEMMA WishesUntouched ==
  ASSUME WishInv, UNCHANGED << script, follows, tasks >>,
         \A c \in Calls : rpc'[c].pc = "new" <=> rpc[c].pc = "new",
         \A c \in Calls : rpc'[c].attempt = 1 /\ rpc'[c].pc # "failed"
                            => rpc[c].attempt = 1 /\ rpc[c].pc # "failed"
  PROVE  WishInv'
<1>1. Calls' = Calls /\ Wishes' = Wishes
  BY DEF Calls, Wishes
<1>2. Wishes \subseteq Calls
  BY DEF Wishes
<1>3. \A c \in Wishes : Alone(c)' => Alone(c)
  BY <1>1, <1>2 DEF Alone
<1>4. QED
  BY <1>1, <1>3 DEF WishInv

\* A wish is handled, perhaps late, or something else is.
LEMMA WishesHandled ==
  ASSUME PeerInv, WishInv, NEW r \in Requests, NEW ok \in BOOLEAN, NEW posts,
         Handled(r, ok, posts)
  PROVE  WishInv'
<1>1. PICK d \in Calls, n \in {1, 2} : r = << d, n >>
  BY DEF Requests
<1>2. /\ UNCHANGED << script, rpc >> /\ request[<< d, n >>].at = "reading"
      /\ follows' = IF ok THEN RowsAfter(script[d]) ELSE follows
      /\ tasks' = [tasks EXCEPT ![d] = IF ok /\ IsMessage(script[d]) THEN @ + 1 ELSE @]
  BY <1>1 DEF Handled, peerVars
<1>3. Calls' = Calls /\ Wishes' = Wishes /\ \A c \in Wishes : Alone(c)' <=> Alone(c)
  BY <1>2 DEF Calls, Wishes, Alone
<1>4. tasks \in [Calls -> 0 .. 2]
  BY DEF PeerInv, PeerTypeOK
<1>5. n <= rpc[d].attempt /\ rpc[d].attempt \in {0, 1, 2} /\ rpc[d].pc # "new"
  <2>1. n <= rpc[d].attempt /\ rpc[d].attempt \in {0, 1, 2}
    <3>1. rpc[d].attempt \in {0, 1, 2}
      BY DEF PeerInv, RecordInv, Shape
    <3>2. request[d, n].at # "none" => n <= rpc[d].attempt
      BY DEF PeerInv, PeerTypeOK
    <3>3. QED
      BY <1>2, <3>1, <3>2
  <2>2. rpc[d].attempt # 0
    BY <2>1
  <2>3. QED
    BY <2>1, <2>2 DEF PeerInv, RecordInv, Accounted
<1>6. CASE script[d] \in {"follow", "unfollow"} /\ ok
  <2>1. d \in Wishes
    BY <1>5, <1>6 DEF Wishes
  <2>2. \A c \in Wishes : Alone(c) => c = d
    <3> SUFFICES ASSUME NEW c \in Wishes, Alone(c), c # d PROVE FALSE
      OBVIOUS
    <3>1. d < c /\ rpc[d].attempt = 1 /\ rpc[d].pc # "failed"
      BY <2>1 DEF Alone
    <3>2. Over(d)
      BY <3>1 DEF PeerInv, OneAtATime, Wishes
    <3>3. request[<< d, 1 >>].at = "gone"
      BY <3>1, <3>2 DEF PeerInv, Settled, Over
    <3>4. n = 1
      BY <1>5, <3>1
    <3>5. QED
      BY <1>2, <3>3, <3>4
  <2>3. << Peer, Me >> \in follows' <=> script[d] = "follow"
    BY <1>2, <1>6 DEF RowsAfter
  <2>4. QED
    BY <1>2, <1>3, <2>2, <2>3 DEF WishInv
<1>7. CASE ~ (script[d] \in {"follow", "unfollow"} /\ ok)
  <2>1. follows' = follows
    BY <1>2, <1>7 DEF RowsAfter
  <2>2. \A c \in Wishes : tasks'[c] = tasks[c]
    <3>1. d \in Wishes => ~ ok
      BY <1>7 DEF Wishes
    <3>2. QED
      BY <1>2, <1>4, <3>1 DEF Wishes
  <2>3. QED
    BY <1>2, <1>3, <2>1, <2>2 DEF WishInv
<1>8. QED
  BY <1>6, <1>7

\* A call begins: nothing has been handled of it, and it is not over, so that no
\* call before it is alone any more, and none after it has begun.
LEMMA WishBegun ==
  ASSUME PeerInv, WishInv, NEW c \in Calls, Begin(c)
  PROVE  WishInv'
<1>1. UNCHANGED << script, follows, tasks >>
  BY DEF Begin, dataVars
<1>2. /\ rpc[c].pc = "new" /\ rpc' = [rpc EXCEPT ![c] = [pc |-> "waiting", attempt |-> 1]]
      /\ rpc \in [Calls -> [pc : {"new", "waiting", "resolved", "refused", "failed"},
                            attempt : 0 .. 2]]
  BY DEF Begin, PeerInv, PeerTypeOK
<1>3. rpc'[c].pc = "waiting" /\ \A d \in Calls : d # c => rpc'[d] = rpc[d]
  BY <1>2
<1>4. Calls' = Calls /\ Wishes \subseteq Wishes' /\ Wishes' \subseteq Wishes \cup {c}
        /\ Wishes' \subseteq Calls
  BY <1>1, <1>3 DEF Calls, Wishes
<1>5. ~ tasks[c] >= 1
  <2>1. rpc[c].attempt = 0 /\ tasks[c] \in Nat
    BY <1>2 DEF PeerInv, RecordInv, Shape, Accounted
  <2>2. tasks[c] + Pending(c, 1) + Pending(c, 2) <= 0
    BY <2>1 DEF PeerInv, RecordInv, Accounted
  <2>3. Pending(c, 1) \in {0, 1} /\ Pending(c, 2) \in {0, 1}
    BY DEF Pending
  <2>4. QED
    BY <2>1, <2>2, <2>3
<1>6. ASSUME NEW d \in Wishes', Alone(d)', tasks'[d] >= 1
      PROVE  << Peer, Me >> \in follows' <=> script'[d] = "follow"
  <2>1. d # c /\ d \in Wishes
    BY <1>1, <1>4, <1>5, <1>6
  <2>2. c \notin Wishes'
    <3> SUFFICES ASSUME c \in Wishes' PROVE FALSE
      OBVIOUS
    <3>1. c < d
      BY <1>6, <2>1 DEF Alone
    <3>2. Over(c)
      BY <2>1, <3>1 DEF PeerInv, OneAtATime, Wishes
    <3>3. QED
      BY <1>2, <3>2 DEF Over
  <2>3. Alone(d)
    BY <1>3, <1>4, <1>6, <2>2 DEF Alone
  <2>4. QED
    BY <1>1, <1>6, <2>1, <2>3 DEF WishInv
<1>7. QED
  BY <1>6 DEF WishInv

LEMMA WishPreserved == PeerInv /\ PeerInv' /\ WishInv /\ [ServiceNext]_serviceVars => WishInv'
<1> SUFFICES ASSUME PeerInv, PeerInv', WishInv, [ServiceNext]_serviceVars PROVE WishInv'
  OBVIOUS
<1>1. ASSUME UNCHANGED << script, rpc, follows, tasks >>
      PROVE  WishInv'
  BY <1>1, WishesUntouched
<1>2. CASE Start \/ Listening \/ BindFails \/ ServerClosed \/ SavePost
  BY <1>1, <1>2 DEF Start, Listening, BindFails, ServerClosed, SavePost, peerVars, dataVars
<1>3. ASSUME NEW k \in Stops, Stop(k) \/ CloseServer(k)
      PROVE  WishInv'
  BY <1>1, <1>3 DEF Stop, CloseServer, peerVars, dataVars
<1>4. ASSUME NEW r \in Requests, Accept(r) \/ BodyCutOff(r)
      PROVE  WishInv'
  BY <1>1, <1>4 DEF Accept, BodyCutOff, peerVars, dataVars
<1>5. ASSUME NEW r \in Requests,
             Handle(r) \/ ServeFeed(r) \/ ServeCard(r) \/ HandlerFails(r)
      PROVE  WishInv'
  <2>1. PICK ok \in BOOLEAN, posts \in SUBSET DOMAIN rows : Handled(r, ok, posts)
    BY <1>5, HandlerSteps
  <2>2. QED
    BY <2>1, WishesHandled
<1>6. ASSUME NEW c \in Calls, Begin(c)
      PROVE  WishInv'
  BY <1>6, WishBegun
<1>7. ASSUME NEW c \in Calls, Receive(c)
      PROVE  WishInv'
  <2>1. RecordInv'
    BY DEF PeerInv
  <2>2. /\ rpc[c].pc = "waiting"
        /\ \A d \in Calls : d # c => rpc'[d] = rpc[d]
        /\ rpc'[c].pc \in {"resolved", "refused"} /\ rpc'[c].attempt = rpc[c].attempt
    BY <1>7, <2>1, ReceiveStep
  <2>3. UNCHANGED << script, follows, tasks >>
    BY <1>7 DEF Receive, dataVars
  <2>4. QED
    BY <2>2, <2>3, WishesUntouched
<1>8. ASSUME NEW c \in Calls, NextAttempt(c)
      PROVE  WishInv'
  <2>1. RecordInv'
    BY DEF PeerInv
  <2>2. /\ rpc[c].pc = "waiting"
        /\ \A d \in Calls : d # c => rpc'[d] = rpc[d]
        /\ rpc'[c].pc \in {"waiting", "failed"}
        /\ rpc'[c].pc = "waiting" => rpc'[c].attempt = 2
    BY <1>8, <2>1, NextAttemptStep
  <2>3. UNCHANGED << script, follows, tasks >>
    BY <1>8 DEF NextAttempt, dataVars
  <2>4. QED
    BY <2>2, <2>3, WishesUntouched
<1>9. CASE UNCHANGED serviceVars
  BY <1>1, <1>9 DEF serviceVars, peerVars, dataVars
<1>10. QED
  BY <1>2, <1>3, <1>4, <1>5, <1>6, <1>7, <1>8, <1>9 DEF ServiceNext, AttemptFails, ProbeFails

\* onFollow and onUnfollow against A2AClient's retries: a message may be handled
\* again after its call has resolved, and still the peer's last wish is in the
\* table from then on if nothing can be left of the calls before it.
THEOREM LastWishStays == ServiceSpec => []LastWishWins
<1>1. ServiceInit => WishInv
  BY DEF ServiceInit, WishInv, Wishes
<1>2. PeerInv /\ WishInv => LastWishWins
  <2> SUFFICES ASSUME PeerInv, WishInv, NEW c \in Wishes, rpc[c].pc = "resolved", Alone(c)
               PROVE  << Peer, Me >> \in follows <=> script[c] = "follow"
    BY DEF LastWishWins, Alone
  <2>1. c \in Calls /\ IsMessage(script[c])
    BY DEF Wishes, IsMessage
  <2>2. tasks[c] >= 1
    BY <2>1 DEF PeerInv, RecordInv, Accounted
  <2>3. QED
    BY <2>2 DEF WishInv
<1>3. QED
  BY <1>1, <1>2, PeerInvariant, WishPreserved, PTL DEF ServiceSpec

-----------------------------------------------------------------------------
(* Polling *)

\* An answer to a poll that the peer has not yet: it is as new as what the peer
\* has, and with it everything is seen but what was saved late.
AnswerMissesNothing(answer) ==
  /\ poller.upTo <= answer.upTo
  /\ ~ poller.full /\ Cardinality(answer.posts) # Limit =>
       \A i \in 1 .. answer.upTo : i \in answer.posts \cup poller.seen \/ SavedLate(i)

FreshAnswers ==
  \A c \in Calls, n \in {1, 2} :
    script[c] = "posts" /\ request[c, n].at = "answered" /\ request[c, n].ok
      => AnswerMissesNothing(request[c, n])

\* The next poll asks for a timestamp that some post has which the peer has seen.
SinceSeen ==
  /\ poller.seen \subseteq 1 .. poller.upTo
  /\ poller.since # 0 => \E m \in poller.seen : rows[m] = poller.since

PollInv ==
  /\ PollsMissNothing
  /\ SinceSeen
  /\ FreshAnswers

\* Posts that were saved late stay so, and no others get there.
LEMMA SavedLateStays ==
  ASSUME PeerInv, SavePost
  PROVE  \A i \in DOMAIN rows : SavedLate(i)' <=> SavedLate(i)
<1>1. /\ rows \in Seq(Nat \ {0}) /\ DOMAIN rows = 1 .. Len(rows) /\ Len(rows) \in Nat
      /\ \A i \in DOMAIN rows : rows'[i] = rows[i]
  BY Parts, RowAdded
<1>2. \A i \in DOMAIN rows : \A j \in 1 .. i - 1 : j \in DOMAIN rows
  BY <1>1
<1>3. QED
  BY <1>1, <1>2 DEF SavedLate

\* A step that leaves the table and the peer alone and makes no answer.
LEMMA PollsUntouched ==
  ASSUME PollInv, UNCHANGED << script, poller, rows >>,
         \A r \in Requests : request'[r].at = "answered" => request'[r] = request[r]
  PROVE  PollInv'
<1>1. Calls' = Calls /\ \A i : SavedLate(i)' <=> SavedLate(i)
  BY DEF Calls, SavedLate
<1>2. PollsMissNothing' /\ SinceSeen'
  BY <1>1 DEF PollInv, PollsMissNothing, SinceSeen
<1>3. FreshAnswers'
  <2> SUFFICES ASSUME NEW c \in Calls, NEW n \in {1, 2}, script[c] = "posts",
                      request'[c, n].at = "answered", request'[c, n].ok
               PROVE  AnswerMissesNothing(request[c, n])'
    BY <1>1 DEF FreshAnswers
  <2>1. << c, n >> \in Requests
    BY DEF Requests
  <2>2. request'[c, n] = request[c, n]
    BY <2>1
  <2>3. AnswerMissesNothing(request[c, n])
    BY <2>2 DEF PollInv, FreshAnswers
  <2>4. QED
    BY <1>1, <2>2, <2>3 DEF AnswerMissesNothing
<1>4. QED
  BY <1>2, <1>3 DEF PollInv

LEMMA PollPostSaved ==
  ASSUME PeerInv, PollInv, SavePost
  PROVE  PollInv'
<1>1. UNCHANGED << script, poller, request >> /\ Calls' = Calls
  BY DEF SavePost, peerVars, Calls
<1>2. /\ DOMAIN rows = 1 .. Len(rows) /\ Len(rows) \in Nat
      /\ \A i \in DOMAIN rows : rows'[i] = rows[i]
      /\ \A i \in DOMAIN rows : SavedLate(i)' <=> SavedLate(i)
      /\ poller.seen \subseteq DOMAIN rows /\ poller.upTo \in Nat /\ poller.upTo <= Len(rows)
  BY Parts, RowAdded, SavedLateStays
<1>3. \A k \in Nat : k <= Len(rows) => 1 .. k \subseteq DOMAIN rows
  BY <1>2
<1>4. PollsMissNothing' /\ SinceSeen'
  BY <1>1, <1>2, <1>3 DEF PollInv, PollsMissNothing, SinceSeen
<1>5. FreshAnswers'
  <2> SUFFICES ASSUME NEW c \in Calls, NEW n \in {1, 2}, script[c] = "posts",
                      request[c, n].at = "answered", request[c, n].ok
               PROVE  AnswerMissesNothing(request[c, n])'
    BY <1>1 DEF FreshAnswers
  <2>1. AnswerMissesNothing(request[c, n])
    BY DEF PollInv, FreshAnswers
  <2>2. request[c, n].upTo \in Nat /\ request[c, n].upTo <= Len(rows)
    <3>1. << c, n >> \in Requests
      BY DEF Requests
    <3>2. QED
      BY <3>1, Parts DEF PeerInv, AnswersInRange
  <2>3. \A i \in 1 .. request[c, n].upTo : SavedLate(i)' <=> SavedLate(i)
    BY <1>2, <1>3, <2>2
  <2>4. QED
    BY <1>1, <2>1, <2>3 DEF AnswerMissesNothing
<1>6. QED
  BY <1>4, <1>5 DEF PollInv

\* What a poll is answered, as the table is then.
LEMMA PollAnswered ==
  ASSUME PeerInv, PollInv, NEW posts \in PostsRequested(poller.since),
         NEW answer, answer.posts = posts, answer.upTo = Len(rows)
  PROVE  AnswerMissesNothing(answer)
<1>1. /\ rows \in Seq(Nat \ {0}) /\ DOMAIN rows = 1 .. Len(rows) /\ Len(rows) \in Nat
      /\ poller.since \in Nat /\ poller.upTo \in Nat /\ poller.upTo <= Len(rows)
  BY Parts
<1>2. rows \in Seq(Int) /\ \A i \in DOMAIN rows : rows[i] \in Nat
  BY <1>1
<1>3. ASSUME ~ poller.full, Cardinality(posts) # Limit, NEW i \in 1 .. Len(rows)
      PROVE  i \in posts \cup poller.seen \/ SavedLate(i)
  <2>1. CASE poller.since = 0
    <3>1. posts = DOMAIN rows
      BY <1>1, <1>2, <1>3, <2>1, ServiceAssumption, RequestedPosts
    <3>2. QED
      BY <1>1, <3>1
  <2>2. CASE poller.since # 0 /\ i \notin posts
    <3>1. rows[i] < poller.since
      BY <1>1, <1>2, <1>3, <2>2, ServiceAssumption, RequestedPosts
    <3>2. CASE i \in 1 .. poller.upTo
      BY <1>3, <3>2 DEF PollInv, PollsMissNothing
    <3>3. CASE i \notin 1 .. poller.upTo
      <4>1. PICK m \in 1 .. poller.upTo : rows[m] = poller.since
        BY <2>2 DEF PollInv, SinceSeen
      <4>2. m \in 1 .. i - 1
        BY <1>1, <3>3, <4>1
      <4>3. rows[m] > rows[i]
        BY <1>1, <1>2, <3>1, <4>1
      <4>4. QED
        BY <4>2, <4>3 DEF SavedLate
    <3>4. QED
      BY <3>2, <3>3
  <2>3. QED
    BY <2>1, <2>2
<1>4. QED
  BY <1>1, <1>3 DEF AnswerMissesNothing

LEMMA PollHandled ==
  ASSUME PeerInv, PollInv, NEW r \in Requests, NEW ok \in BOOLEAN, NEW posts,
         Handled(r, ok, posts)
  PROVE  PollInv'
<1>1. PICK d \in Calls, m \in {1, 2} : r = << d, m >>
  BY DEF Requests
<1>2. UNCHANGED << script, rpc, poller, rows >> /\ Calls' = Calls
        /\ \A i : SavedLate(i)' <=> SavedLate(i)
  BY DEF Handled, peerVars, Calls, SavedLate
<1> DEFINE answer == IF Awaited(r)
                       THEN [at |-> "answered", ok |-> ok, posts |-> posts, upTo |-> Len(rows)]
                       ELSE NoAnswer("gone")
<1>3. /\ request'[<< d, m >>] = answer
      /\ \A q \in Requests : q # << d, m >> => request'[q] = request[q]
  BY <1>1 DEF Handled, Answer, PeerInv, PeerTypeOK
<1>4. PollsMissNothing' /\ SinceSeen'
  BY <1>2 DEF PollInv, PollsMissNothing, SinceSeen
<1>5. FreshAnswers'
  <2> SUFFICES ASSUME NEW c \in Calls, NEW n \in {1, 2}, script[c] = "posts",
                      request'[c, n].at = "answered", request'[c, n].ok
               PROVE  AnswerMissesNothing(request[c, n])'
    BY <1>2 DEF FreshAnswers
  <2>1. << c, n >> \in Requests
    BY DEF Requests
  <2>2. AnswerMissesNothing(request'[c, n])
    <3>1. CASE << c, n >> = << d, m >>
      <4>1. /\ answer.at = "answered" /\ answer.ok
        BY <1>3, <3>1
      <4>2. ok /\ answer.posts = posts /\ answer.upTo = Len(rows)
        BY <4>1 DEF NoAnswer
      <4>3. posts \in PostsRequested(poller.since)
        BY <1>1, <3>1, <4>2 DEF Handled
      <4> HIDE DEF answer
      <4>4. AnswerMissesNothing(answer)
        BY <4>2, <4>3, PollAnswered
      <4>5. QED
        BY <1>3, <3>1, <4>4
    <3>2. CASE << c, n >> # << d, m >>
      BY <1>3, <2>1, <3>2 DEF PollInv, FreshAnswers
    <3>3. QED
      BY <3>1, <3>2
  <2>3. QED
    BY <1>2, <2>2 DEF AnswerMissesNothing
<1>6. QED
  BY <1>4, <1>5 DEF PollInv

LEMMA Ordered == \A x, y \in Nat : x # y => x < y \/ y < x
  OBVIOUS

LEMMA PollReceived ==
  ASSUME PeerInv, RecordInv', PollInv, NEW c \in Calls, Receive(c)
  PROVE  PollInv'
<1> DEFINE n == rpc[c].attempt
           answer == request[c, n]
<1>1. /\ << c, n >> \in Requests /\ rpc[c].pc = "waiting"
      /\ request'[<< c, n >>].at = "gone"
      /\ \A r \in Requests : r # << c, n >> => request'[r] = request[r]
  BY ReceiveStep
<1>2. /\ answer.at = "answered" /\ UNCHANGED << script, rows >>
      /\ poller' = IF answer.ok /\ script[c] = "posts" THEN WithAnswer(answer) ELSE poller
  BY DEF Receive, dataVars
<1>3. CASE ~ (answer.ok /\ script[c] = "posts")
  BY <1>1, <1>2, <1>3, PollsUntouched
<1>4. CASE answer.ok /\ script[c] = "posts"
  <2>1. n \in {1, 2}
    BY <1>1 DEF Requests
  <2>2. AnswerMissesNothing(answer)
    BY <1>2, <1>4, <2>1 DEF PollInv, FreshAnswers
  <2>3. /\ answer \in Request /\ answer.upTo \in Nat
        /\ answer.posts \subseteq 1 .. answer.upTo /\ answer.upTo <= Len(rows)
    BY <1>1, <1>2, Parts DEF PeerInv, AnswersInRange
  <2> HIDE DEF answer
  <2>4. /\ poller \in Poller /\ poller.since \in Nat /\ poller.upTo \in Nat
        /\ rows \in Seq(Nat \ {0})
    BY Parts
  <2>5. /\ poller'.seen = poller.seen \cup answer.posts
        /\ poller'.upTo = answer.upTo
        /\ poller'.full <=> poller.full \/ Cardinality(answer.posts) = Limit
        /\ poller'.since # poller.since => \E i \in answer.posts : rows[i] = poller'.since
    BY <1>2, <1>4, <2>3, <2>4, PollerWithAnswer
  <2>6. \A i : SavedLate(i)' <=> SavedLate(i)
    BY <1>2 DEF SavedLate
  <2>7. PollsMissNothing'
    BY <2>2, <2>5, <2>6 DEF AnswerMissesNothing, PollsMissNothing
  <2>8. SinceSeen'
    <3>1. 1 .. poller.upTo \subseteq 1 .. answer.upTo
      BY <2>2, <2>3, <2>4 DEF AnswerMissesNothing
    <3>2. poller'.seen \subseteq 1 .. poller'.upTo
      BY <2>3, <2>5, <3>1 DEF PollInv, SinceSeen
    <3>3. ASSUME poller'.since # 0
          PROVE  \E m \in poller'.seen : rows[m] = poller'.since
      <4>1. CASE poller'.since # poller.since
        BY <2>5, <4>1
      <4>2. CASE poller'.since = poller.since
        BY <2>5, <3>3, <4>2 DEF PollInv, SinceSeen
      <4>3. QED
        BY <4>1, <4>2
    <3>4. QED
      BY <1>2, <3>2, <3>3 DEF SinceSeen
  <2>9. FreshAnswers'
    <3> SUFFICES ASSUME NEW d \in Calls, NEW m \in {1, 2}, request'[d, m].at = "answered"
                 PROVE  FALSE
      BY <1>2 DEF FreshAnswers, Calls
    <3>1. << d, m >> \in Requests /\ << d, m >> # << c, n >>
      BY <1>1 DEF Requests
    <3>2. request[<< d, m >>].at = "answered"
      BY <1>1, <3>1
    <3>3. rpc[d].pc = "waiting" /\ rpc[d].attempt = m
      BY <3>2 DEF PeerInv, RecordInv, Accounted
    <3>4. d # c
      BY <3>1, <3>3
    <3>5. d \in Nat /\ c \in Nat
      BY ServiceAssumption, CallsAreNumbers DEF PeerInv, PeerTypeOK
    <3>6. d < c \/ c < d
      BY <3>4, <3>5, Ordered
    <3>7. QED
      BY <1>1, <3>3, <3>6 DEF PeerInv, OneAtATime, Over
  <2>10. QED
    BY <2>7, <2>8, <2>9 DEF PollInv
<1>5. QED
  BY <1>3, <1>4

LEMMA PollPreserved == PeerInv /\ PeerInv' /\ PollInv /\ [ServiceNext]_serviceVars => PollInv'
<1> SUFFICES ASSUME PeerInv, PeerInv', PollInv, [ServiceNext]_serviceVars PROVE PollInv'
  OBVIOUS
<1>0. RecordInv'
  BY DEF PeerInv
<1>1. ASSUME UNCHANGED << script, poller, rows, request >>
      PROVE  PollInv'
  BY <1>1, PollsUntouched
<1>2. CASE Start \/ Listening \/ BindFails \/ ServerClosed
  BY <1>1, <1>2 DEF Start, Listening, BindFails, ServerClosed, peerVars, dataVars
<1>3. ASSUME NEW k \in Stops, Stop(k) \/ CloseServer(k)
      PROVE  PollInv'
  BY <1>1, <1>3 DEF Stop, CloseServer, peerVars, dataVars
<1>4. CASE SavePost
  BY <1>4, PollPostSaved
<1>5. ASSUME NEW r \in Requests, Accept(r) \/ BodyCutOff(r)
      PROVE  PollInv'
  <2>1. UNCHANGED << script, poller, rows >>
    BY <1>5 DEF Accept, BodyCutOff, peerVars, dataVars
  <2>2. request'[r].at # "answered" /\ \A q \in Requests : q # r => request'[q] = request[q]
    BY <1>0, <1>5, QuietRequest
  <2>3. QED
    BY <2>1, <2>2, PollsUntouched
<1>6. ASSUME NEW r \in Requests,
             Handle(r) \/ ServeFeed(r) \/ ServeCard(r) \/ HandlerFails(r)
      PROVE  PollInv'
  <2>1. PICK ok \in BOOLEAN, posts \in SUBSET DOMAIN rows : Handled(r, ok, posts)
    BY <1>6, HandlerSteps
  <2>2. QED
    BY <2>1, PollHandled
<1>7. ASSUME NEW c \in Calls, Begin(c)
      PROVE  PollInv'
  <2>1. UNCHANGED << script, poller, rows >>
    BY <1>7 DEF Begin, dataVars
  <2>2. << c, 1 >> \in Requests /\ NoAnswer("sent").at = "sent"
    BY DEF Requests, NoAnswer
  <2>3. request' = [request EXCEPT ![<< c, 1 >>] = NoAnswer("sent")]
    BY <1>7 DEF Begin
  <2>4. request \in [Requests -> Request]
    BY DEF PeerInv, PeerTypeOK
  <2>5. \A r \in Requests : request'[r].at = "answered" => request'[r] = request[r]
    BY <2>2, <2>3, <2>4
  <2>6. QED
    BY <2>1, <2>5, PollsUntouched
<1>8. ASSUME NEW c \in Calls, Receive(c)
      PROVE  PollInv'
  BY <1>0, <1>8, PollReceived
<1>9. ASSUME NEW c \in Calls, NextAttempt(c)
      PROVE  PollInv'
  <2>1. UNCHANGED << script, poller, rows >>
    BY <1>9 DEF NextAttempt, dataVars
  <2>2. \A r \in Requests : request'[r].at = "answered" => request'[r] = request[r]
    BY <1>0, <1>9, NextAttemptStep
  <2>3. QED
    BY <2>1, <2>2, PollsUntouched
<1>10. CASE UNCHANGED serviceVars
  BY <1>1, <1>10 DEF serviceVars, peerVars, dataVars
<1>11. QED
  BY <1>2, <1>3, <1>4, <1>5, <1>6, <1>7, <1>8, <1>9, <1>10
     DEF ServiceNext, AttemptFails, ProbeFails

\* onPostsRequest and its `since`: a peer that polls with the timestamp of the
\* newest post it has gets every post, but for those saved after a newer one,
\* as long as no answer is as long as `limit`.
THEOREM PollingMissesNothing == ServiceSpec => []PollsMissNothing
<1>1. ServiceInit => PollInv
  <2> SUFFICES ASSUME ServiceInit
               PROVE  PollInv
    OBVIOUS
  <2>1. poller.seen = {} /\ poller.upTo = 0 /\ poller.since = 0 /\ 1 .. 0 = {}
    BY DEF ServiceInit
  <2>2. PollsMissNothing /\ SinceSeen
    BY <2>1 DEF PollsMissNothing, SinceSeen
  <2>3. \A r \in Requests : request[r].at # "answered"
    BY DEF ServiceInit, NoAnswer
  <2>4. \A c \in Calls, n \in {1, 2} : request[c, n].at # "answered"
    BY <2>3 DEF Requests
  <2>5. QED
    BY <2>2, <2>4 DEF PollInv, FreshAnswers
<1>2. PollInv => PollsMissNothing
  BY DEF PollInv
<1>3. QED
  BY <1>1, <1>2, PeerInvariant, PollPreserved, PTL DEF ServiceSpec

=============================================================================
