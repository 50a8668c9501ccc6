-------------------------- MODULE AgentA2AService --------------------------
(***************************************************************************)
(* A running agent and one of its peers: AgentA2AService                   *)
(* (src/daemon/a2a-service.ts) answers follow, unfollow and posts-request  *)
(* messages and feed reads from the agent's database while start() and     *)
(* stop() come and go, and A2AClient (src/a2a/a2a-client.ts) sends such    *)
(* messages, each up to twice, and looks for the agent's card              *)
(* (src/a2a/discovery.ts).  The peer's calls are made one after the other; *)
(* a request it gave up may still arrive, or be handled.                   *)
(*                                                                         *)
(* The handlers of the service do not wait, so a request is handled in one *)
(* step.  Tasks are those of A2AServer; here they are counted.             *)
(***************************************************************************)
EXTENDS Integers, FiniteSets, Sequences, FiniteSetsExt

CONSTANTS
  Scripts,    \* what the peer may do: sequences over Kinds
  Stops,      \* calls of stop()
  Limit,      \* the `limit` of a posts-request or feed, clamped
  MaxPosts,   \* MAX_POSTS_LIMIT
  MaxRows,    \* bound: script -> posts the agent saves
  Me,         \* the agent's id
  Peer        \* the peer's id

Kinds == {"follow", "unfollow", "posts", "feed", "card"}

\* What is posted to the JSON-RPC dispatcher; the others are GET requests.
IsMessage(kind) == kind \in {"follow", "unfollow", "posts"}

ASSUME ServiceAssumption ==
  /\ Scripts \subseteq Seq(Kinds)
  /\ Limit \in Nat \ {0}
  /\ MaxPosts \in Nat
  /\ Limit <= MaxPosts
  /\ MaxRows \in [Scripts -> Nat]
  /\ Me # Peer

VARIABLES
  script,     \* the peer's calls, in order
  rpc,        \* call -> where it is and its attempt
  request,    \* <<call, attempt>> -> where it is and its answer
  poller,     \* what the peer has of the agent's posts
  service,    \* started, and whether the database is open
  socket,     \* the listening socket
  stop,       \* call of stop() -> where it is
  follows,    \* the follows table: <<follower, followed>>
  rows,       \* the posts table: timestamps, in the order of insertion
  tasks       \* call -> tasks recorded for its message

peerVars    == << script, rpc, poller >>
lifeVars    == << service, socket, stop >>
dataVars    == << follows, rows, tasks >>
serviceVars == << peerVars, lifeVars, dataVars, request >>

Calls == DOMAIN script

\* rpc() makes two attempts, fetchAgentCard() probes two paths, a feed reader
\* makes one.
Attempts(c) == IF script[c] = "feed" THEN 1 ELSE 2

Requests == Calls \X {1, 2}

Request ==
  [at : {"none", "sent", "reading", "answered", "gone"},
   ok : BOOLEAN, posts : SUBSET Nat, upTo : Nat]

\* `since` is a timestamp, or 0 for none; `upTo` how many posts there were when
\* the last answer was made; `full` whether some answer was as long as allowed.
Poller == [since : Nat, seen : SUBSET Nat, upTo : Nat, full : BOOLEAN]

\* Every variable has its shape, and no attempt is made beyond the last.
PeerTypeOK ==
  /\ script \in Scripts
  /\ rpc \in [Calls -> [pc : {"new", "waiting", "resolved", "refused", "failed"},
                        attempt : 0 .. 2]]
  /\ request \in [Requests -> Request]
  /\ \A c \in Calls, n \in {1, 2} :
       request[c, n].at # "none" <=> n <= rpc[c].attempt
  /\ poller \in Poller
  /\ poller.seen \subseteq DOMAIN rows /\ poller.upTo <= Len(rows)
  /\ service \in [started : BOOLEAN, open : BOOLEAN]
  /\ socket \in {"new", "binding", "listening", "closing", "closed"}
  /\ stop \in [Stops -> {"idle", "flushing", "closing", "late", "done", "released", "rejected"}]
  /\ follows \subseteq {Me, Peer} \X {Me, Peer}
  /\ rows \in Seq(Nat \ {0})
  /\ tasks \in [Calls -> 0 .. 2]

\* A request that is not answered.
NoAnswer(at) == [at |-> at, ok |-> FALSE, posts |-> {}, upTo |-> 0]

ServiceInit ==
  /\ script \in Scripts
  /\ rpc = [c \in Calls |-> [pc |-> "new", attempt |-> 0]]
  /\ request = [r \in Requests |-> NoAnswer("none")]
  /\ poller = [since |-> 0, seen |-> {}, upTo |-> 0, full |-> FALSE]
  /\ service = [started |-> FALSE, open |-> TRUE]
  /\ socket = "new"
  /\ stop = [k \in Stops |-> "idle"]
  /\ follows = {}
  /\ rows = << >>
  /\ tasks = [c \in Calls |-> 0]

-----------------------------------------------------------------------------
(* start() and stop() of the service *)

Start ==
  /\ socket = "new"
  /\ socket' = "binding"
  /\ UNCHANGED << peerVars, dataVars, request, service, stop >>

\* start() resolves, whatever stop() did meanwhile.
Listening ==
  /\ socket = "binding"
  /\ socket' = "listening"
  /\ service' = [service EXCEPT !.started = TRUE]
  /\ UNCHANGED << peerVars, dataVars, request, stop >>

\* The port is in use: start() rejects.
BindFails ==
  /\ socket = "binding"
  /\ socket' = "closed"
  /\ UNCHANGED << peerVars, dataVars, request, service, stop >>

\* Mutant: the database is closed first.
StopClosingFirst(k) ==
  /\ stop[k] = "idle"
  /\ service' = [service EXCEPT !.open = FALSE]
  /\ stop' = [stop EXCEPT ![k] = IF service.started THEN "flushing" ELSE "released"]
  /\ UNCHANGED << peerVars, dataVars, request, socket >>

\* stop(): the server first, then the database; the database alone when
\* start() has not resolved.
Stop(k) ==
  /\ stop[k] = "idle"
  /\ IF service.started
       THEN stop' = [stop EXCEPT ![k] = "flushing"] /\ UNCHANGED service
       ELSE /\ stop' = [stop EXCEPT ![k] = "released"]
            /\ service' = [service EXCEPT !.open = FALSE]
  /\ UNCHANGED << peerVars, dataVars, request, socket >>

\* The server's webhooks are delivered: stop listening.  A server that does not
\* listen any more calls back with an error, once it is closed.
CloseServer(k) ==
  /\ stop[k] = "flushing"
  /\ stop' = [stop EXCEPT ![k] =
       CASE socket = "listening" -> "closing"
         [] socket = "closing"   -> "late"
         [] OTHER                -> "rejected"]
  /\ socket' = IF socket = "listening" THEN "closing" ELSE socket
  /\ UNCHANGED << peerVars, dataVars, request, service >>

\* No connection carries a request any more: the server is closed, and then the
\* database.
ServerClosed ==
  /\ socket = "closing"
  /\ \A r \in Requests : request[r].at # "reading"
  /\ socket' = "closed"
  /\ service' = [started |-> FALSE, open |-> FALSE]
  /\ stop' = [k \in Stops |->
       CASE stop[k] = "closing" -> "done"
         [] stop[k] = "late"    -> "rejected"
         [] OTHER               -> stop[k]]
  /\ UNCHANGED << peerVars, dataVars, request >>

-----------------------------------------------------------------------------
(* The agent's posts *)

Newest == IF rows = << >> THEN 1 ELSE Max({ rows[i] : i \in DOMAIN rows })

\* The daemon, or a command, saves a post: stamped now, or by a command that
\* took its time between the stamp and the row.
SavePost ==
  /\ Len(rows) < MaxRows[script]
  /\ \E at \in {Newest - 1, Newest, Newest + 1} \ {0} : rows' = Append(rows, at)
  /\ UNCHANGED << peerVars, lifeVars, request, follows, tasks >>

\* Another post was stamped later and saved earlier than post i.
SavedLate(i) == \E j \in 1 .. i - 1 : rows[j] > rows[i]

\* The first n of these posts, newest first; in any order within a moment.
First(n, ids) ==
  { some \in SUBSET ids :
      /\ Cardinality(some) = IF Cardinality(ids) < n THEN Cardinality(ids) ELSE n
      /\ \A i \in some, j \in ids \ some : rows[j] <= rows[i] }

\* Mutant: what has that very timestamp is left out.
OnlyAfter(ids, since) == { i \in ids : rows[i] > since }

\* Posts at or after `since`.
NotBefore(ids, since) == { i \in ids : rows[i] >= since }

\* onPostsRequest: without `since` the newest posts; with it those of the newest
\* MaxPosts that are not older.
PostsRequested(since) ==
  IF since = 0 THEN First(Limit, DOMAIN rows)
               ELSE UNION { First(Limit, NotBefore(loaded, since)) :
                              loaded \in First(MaxPosts, DOMAIN rows) }

-----------------------------------------------------------------------------
(* A request at the server *)

\* Taken on as long as the socket listens, also when its sender is gone.
Accept(r) ==
  /\ socket = "listening"
  /\ request[r].at = "sent"
  /\ request' = [request EXCEPT ![r] = NoAnswer("reading")]
  /\ UNCHANGED << peerVars, lifeVars, dataVars >>

\* The attempt under way, whose answer the peer still takes.
Awaited(r) == rpc[r[1]].pc = "waiting" /\ rpc[r[1]].attempt = r[2]

Answer(r, ok, posts) ==
  request' = [request EXCEPT ![r] =
    IF Awaited(r)
      THEN [at |-> "answered", ok |-> ok, posts |-> posts, upTo |-> Len(rows)]
      ELSE NoAnswer("gone")]

\* Mutant: unfollow takes away the wrong row.
RowsAfterReversed(kind) ==
  CASE kind = "follow"   -> follows \cup {<< Peer, Me >>}
    [] kind = "unfollow" -> follows \ {<< Me, Peer >>}
    [] OTHER             -> follows

\* The follows table after a message of the peer.
RowsAfter(kind) ==
  CASE kind = "follow"   -> follows \cup {<< Peer, Me >>}
    [] kind = "unfollow" -> follows \ {<< Peer, Me >>}
    [] OTHER             -> follows

\* The handler of a message runs: rows, then a task of its own for this request.
Handle(r) ==
  LET kind == script[r[1]]
  IN  /\ request[r].at = "reading"
      /\ IsMessage(kind)
      /\ service.open
      /\ IF kind = "posts"
           THEN \E posts \in PostsRequested(poller.since) : Answer(r, TRUE, posts)
           ELSE Answer(r, TRUE, {})
      /\ follows' = RowsAfter(kind)
      /\ tasks' = [tasks EXCEPT ![r[1]] = @ + 1]
      /\ UNCHANGED << peerVars, lifeVars, rows >>

\* The newest posts, for a feed reader.
ServeFeed(r) ==
  /\ request[r].at = "reading"
  /\ script[r[1]] = "feed"
  /\ service.open
  /\ \E posts \in First(Limit, DOMAIN rows) : Answer(r, TRUE, posts)
  /\ UNCHANGED << peerVars, lifeVars, dataVars >>

\* The card is the server's own, under both its paths.
ServeCard(r) ==
  /\ request[r].at = "reading"
  /\ script[r[1]] = "card"
  /\ Answer(r, TRUE, {})
  /\ UNCHANGED << peerVars, lifeVars, dataVars >>

\* Mutant: the task is recorded before the handler has run.
HandlerFailsTooLate(r) ==
  /\ request[r].at = "reading"
  /\ script[r[1]] # "card"
  /\ Answer(r, FALSE, {})
  /\ tasks' = [tasks EXCEPT ![r[1]] = @ + 1]
  /\ UNCHANGED << peerVars, lifeVars, rows, follows >>

\* The database throws, being closed or busy: an error answer and nothing else.
HandlerFails(r) ==
  /\ request[r].at = "reading"
  /\ script[r[1]] # "card"
  /\ Answer(r, FALSE, {})
  /\ UNCHANGED << peerVars, lifeVars, dataVars >>

\* Its sender closed the connection before the body was read.
BodyCutOff(r) ==
  /\ request[r].at = "reading"
  /\ ~ Awaited(r)
  /\ request' = [request EXCEPT ![r] = NoAnswer("gone")]
  /\ UNCHANGED << peerVars, lifeVars, dataVars >>

-----------------------------------------------------------------------------
(* The peer *)

Over(c) == rpc[c].pc \in {"resolved", "refused", "failed"}

\* The next call, with a first attempt.
Begin(c) ==
  /\ rpc[c].pc = "new"
  /\ \A d \in Calls : d < c => Over(d)
  /\ rpc' = [rpc EXCEPT ![c] = [pc |-> "waiting", attempt |-> 1]]
  /\ request' = [request EXCEPT ![<< c, 1 >>] = NoAnswer("sent")]
  /\ UNCHANGED << script, poller, lifeVars, dataVars >>

\* The next poll asks for what is as new as the newest post it has.
WithAnswer(answer) ==
  [ since |-> Max({poller.since} \cup { rows[i] : i \in answer.posts }),
    seen  |-> poller.seen \cup answer.posts,
    upTo  |-> answer.upTo,
    full  |-> poller.full \/ Cardinality(answer.posts) = Limit ]

\* The answer to the attempt under way arrives; an error answer is not retried.
Receive(c) ==
  LET answer == request[c, rpc[c].attempt]
  IN  /\ rpc[c].pc = "waiting"
      /\ answer.at = "answered"
      /\ rpc' = [rpc EXCEPT ![c].pc = IF answer.ok THEN "resolved" ELSE "refused"]
      /\ poller' = IF answer.ok /\ script[c] = "posts" THEN WithAnswer(answer) ELSE poller
      /\ request' = [request EXCEPT ![<< c, rpc[c].attempt >>] = NoAnswer("gone")]
      /\ UNCHANGED << script, lifeVars, dataVars >>

\* Without its sender: an answer made is lost, a request not yet handled may
\* still be.
GivenUp(r) == IF request[r].at = "answered" THEN NoAnswer("gone") ELSE request[r]

\* The attempt under way came to nothing: the next one, or the end of the call.
NextAttempt(c) ==
  LET n == rpc[c].attempt
  IN  /\ rpc[c].pc = "waiting"
      /\ IF n < Attempts(c)
           THEN /\ rpc' = [rpc EXCEPT ![c].attempt = n + 1]
                /\ request' = [request EXCEPT ![<< c, n >>] = GivenUp(<< c, n >>),
                                              ![<< c, n + 1 >>] = NoAnswer("sent")]
           ELSE /\ rpc' = [rpc EXCEPT ![c].pc = "failed"]
                /\ request' = [request EXCEPT ![<< c, n >>] = GivenUp(<< c, n >>)]
      /\ UNCHANGED << script, poller, lifeVars, dataVars >>

\* The attempt times out, cannot connect, or loses its answer.
AttemptFails(c) == script[c] # "card" /\ NextAttempt(c)

\* fetchAgentCard: so does the probe of a path, and the other path is next.
\* Another server may also not know the path.
ProbeFails(c) == script[c] = "card" /\ NextAttempt(c)

ServiceNext ==
  \/ Start
  \/ Listening
  \/ BindFails
  \/ \E k \in Stops : Stop(k) \/ CloseServer(k)
  \/ ServerClosed
  \/ SavePost
  \/ \E r \in Requests : Accept(r) \/ BodyCutOff(r)
  \/ \E r \in Requests : Handle(r) \/ ServeFeed(r) \/ ServeCard(r) \/ HandlerFails(r)
  \/ \E c \in Calls : Begin(c) \/ Receive(c) \/ AttemptFails(c) \/ ProbeFails(c)

ServiceSpec == ServiceInit /\ [][ServiceNext]_serviceVars

-----------------------------------------------------------------------------
(* Properties *)

\* However stop()s overlap each other and requests under way, no request finds
\* the database closed under it, unless stop() was called before start() had
\* resolved: stop() then closes the database and leaves the server to come up.
RequestsHaveTheDatabase ==
  (\E r \in Requests : request[r].at = "reading") /\ ~ service.open
    => \E k \in Stops : stop[k] = "released"

\* A call that resolves was recorded, as often as an attempt of it was handled
\* and never more often than it was sent; one that was refused at once left
\* nothing behind.
CallsAreRecorded ==
  \A c \in { d \in Calls : IsMessage(script[d]) } :
    /\ tasks[c] <= rpc[c].attempt
    /\ rpc[c].pc = "resolved" => tasks[c] >= 1
    /\ rpc[c].pc = "refused" /\ rpc[c].attempt = 1 => tasks[c] = 0

Wishes == { c \in Calls : script[c] \in {"follow", "unfollow"} /\ rpc[c].pc # "new" }

\* A message may be handled again, late, after its call has resolved: still the
\* peer's last wish is in the table from then on, if nothing can be left of the
\* calls before it, each being answered at its first attempt.
LastWishWins ==
  \A c \in Wishes :
    /\ rpc[c].pc = "resolved"
    /\ \A d \in Wishes \ {c} : d < c /\ rpc[d].attempt = 1 /\ rpc[d].pc # "failed"
    => (<< Peer, Me >> \in follows <=> script[c] = "follow")

\* A peer that polls with the timestamp of the newest post it has gets every
\* post there is, also those of one moment, as long as no answer is as long as
\* `limit`, and but for posts saved after a newer one.
PollsMissNothing ==
  ~ poller.full =>
    \A i \in 1 .. poller.upTo : i \in poller.seen \/ SavedLate(i)

=============================================================================
