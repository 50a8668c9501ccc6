# youagent: models, checks and proofs

This directory specifies the core of youagent in TLA+: what its concurrent parts
do, model-checked with TLC on small instances, and what can be proved about them
for every instance with TLAPS. Everything is translated from the TypeScript under
`src/src/`; `PROJECT.json` maps each definition to the lines it stands for.

## The system

One Node.js process per agent (`youagent start`), plus short-lived CLI commands
that share its SQLite file and credentials file. JavaScript runs one callback at
a time, so in every module **an action is the code between two awaits**; what
interleaves is promises, timers, incoming requests and other processes.

| Part | State | Operations | Talks to |
|---|---|---|---|
| A2A server (`a2a/a2a-server.ts`) | tasks, creation sequences, push configs, pending deliveries | JSON-RPC `message/send`, `tasks/*`, `tasks/pushNotificationConfig/*`; `setTaskStatus`; `start`, `stop` | remote agents (HTTP), webhooks, the handlers of the A2A service |
| Agent A2A service (`daemon/a2a-service.ts`) | its own database handle, started flag | follow, unfollow and posts-request handlers; `start`, `stop` | A2A server, SQLite |
| Search daemon (`daemon/agent-daemon.ts`) | running flag, cron job, database handle | `start`, `stop`, cron ticks; search cycles: map, search, extract, deduplicate, save, push | search client, SQLite, registry |
| Search client (`client/you-client.ts`, `rate-limiter.ts`) | token bucket, queue, backoff window | `acquire`, `backoff`, request loop with retries | You.com API |
| Network search client (`client/network-search-client.ts`) | none beyond a request | search with retries | youagent registry |
| Publisher and responder (`engine/post-publisher.ts`, `respond-handler.ts`) | none beyond SQLite | `publishFindings`: publish what is not similar to a recent post; `publishRespond`: research a post and publish what is best | search client, SQLite, registry |
| Query mapper, finding extractor (`engine/`) | rotation index per topic | templates to queries; similarity deduplication | daemon |
| Storage (`storage/`) | SQLite tables posts, follows, agent_cards | repos over one connection each | every process of the agent |
| Registry client, pusher (`registry/`) | none | register, rotate, revoke, push posts in batches | registry (external) |
| A2A client (`a2a/a2a-client.ts`, `discovery.ts`) | none | rpc with one retry, card discovery with fallback | remote agents |
| Key commands (`cli/commands/register.ts`, `key.ts`, `deregister.ts`) | the credentials file | register, rotate, revoke, deregister | registry |
| Follow commands (`cli/commands/follow.ts`, `unfollow.ts`) | rows of the follows table | follow, unfollow, each mirrored on the network | SQLite, registry, credentials file |
| Agent cards (`types/agent-card.ts`, `schema/agent-card.schema.ts`, `storage/agent-card-repo.ts`) | rows of agent_cards | upgrade from any revision of A2A, validation, row and back | everything that reads a card |
| Init and discover commands (`cli/commands/init.ts`, `discover.ts`, `registry/discovery.ts`) | the card file | make a card; suggest agents to follow | registry, SQLite |
| Other commands (`cli/`) | none | start, push, respond, search, feed, ... | all of the above |
| Knowledge graph (`knowledge/`) | entities and relationships in SQLite | `ingestFinding`, queries | SQLite; no command or daemon calls it yet |
| Feed, cadence, e-mail digest | none | pure rendering and parsing | A2A server, CLI |

Interaction is by calls and awaited promises inside the process; by HTTP to peers,
the registry and the search API; and by shared files (SQLite, credentials) between
processes.

### What is hard in it, and what makes each part correct

`PROJECT.json` lists every hazard with its line. By part:

- **A2A server.** A `message/send` is checked, awaits a handler, and only then
  rebuilds the task, so other sends, cancels and status updates run in between.
  It is correct when no answered message is lost or recorded twice, tasks keep
  their place in the listing, histories only grow at the end, every change
  reaches every webhook, a cursor walk neither repeats nor misses a task, and
  `stop()` ends once the server is left alone.
- **Rate limiter and search client.** Newcomers, sleepers and queued callers
  compete for tokens; timers fire late; 429s of several requests overlap, and mean a
  pause at You.com but the end at the network's proxy. It is correct when nobody is
  lost, served twice or overtaken, every direct attempt pays for a token, a call
  neither gives up early nor goes on after a refusal, and every call ends, unless the
  client or the process goes away while it queues.
- **Network push.** Requests and answers are lost or late, and a batch is refused
  as a whole. It is correct when every batch is acceptable, nothing is skipped,
  and what a push reports is really at the registry.
- **Daemon.** Cycles overlap, saves fail half-way, `stop()` closes the database
  under a cycle, `start()` awaits the card between its check and the flag, the
  process dies between saving and pushing. It is correct when no cycle posts what
  another posted recently, only saved posts are pushed, two rounds use every query
  template of an interest, `stop()` leaves no job behind but those of `start()`s that
  overlapped, and every cycle ends that is not still searching when `stop()` takes its
  client away.
- **Publisher and responder.** Each publishes from a process of its own beside the
  daemon, with an await between the look at the table and the save. It is correct
  when one call posts no two similar summaries whatever is saved meanwhile.
- **A2A service and its peers.** Requests are handled while `start()`s and `stop()`s
  overlap around one database handle; a peer sends each call twice if it must, and
  polls with the timestamp of the newest post it has. It is correct when a request
  keeps its database, a call reports what was recorded, a late copy does not undo a
  later wish, and polling misses nothing.
- **Key and follow commands.** Each is a process; a key is shown once; the file
  is truncated before it is written; requests may be taken after the command gave
  up. They are correct when a dead stored key is always explained by a command
  whose answer, save or delete failed, a live key is dropped only by such a command or
  by one that erases a key it did not start from, a rerun repairs what an earlier run left half-done, and one network is never told
  about an agent of another.
- **Cards and discovery.** A card is upgraded on every hop, made strict by its server,
  rebuilt from a row, or read at the registry without validation; the owner's own is
  truncated and then written, under a new id each time; `discover` reads it before the
  registry answers and the follows after. It is correct when every route agrees on who
  an agent is, no conversion makes an accepted card unacceptable, and the list shows
  nobody whose follow is recorded as `discover` looks for it, and is as long as it can be.

## The modules

| Module | Models | Built on | Run by | Proofs |
|---|---|---|---|---|
| `A2AServer` | task store, webhooks, `stop()` | | `a2a_server`, `a2a_terminal` | `A2AServerProofs` |
| `TaskLog` | what the task store promises (abstract) | | as a property of `a2a_server` | refinement in `A2AServerProofs` |
| `TaskPaging` | `tasks/list` walked by a client | `A2AServer` | `task_paging` | `A2AServerProofs` |
| `AgentA2AService` | the agent's A2A service, and a peer that calls it | | `a2a_service` | `AgentA2AServiceProofs` |
| `RateLimiter` | token bucket, queue, backoff | | `search_client`, `rate_limiter_pause` | `SearchClientProofs` |
| `RateWindow` | grants per minute | `RateLimiter` | the same | `SearchClientProofs` |
| `SearchClient` | `request()` and its retries | `RateLimiter` | `search_client` | `SearchClientProofs` |
| `NetworkSearchClient` | the client chosen, and the loop at the proxy | `SearchClient` | `search_client` | `SearchClientProofs` |
| `SearchWindow` | both clients with the grants of a minute | `NetworkSearchClient`, `RateWindow` | `search_client` | `SearchClientProofs` |
| `PushPromise` | what `push()` promises (abstract) | | as a property of `network_push` | refinement in `NetworkPushProofs` |
| `NetworkPush` | batches and their requests | refines `PushPromise` | `network_push` | `NetworkPushProofs` |
| `QueryMapper` | query templates and their rotation | | `agent_daemon` | `EngineProofs` |
| `AgentDaemon` | cycles, `start`, `stop`, `youagent push` | `PushPromise`, `QueryMapper` | `agent_daemon`, `daemon_repost` | `EngineProofs` |
| `Engine` | `publishFindings` and `youagent respond` beside the daemon | `AgentDaemon` | the same | `EngineProofs` |
| `Credentials` | register, key and deregister commands | | `credentials`, `register_overwrites` (through `Follow`) | `FollowProofs` |
| `Follow` | follow and unfollow commands | `Credentials` | `credentials`, `register_overwrites` | `FollowProofs` |
| `AgentCards` | the upgrade of a card and what readers take from it | | `discover` | `DiscoverProofs` |
| `CardForms` | schema, rows and registry records of cards | `AgentCards` | `discover` | `DiscoverProofs` |
| `Discover` | `init`, `discover` and the cards of a registry | `CardForms` | `discover` | `DiscoverProofs` |

`FoldTheorems` models nothing: it has the lemmas about sums, maxima and recursion over
finite sets that the proofs share. Each `MC*` module only holds model values. Where a module has operators marked
`Mutant:`, they are plausible mistakes in the definition that follows them; no
behaviour of the specification uses them, and each is found by the property it is
paired with in `PROJECT.json`.

### State and actions, and the code they stand for

**A2AServer** (`a2a/a2a-server.ts`). `tasks`, `taskSeq`, `nextSeq`, `pushConfigs`
and `pendingDeliveries` are the fields of the class; `call` is what each
`message/send` keeps on its stack across its await; `phase` is how far `stop()` has
come. `BeginSend` is the handler up to the await and `HandlerResolves` or
`HandlerRejects` the rest; `SendWithoutHandler` is the branch without an await;
`CancelTask`, `SetTaskStatus`, `SetPushConfig` and `DeletePushConfig` are whole
methods. Requests are handled, and the embedder drives tasks, as long as the server is
not down: also while `stop()` flushes and, on connections taken before, while it closes
(`Accepting`). `NotifyPushSubscribers` is part of every action that changes a task. A
POST to a webhook is a count per (task, config) that `SettleDelivery` takes down
again whether it was answered, refused or timed out. Message bodies are the message
itself, and a uuid drawn for message `m` is `m`.

**TaskPaging**. `filter`, `token` and `walk` belong to the client; `returned` and
`steady` are history variables for its two properties. `ListTasks` is one call.

**AgentA2AService** (`daemon/a2a-service.ts`, `a2a/a2a-client.ts`). `service` is the
fields `started` and `dbOpen`, `socket` the Node server, `stop` where each call of
`stop()` is. `rpc` is the peer's loop of attempts and `request` each attempt at the
server, which may be read (`Accept`) and handled (`Handle`, `HandlerFails`) after its
sender gave it up (`AttemptFails`). `CloseServer` is `server.close()`, which calls
back with an error when another call came first; `ServerClosed` is the close of the
server and the continuation that closes the database. The service's handlers are
`async` without an await of their own, so a request is handled in one step; the tasks
of `A2AServer` are counted. `poller` is what the peer keeps between two polls. The
A feed read and a look for the card (`fetchAgentCard`, `a2a/discovery.ts`) are calls
too; the card's two attempts are its two paths (`ProbeFails`), and the server answers
them without its database (`ServeCard`). The timestamps of `rows` are the order of
milliseconds; `SavePost` takes a stamp that may
be older than the newest row's, as when a post is stamped by one process and saved
after another's.

**RateLimiter, RateWindow** (`client/rate-limiter.ts`). `tokens`, `queue`,
`backoffLeft` (from `backoffUntil`), `backoffs` and `disposed` are the fields;
`waiting` and `sleepLeft` are the promises of `acquire()`; `refillLeft` is the
interval timer. `Tick` lets a tick pass without firing anything, so a timer may be
late by any amount, as on a busy event loop. `RequestEnds` leaves open how a request
ends. `RateWindow` only adds a history of grants by age, and `SearchWindow` puts it
beside the search clients, so that the limiter is checked as the requests drive it.

**SearchClient** (`client/you-client.ts`) puts the loop of `request()` on top:
`stage` is the await it is at, `attempt` the loop counter, `status` how the last
attempt failed. Every response or timeout is an action of its own.

**NetworkSearchClient** (`client/network-search-client.ts`, `resolveSearchProvider`
in `cli/utils.ts`). `provider` is the client the process made. The proxy's
loop shares `stage`, `attempt` and `status`, takes no token, and treats a 429 as a
refusal. `exited` says that the process is gone: it may go (`Exit`) when no sleep, fetch
or body keeps it up (`HoldsProcess`), which the refill timer does not, being `unref()`ed.

**NetworkPush** (`registry/pusher.ts`, `registry-client.ts`). `push` holds one record
per call of `push()`: what it was given, the batch under way, the rest, and the
totals. `late` is the set of batches whose sender gave up and `network` is the
registry's posts. `BatchArrives` and `BatchAnswered` are separate, so that an answer
can be lost after its batch was taken; `BatchArrivesLate` is a request that reaches
the registry after its timeout. **PushPromise** is the same call as its caller sees it.

**QueryMapper** (`engine/query-mapper.ts`). `recentTemplates` is the map of that
name. `GenerateQueries` is one round for a whole card; a template stands for its query.
Two interests of one topic share an entry, so only the others are promised a rotation.

**AgentDaemon** (`daemon/agent-daemon.ts`, `engine/finding-extractor.ts`). `daemon` is
the object, `jobs` the cron jobs that exist (which may be more than the object knows),
`cycle` where each cycle is, `posts` the table. `Start`/`Scheduled` are the two sides
of the await in `start()`, and `daemon.overlapped` is a history: the `start()`s that were
between the two at the same time as another. `CardRead` ends the first await of a cycle and makes its
queries; `SearchesDone` is everything from the end of the searches to the start of
the push, which runs without an await; `ProcessEnds` is a crash, a signal or the
exit. A search result becomes a finding in any of the ways `Told` gives it, since an
answer of the search API may replace its text. The push itself is `PushPromise`, which
`NetworkPush` implements; that the two modules meet at that specification is what lets
the daemon be checked without batches.

**Engine** (`engine/post-publisher.ts`, `respond-handler.ts`). `work` is how far each
command is. `BeginRespond`, `ResearchDone` and `ResearchFails` are the two sides of
the searches of `respond()`. `BeginPublish` and `NextFinding` are `publishFindings()`
with its awaits: the save of one finding and the look at the table for the next are
one step, other processes run before the next save. No command calls
`publishFindings`; its users are the package's. Each command is a process of its own
and may end at any point.

**Credentials** (`cli/commands/register.ts`, `key.ts`, `deregister.ts`,
`registry/credentials.ts`). `file` is what the credentials file holds if it can be
read; `calls` where each command is; `server` is the registry. `BeginSave`/`EndSave`
are the truncation and the write of `writeFile`. `overwritten` is a history: the keys a
command erased, from the file or on their way there, that were not the one it had started
from. The registry (`RegistryTakes`, `RegistryTakesLate`) is external: a handle is
registered while nobody has it, and after a revocation perhaps, perhaps not, since
`key.ts:128-133` says that it stays reserved and `registry-client.ts:330-331` speaks of a
new registration; a key works until it is rotated or revoked.

**Follow** (`cli/commands/follow.ts`, `unfollow.ts`, `storage/follow-repo.ts`,
`cli/utils.ts`). A run reads the credentials, looks the target up (`Resolve`,
`ResolveFails`), changes the row and sends the mirrored request in one step
(`ChangeRow`), and waits for the answer. `holder` is who has the handle on each
registry, which `HandleMoves` changes; `sole` is a history variable that tells
which run nothing else has crossed.

**AgentCards, CardForms** (`types/agent-card.ts`, `schema/agent-card.schema.ts`,
`storage/agent-card-repo.ts`, `registry/registry-client.ts`). A card is a record whose
domain is the fields it has, so what an upgrade moves, fills in or strips is a matter of
domains; `normalizeAgentCard` is one operator per block of the function. These are
definitions without state.

**Discover** (`cli/commands/init.ts`, `discover.ts`, `registry/discovery.ts`). `file`
and `writing` are the card file and the card an `init` is writing to it, `served` the
forms each agent has served its card in, `listed` the cards read from the
registry, `follows` the rows of that table. `BeginInit`/`EndInit`/`InitDies` are the two
sides of `writeFile`; `RegisterExternal` posts a card that was fetched at any time
before; `BeginDiscover` ends where the registry is asked and `EndDiscover` is the
rest. What a card becomes on its way depends on its agent and its form alone, so the
conversions are functions of the two (`CardServed`, `CardRead`, `CardPosted`). What
the list would hold if the answer came now is `Suggestions`. `FollowAgent` stores the id
the registry gave (`IdRow`) or, where it does not know the bare name, that name
(`NameRow`, `follow.ts:53`); `UnfollowAgent` removes what its argument names. `wishes` is
a history variable: whom the owner follows, whatever ids the rows have.

## The runs

`FairSpec` and its like are used where a liveness property is checked. Deadlock is
checked for `discover`, whose commands can always be run again; in the other systems
every client may be done, which is where they stop (`CHECK_DEADLOCK FALSE`).

| Run | Bounds | Shows |
|---|---|---|
| `a2a_server` | 2 messages of every kind, 1 client context, 1 webhook with 1 POST in flight at a time, 1 status update by the embedder and any that repeat the last, ids '' and unknown ones | `SequencesIdentifyTasks`, `AnsweredSendRecordedOnce`, `RepliesFollowTheirMessage`, `ConfigsBelongToTasks`, `EveryChangeIsPosted`, refinement of `TaskLog`, `StopResolves` |
| `a2a_terminal` | the same, social messages only | divergence: a task canceled while a follow-up awaits its handler is completed again |
| `task_paging` | 3 messages, pages of 1, every filter, 1 update | `NoTaskReturnedTwice`, `NoTaskMissed` |
| `a2a_service` | follow/unfollow in every pair and in turn three times, two polls of up to 3 posts with a limit of 2, a feed read before an unfollow, a look for the card before a follow; 2 attempts each, 2 `stop()` | `RequestsHaveTheDatabase`, `CallsAreRecorded`, `LastWishWins`, `PollsMissNothing` |
| `rate_limiter_pause` | 3 callers, bucket of 2, refill every 2 of 5 ticks, delays 1 and 2 | divergence: a queued caller is granted a token inside a backoff window |
| `search_client` | 2 calls, 2 retries; directly, with a bucket of 2 and a refill per tick, or at the proxy | `QueueHoldsTheWaiting`, `NoIdleToken`, `NoOvertaking`, `BurstAndRefillsOnly`, `GivesUpOnlyAtTheEnd`, refinement of `RateLimiter`, `CallsEnd` |
| `network_push` | 2 pushes of every list of up to 3 of 4 posts, one refused, batches of 2 posts or 4 bytes | `BatchesAreAcceptable`, `ReportedIsDelivered`, `AcceptedOnce`, refinement of `PushPromise`, `PushEnds` |
| `agent_daemon` | 2 `start()`, 1 tick, 1 push, respond or `publishFindings()` process, 3 findings of 3 results, deduplication against 2 posts, interests with 7 and 3 templates, crashes at any point | `OnlySavedIsPushed`, `StopCancels`, `PostsAreDistinct`, `PublishedAreDistinct`, `TemplatesRotate`, `CyclesEnd` |
| `daemon_repost` | the same with a short summary | divergence: a story whose title is long for its summary is posted by every cycle |
| `credentials` | 2 networks, 3 runs of any command (of up to 3 key and 2 follow runs), the handle changes hands once | `StoredKeyWorks`, `LiveKeyKept`, `RerunRepairs`, `OnlyMeantAreFollowed` |
| `register_overwrites` | 2 networks, 3 runs of register and key commands | divergence: of two registrations at once, the later to answer saves over the working key of the other |
| `discover` | 5 agents: a card of before v1.0, a transitional one, one that prefers gRPC, 2 flat records (one is our own); at most 4 forms served in all, 1 agent followed in up to 2 rows, 2 ids of our own, 3 orders of the registry, a limit of 2 and 1 agent over | `EveryRouteAgrees`, `AcceptedStaysAccepted`, `SuggestionsAreNew`, `ListIsFull` |

The type invariant of `A2AServer` is checked by its run too; the others are proved
(`Discover`, whose cards are of any shape, has no theorem about its own). `CyclesEnd` and
`CallsEnd` say that again and again nothing is under way: of finitely many cycles and
calls, which happen once, that is each of them ending.

Why these bounds are enough to be interesting. Two messages are what it takes for
one send to be awaiting its handler while another changes the same task; a third
only matters to order three tasks in a listing, which `task_paging` has. Two calls
with two retries drain a bucket of two while a refill is late, so that one call queues as the
other wakes up, and let one call's 429 extend the other's sleep at every attempt; the
third caller of `rate_limiter_pause` waits while another extends the window. Three posts in
batches of two, of which one does not fit with another, make batches end by number,
by bytes and at the end, and two pushes of the same posts make the registry's
deduplication count. Two starts, a tick and a command overlap in every way two cycles
and another process can; two recent posts make the deduplication window close; a
result that is told in two ways is a duplicate of another only in one of them, and
seven templates are more than a round uses. Three
commands are a pair that races and a rerun that must cope with what the race left.
A third wish is what it takes for a late copy of the first to meet the answer to the
last; a second poll needs a post of the same moment as the newest of the first, and a
third post to reach the limit. Each of the five cards is of a kind of its own; three
agents serve theirs, so four forms are one change of one of them, strict or restored, and
what a card becomes depends on itself alone; a second row is what a second follow of an
agent adds, under its name or another id of ours; an answer that is cut needs one agent
more than the limit and the excess, which the code has at 20 and the run at 1, and each
agent is cut off in one of the orders and not in another. Where a property is also
proved, no bound matters.

Bounds that the code does not have are `MaxUpdates`, `MaxInFlight`, `MaxCommands`,
`MaxMoves`, `MaxRows`, `MaxFollows`, `MaxForms`, `Scripts` and the sets of messages,
callers, stops, pushers, cycles and calls, each used once. Symmetry is only used in runs
without liveness.

### Fairness

- *A2A server*: a handler that was called settles, a webhook POST settles (it is
  aborted after `timeoutMs`), and the event loop runs the continuations of `stop()`.
  `StopResolves` has a premise of its own, `LeftAlone`: from some point on no request
  comes in and no status is set. It is needed: the flush is a loop
  (`a2a-server.ts:432`) that also waits for the deliveries started while it waits,
  although its comment speaks of those "started so far", so a peer or embedder that
  changes tasks faster than webhooks answer keeps `stop()` waiting for ever. The run has
  such behaviours (a status may be set again and again), and without the premise TLC
  finds them.
- *Search clients*: timers fire and time passes; a fetch or the read of a body ends,
  since an `AbortController` aborts it, at You.com or the proxy. Nobody has to start a
  call. The refill timer is `unref()`ed (`rate-limiter.ts:108-111`): it is fair only as
  long as the process is up. When only queued callers are left, Node may exit (`Exit`),
  with their calls unsettled; `CallsEnd` exempts these, and those that queue after
  `dispose()`, and no others.
- *Network push*: a request is answered or aborted after its timeout.
- *Daemon*: a cycle's own awaits end; that its searches and pushes do is checked by
  `CallsEnd` and `PushEnds`. Since `CallsEnd` exempts a disposed client, nothing is
  assumed of a cycle that still searches when `stop()` disposes its client
  (`agent-daemon.ts:171-174`), and `CyclesEnd` does not say that it ends. Nothing is
  assumed of other processes.

All of it is weak fairness per caller, task or push: the event loop runs a callback
that is due, and chooses no order.

## What is proved

TLAPS proves the following for every value of the constants that satisfies the
assumption named in the module.

- **`A2AServerProofs`**, from `ConstantsAssumption` and, for the walk,
  `PageSizeAssumption`. `TypeOK`, `SequencesIdentifyTasks`, `ConfigsBelongToTasks`, and
  `StoreIsALog`, the refinement of `TaskLog`: the first three are inductive together (a
  task is renumbered only if it has no number, which needs the numbers' domain to be the
  tasks', and the new number exceeds all others only because all are below `nextSeq`), and
  every kind of step opens a task, extends one or stutters.
  `AnsweredSendRecordedOnce` and `RepliesFollowTheirMessage` are inductive together
  with the types: the places of a message in the histories (`Places`) change in one step
  only, `CreateTask` for a call that was not recorded before. `EveryChangeIsPosted` is
  shown step by step from the types. The invariant of a walk says what a cursor means
  (`CursorSplitsListing`): what was returned is at or above the token, every steady task at
  or above it has been returned once; the other calls keep that, since they keep numbers
  and number new tasks above all. From it follow `NoTaskReturnedTwice` and `NoTaskMissed`.
- **`AgentA2AServiceProofs`**, from `ServiceAssumption`: all four properties of the run,
  for any scripts. `RequestsHaveTheDatabase` needs to know that the database is closed only
  by a `stop()` that came before `start()` had resolved or with the socket closed and no
  request under way; `CallsAreRecorded`, that every task belongs to a request that is over
  and every answer to a task, attempt by attempt. `PeerInv` adds that the calls are made in
  turn and that one answered at its first attempt has nothing under way: so a late copy can
  only be of the last wish, which is `LastWishWins`. `PollsMissNothing` holds by an
  invariant on every answer under way (`FreshAnswers`) and on the timestamp asked for, which
  is that of a post the peer has.
- **`SearchClientProofs`**, from `LimiterAssumption`, `RetriesAssumption` and
  `WindowAssumption`. Of the limiter, with any number of callers: `QueueHoldsTheWaiting`,
  `NoIdleToken` and the action property `NoOvertaking` (draining keeps the queue exact
  because nobody is in it twice, and a newcomer cannot overtake because no token is idle).
  `BurstAndRefillsOnly` needs a bound on every stretch of the last minute, not on the whole
  of it: the tokens left and the grants of the last `n` ticks are at most the bucket and the
  refills due in them. Of the request loop: `UsesLimiterAsSpecified`,
  `GivesUpOnlyAtTheEnd` and `RefusalIsFinal`, first of the direct client and then of
  `SearchSpec`, the process with either client (`SearchesUseLimiter`,
  `SearchesTryToTheEnd`); the loop's invariant speaks of the limiter only through `waiting`
  (a fetch holds a token). `SearchesKeepToTheWindow` shows `SearchSpec` to implement
  `WindowSpec`, whence the bound on grants holds of the searches too (`SearchesAreBounded`).
- **`NetworkPushProofs`**, from `PushAssumption`: the type invariant, `NothingSkipped`
  (batches make up the list), `BatchesAreAcceptable`, `ReportedIsDelivered`, `AcceptedOnce`
  and `PushesAsPromised`, the refinement of `PushPromise`. The invariant states that
  what was answered, what is under way and what is left are cuts of what was given
  (`CutsAreExact`), that what was counted is at the registry, and that a late batch belongs
  to a call. `AcceptedOnce` follows from an invariant about a sum: what the calls were told,
  and will be told of batches already taken, is at most what the registry holds.
- **`EngineProofs`**, from `PushAssumption`, `InterestsAssumption`, `DaemonAssumption` and
  `EngineAssumption`: the type invariant and every safety property of the daemon's run,
  for any cards, findings, cycles and commands. `StopCancels` needs that a job's `start()`
  is over, and that two between their check and the flag are both in `overlapped`; `OnlySavedIsPushed`, that what is queued was saved (`SavedInv`);
  `TemplatesRotate`, that at most two eligible templates are not among the recent ones,
  which the next round then uses; `PostsAreDistinct` and `PublishedAreDistinct`,
  that a row's author is past its save (`AuthorsInv`) and that a look found clear stays
  true of the call's own posts (`ClearInv`).
- **`FollowProofs`**, from `CredAssumption` and `FollowAssumption`: the type invariant,
  `StoredKeyWorks`, `LiveKeyKept`, `RerunRepairs` and `OnlyMeantAreFollowed`, for any
  number of runs, registries and agents. `CredInv` follows each key from the registry that
  issued it over the command that was told to the file: no two commands get the same, one
  that is on its way is nowhere else, one that is stored was saved by a command that ended,
  and one that was spent works no more. `LiveKeyKept` needs that a command about to
  write or delete has spent the key it started from: so what it erases is that one, or
  counts as overwritten. The other two rest on what a run that nothing has
  crossed knows of the row and the network (`Uncrossed`).
- **`DiscoverProofs`**, from `DiscoverAssumption`: `EveryRouteAgrees`,
  `AcceptedStaysAccepted`, `SuggestionsAreNew` and `ListIsFull`, for any registry and any
  cards. There is one lemma per conversion, on any card: what `normalizeAgentCard`
  (`NormalizedCard`), `toV1AgentCard` (`StrictCard`), `parse` (`ParsedCard`) and a row
  (`RestoredCard`) leave of the agent and its address. The steps only choose among their
  results (`CardsInv`). `FollowsInv` says that a wanted follow has its row under the
  agent's present identity or its bare name, unless the identity was lost; an `unfollow` of another agent cannot
  remove it, since identities and names differ. `ListIsFull` is an argument about the first `n` of a
  finite ordered set (`FirstOfSize`).
- **`FoldTheorems`** holds the lemmas about sums, minima and folds the others share.

The assumptions say what the code takes for granted: limits are positive, a batch limit is
no more than the registry's, posts, scripts and interests are finite, and a handle has one
holder. `DiscoverAssumption` says more, since a card may be anything that parses as JSON:
the registry's agents are known by different identities, none by the local address, none
by another's bare name, and
each card has a name, urls in its interfaces, and a url or preferred interface if it has
additional ones. TLC evaluates each of them in the run of its module.

Two things made the rest provable. Induction over data is out of reach where it needs an
operator for a parameter; `FoldTheorems` has induction with a *set* of numbers in its place
(a sum over a set is a recursive function of a finite list of it), which covers the sums of
`AcceptedOnce` and `BurstAndRefillsOnly`. And a property about a long behaviour is proved as
an invariant about what is under way.

Only model-checked: liveness under fairness, which the provers do not reach
(`StopResolves`, `CallsEnd`, `PushEnds`, `CyclesEnd`); and the four divergences below, which
are counterexamples.

## Where the code and its documentation part

Each of these is a run that TLC ends with a counterexample; `PROJECT.json` quotes the
line.

1. `a2a_terminal`: a task leaves a terminal state through the protocol.
2. `rate_limiter_pause`: a pending request is not paused by `backoff()`.
3. `daemon_repost`: the summary of a post is compared in place of its title.
4. `register_overwrites`: `register` saves over a working key. It looks for stored
   credentials before its request and saves after it: of two registrations at the same
   time, on two networks, the later save replaces the key of the other, which
   `register.ts:69` means never to happen.

Sentences of the repository that the checked properties do not hold the code to,
because it does less:

- `client/types.ts:11` speaks of the "Maximum requests per minute (default: 60)". The
  bucket starts full and fills up again when idle, so within a minute up to a full bucket
  and its refills go out, about twice that. `BurstAndRefillsOnly` is that bound, the one
  the code keeps; it does not say that the sentence is true.
- The comment on the flush, `a2a-server.ts:430`, promises to wait for what was "started
  so far"; the loop also waits for what starts meanwhile (see Fairness).
- `key.ts:128-133` and `registry-client.ts:330-331` disagree on whether a revoked handle
  can be registered again; the model lets the registry do either.

Met while modelling, without a sentence of the repository to hold against:

- A follow-up to the task id '' is not looked up and creates a task of that id.
- `A2AServer.stop()` flushes before it closes the socket, so deliveries started
  meanwhile are still in flight when it resolves.
- An `acquire()` that queues after `dispose()` waits for ever; so does a cycle of the
  daemon that still searches when `stop()` disposes its client. A script with more
  searches than tokens exits with the queued ones unsettled when nothing else keeps the
  process up.
- `revoke` and `deregister` report success when the file could not be removed: the dead
  key stays stored.
- A revoke or deregister whose answer comes while another command saves deletes whatever
  the file then holds (the `overwritten` keys of `LiveKeyKept`).
- `AgentA2AService.stop()` is said to be safe to call more than once, and is one call
  after the other; a call that overlaps another (two SIGINTs) rejects when the server
  has stopped listening (`ERR_SERVER_NOT_RUNNING`), in `youagent start` before the
  daemon is stopped. A `stop()` before `start()` has resolved closes the database and
  leaves the server to come up, whose every request then fails.
- `A2AClient.unfollow(url, agentId)` sends the id it is given as the follower's, so it
  must be the sender's own; an id of the agent that is unfollowed removes no row.
- A post stamped earlier and saved later than another, by another process, is missed
  by a peer that polls in between; so is anything beyond the `limit` of one answer.
- Two `start()` calls that read the card at the same time leave a cron job `stop()` cannot cancel (the
  exception in `StopCancels`), and a `stop()` between them closes the database the second is about to use; two daemon
  processes on one database can both post a story.
- A `deregister` whose answer was lost cannot be retried (the agent is gone) and
  `register` refuses while its key is stored.
- `youagent follow h` before `h` is registered stores the bare name, which
  `unfollow @h` does not remove; an `unfollow` that cannot reach the registry removes
  the row without telling the network, and a handle that changes hands between the
  lookup and the mirrored request makes the network record someone else. Follow and
  unfollow runs that overlap leave row and network apart.
- `isDuplicate` is awaited between the look at the table and the save in
  `publishFindings`, so what another process saves in between may be posted again;
  only within one call are summaries distinct. A follow whose call failed may still be
  handled after a later unfollow was answered.
- `youagent init "AI"` fills the short handle up with a hyphen (`init.ts:62`), which
  the schema forbids at the end of a handle (`schema/agent-card.schema.ts:17`): the
  command throws. A slug that is cut at 32 characters can end in one, too.
- The schema takes "cards from any A2A revision" (`schema/agent-card.schema.ts:208`);
  a v1.0 card whose preferred interface is a gRPC host and port has its `url` filled in
  from it, which must be absolute. The transitional card passes, its strict form does
  not (one exception in `AcceptedStaysAccepted`). The other way round, `toV1AgentCard`
  drops a `url` that is not absolute, so the strict form of a card can be accepted
  where the card itself is refused (the other exception).
- A card with additional interfaces and neither a `url` nor preferred interfaces has no
  address; its upgrade takes the first additional one for it (`IsCard` leaves such cards
  out).
- The identifier of a card of others is its address (`types/agent-card.ts:437` calls it
  stable), which `AgentCardRepo` does not keep: every such card comes back with the
  local address and is another agent.
- `init` draws a new id each time. Follows, the daemon's deduplication and a running A2A
  service go by the old one; and if the new handle is not the one registered, `discover`
  suggests the owner's own agent.
- `discover` asks for 20 agents more than its limit before it leaves out those known: with
  more than 20 known the list may come out short, or empty. Agents followed by a bare name that the
  registry did not know then (`follow.ts:53`) are suggested again, an exception that
  `SuggestionsAreNew` names; rows under an older id of ours count for nothing either.
- Cards of the registry are not validated: `discover` dies of one without skills.
- `registerExternal` does not keep the key of its answer.
- The schema takes cadences that `cadence.ts` then refuses (`99m`, `0h`, `30d`), and
  the other way round (`*/6` in a field). Cadences such as `45m` and `7h` become cron
  expressions with uneven gaps.
- The e-mail digest looks at the newest `2 * maxPosts` posts: findings are left out when
  more than half of those are responds.

## Not modelled

- The knowledge graph (`knowledge/`): nothing in the daemon or the commands calls it,
  and `ingestFinding` is one transaction without an await. Its names are normalised
  by JavaScript before a look-up and by SQLite in it (`knowledge-graph.ts:22`, `:255`),
  which differ on letters outside ASCII: a matter of two conversions of characters, for a
  unit test. Its `LIKE` fallback takes "AI" for "OpenAI".
- Rendering: feeds, e-mail digest, CLI output; and the parsing of cadences and of the
  parameters of JSON-RPC calls. Each is one synchronous conversion without state or
  order, and what it does to text is nothing that a model says better than its unit
  tests.
- The fields of a card nothing depends on (descriptions, versions, modes, signatures,
  tenants), and the formats of ids and of urls of documents in its schema.
- Reading calls (`tasks/get`, searches, feeds, `key show`), which change nothing.
- Text: what a query, a summary or an entity is made of. The daemon's stories are
  sets of words, because deduplication compares those, and tags.
- The bytes of HTTP and JSON-RPC, URL checks of webhooks, base64 of tokens.
- The `YOUAGENT_*` environment variables, which replace the file for a single command.

## Plan

The order was: the task store first, since every peer sees it; then the search
client, the push, the daemon that uses both, and the commands that share its files.
Cards and discovery, which everything else reads, came last. What is left, in order:

1. **Composition** of `Credentials` with `NetworkPush`: a key rotated under a push, and
   two daemons on one database.
2. **Requests of the server.** `handleRequest` and `handleJsonRpc` around the methods
   of `A2AServer`: which errors change nothing, and body limits.

Runs stay as few as they are: a new module joins the run of what it composes with,
and a type invariant that another one implies gives way to a property.

Every safety property the runs check is proved. Proofs planned: that a push under a key
rotated meanwhile keeps what it can of `PushPromise`, with the module above; and, of
`AgentDaemon`, that its step over `PushPromise` is one of the batches of `NetworkPush`,
which is now two theorems about two modules.
