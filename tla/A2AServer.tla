------------------------------ MODULE A2AServer ------------------------------
(***************************************************************************)
(* The in-memory task store of the A2A server (src/a2a/a2a-server.ts): the *)
(* JSON-RPC methods that read and write tasks, the webhook (push           *)
(* notification) registry and its deliveries, and the graceful stop.       *)
(*                                                                         *)
(* The program is single threaded: an action is the code that runs between *)
(* two awaits.  Every method but message/send runs in one piece; a         *)
(* message/send is checked, may await an embedder's handler, and is only   *)
(* then recorded, so other calls run in between.                           *)
(*                                                                         *)
(* A uuid the server draws for message m is m itself: it is fresh and no   *)
(* client can name it before it was handed out.                            *)
(***************************************************************************)
EXTENDS Naturals, Sequences

CONSTANTS
  Messages,     \* the message/send calls of all clients, one message each
  Contexts,     \* context ids that clients put on their messages
  Kinds,        \* the kinds of message that arrive, see AllKinds
  ConfigIds,    \* ids of push notification configs
  EmptyId,      \* the task id ''
  None,         \* an absent (undefined) field
  MaxUpdates,   \* bound: calls of setTaskStatus that change their task
  MaxInFlight   \* bound: POSTs of a task in flight when the embedder posts on

\* "social": a youagent/follow or unfollow part with its handler registered,
\* "posts": a youagent/posts-request part, "chat": the general onMessage
\* handler, "plain": no handler applies.
AllKinds == {"social", "posts", "chat", "plain"}

\* The task ids a message can end up in: drawn by the server, or ''.
TaskId == Messages \cup {EmptyId}

ContextId == Messages \cup Contexts

TaskState ==
  { "submitted", "working", "input-required", "auth-required",
    "completed", "canceled", "failed", "rejected" }

TerminalTaskStates == { "completed", "canceled", "failed", "rejected" }

ASSUME ConstantsAssumption ==
  /\ Kinds \subseteq AllKinds
  /\ EmptyId \notin Messages
  /\ None \notin Messages \cup Contexts \cup {EmptyId}
  /\ MaxUpdates \in Nat
  /\ MaxInFlight \in Nat

\* A history entry: the message of a call, the handler's reply to it, or
\* (msg = None) a status message of the embedder.
Entry == [role : {"user", "agent"}, msg : Messages \cup {None}]

\* `artifacts` is the message whose posts-request produced them.
Task == [ contextId : ContextId,
          state     : TaskState,
          history   : Seq(Entry),
          artifacts : Messages \cup {None} ]

\* What one message/send call remembers across its await.
Call == [ pc     : {"new", "handling", "recorded", "refused", "failed"},
          taskId : TaskId \cup {None},
          contextId : Contexts \cup {None},
          kind   : AllKinds \cup {None} ]

NewCall == [pc |-> "new", taskId |-> None, contextId |-> None, kind |-> None]

VARIABLES
  tasks,              \* task id -> Task, for the ids in the store
  taskSeq,            \* task id -> creation sequence, for cursor paging
  nextSeq,
  pushConfigs,        \* task id -> the ids of its configs
  pendingDeliveries,  \* <<task id, config id>> -> webhook POSTs in flight
  call,               \* message -> Call
  phase,              \* "listening", then the stages of stop()
  updates             \* setTaskStatus calls that changed a task (bounded)

vars == << tasks, taskSeq, nextSeq, pushConfigs, pendingDeliveries, call,
           phase, updates >>

Subscription == TaskId \X ConfigIds

TypeOK ==
  /\ DOMAIN tasks \subseteq TaskId
  /\ tasks \in [DOMAIN tasks -> Task]
  /\ DOMAIN taskSeq \subseteq TaskId
  /\ taskSeq \in [DOMAIN taskSeq -> Nat \ {0}]
  /\ nextSeq \in Nat \ {0}
  /\ DOMAIN pushConfigs \subseteq TaskId
  /\ pushConfigs \in [DOMAIN pushConfigs -> SUBSET ConfigIds]
  /\ pendingDeliveries \in [Subscription -> Nat]
  /\ call \in [Messages -> Call]
  /\ phase \in {"listening", "flushing", "closing", "stopped"}
  /\ updates \in Nat

-----------------------------------------------------------------------------
(* Maps and webhooks *)

\* Map.set: bind k to v, adding k when it is absent.
Put(f, k, v) == [x \in DOMAIN f \cup {k} |-> IF x = k THEN v ELSE f[x]]

\* Map.delete
Drop(f, k) == [x \in DOMAIN f \ {k} |-> f[x]]

ConfigsOf(t) == IF t \in DOMAIN pushConfigs THEN pushConfigs[t] ELSE {}

\* Mutant: the fan-out is forgotten.
NotifyNobody(t) == UNCHANGED pendingDeliveries

\* notifyPushSubscribers: one POST of task t to every webhook registered
\* for it, all started before the caller's next step.
NotifyPushSubscribers(t) ==
  pendingDeliveries' =
    [d \in Subscription |->
       IF d[1] = t /\ d[2] \in ConfigsOf(t)
         THEN pendingDeliveries[d] + 1
         ELSE pendingDeliveries[d]]

\* requireTask: the id must be a non-empty string that names a task.
RequireTask(t) == t # EmptyId /\ t \in DOMAIN tasks

Init ==
  /\ tasks = [t \in {} |-> None]
  /\ taskSeq = [t \in {} |-> 0]
  /\ nextSeq = 1
  /\ pushConfigs = [t \in {} |-> {}]
  /\ pendingDeliveries = [d \in Subscription |-> 0]
  /\ call = [m \in Messages |-> NewCall]
  /\ phase = "listening"
  /\ updates = 0

\* server.close() refuses new connections only: a request on a connection
\* taken before is read and handled until the last of them has ended.
Accepting == phase # "stopped"

-----------------------------------------------------------------------------
(* message/send *)

\* assertTaskAcceptsMessages: a falsy task id ('' included) is not looked up.
AcceptsMessages(t) ==
  \/ t \in {None, EmptyId}
  \/ t \in DOMAIN tasks /\ tasks[t].state \notin TerminalTaskStates

\* Mutant: a message without contextId leaves the task's context unset.
ContextLeftUnset(m, contextId) == contextId

ContextOf(m, contextId) == IF contextId = None THEN m ELSE contextId

\* Mutant: the task is rebuilt from this message alone.
HistoryForgotten(id) == << >>

\* The history is read when the task is recorded, not when the message came.
HistorySoFar(id) == IF id \in DOMAIN tasks THEN tasks[id].history ELSE << >>

\* Mutant: the reply is put before the message it answers.
ReplyFirst(m, kind) ==
  IF kind = "chat"
    THEN << [role |-> "agent", msg |-> m], [role |-> "user", msg |-> m] >>
    ELSE << [role |-> "user", msg |-> m] >>

\* The message, then the reply of the onMessage handler if it ran.
Said(m, kind) ==
  IF kind = "chat"
    THEN << [role |-> "user", msg |-> m], [role |-> "agent", msg |-> m] >>
    ELSE << [role |-> "user", msg |-> m] >>

\* Mutant: a follow-up moves its task to the front of the listing.
NumberAgain(id) ==
  /\ taskSeq' = Put(taskSeq, id, nextSeq)
  /\ nextSeq' = nextSeq + 1

\* Mutant: the counter is read but not advanced.
NumberWithoutAdvancing(id) ==
  /\ taskSeq' = Put(taskSeq, id, nextSeq)
  /\ UNCHANGED nextSeq

\* A task gets its creation sequence once.
NumberTask(id) ==
  IF id \in DOMAIN taskSeq
    THEN UNCHANGED << taskSeq, nextSeq >>
    ELSE /\ taskSeq' = Put(taskSeq, id, nextSeq)
         /\ nextSeq' = nextSeq + 1

\* createTask, for a new task and for a follow-up.  A task id of '' is kept
\* (`??` replaces only an absent one).
CreateTask(m, taskId, contextId, kind) ==
  LET id == IF taskId = None THEN m ELSE taskId
      keptArtifacts == IF id \in DOMAIN tasks THEN tasks[id].artifacts ELSE None
      task == [ contextId |-> ContextOf(m, contextId),
                state     |-> "completed",
                history   |-> HistorySoFar(id) \o Said(m, kind),
                artifacts |-> IF kind = "posts" THEN m ELSE keptArtifacts ]
  IN  /\ tasks' = Put(tasks, id, task)
      /\ NumberTask(id)
      /\ NotifyPushSubscribers(id)

\* A well-formed message that its target accepts, and for which a handler is
\* awaited.
BeginSend(m, taskId, contextId, kind) ==
  /\ Accepting
  /\ call[m].pc = "new"
  /\ AcceptsMessages(taskId)
  /\ kind # "plain"
  /\ call' = [call EXCEPT ![m] = [pc |-> "handling", taskId |-> taskId,
                                  contextId |-> contextId, kind |-> kind]]
  /\ UNCHANGED << tasks, taskSeq, nextSeq, pushConfigs, pendingDeliveries,
                  phase, updates >>

\* The same with no handler to await: recorded in the same step.
SendWithoutHandler(m, taskId, contextId) ==
  /\ Accepting
  /\ call[m].pc = "new"
  /\ AcceptsMessages(taskId)
  /\ CreateTask(m, taskId, contextId, "plain")
  /\ call' = [call EXCEPT ![m].pc = "recorded"]
  /\ UNCHANGED << pushConfigs, phase, updates >>

\* Malformed (InvalidParams), or the target is unknown (TaskNotFound) or
\* terminal (UnsupportedOperation).
RefuseSend(m, taskId) ==
  /\ Accepting
  /\ call[m].pc = "new"
  /\ ~ AcceptsMessages(taskId)
  /\ call' = [call EXCEPT ![m].pc = "refused"]
  /\ UNCHANGED << tasks, taskSeq, nextSeq, pushConfigs, pendingDeliveries,
                  phase, updates >>

\* The awaited handler resolves and the task is recorded and answered.
HandlerResolves(m) ==
  /\ call[m].pc = "handling"
  /\ CreateTask(m, call[m].taskId, call[m].contextId, call[m].kind)
  /\ call' = [call EXCEPT ![m] = [NewCall EXCEPT !.pc = "recorded"]]
  /\ UNCHANGED << pushConfigs, phase, updates >>

\* It rejects: the dispatcher answers with an error, nothing is recorded.
HandlerRejects(m) ==
  /\ call[m].pc = "handling"
  /\ call' = [call EXCEPT ![m] = [NewCall EXCEPT !.pc = "failed"]]
  /\ UNCHANGED << tasks, taskSeq, nextSeq, pushConfigs, pendingDeliveries,
                  phase, updates >>

-----------------------------------------------------------------------------
(* The other methods; their error answers change no state *)

\* setTaskStatus, for tasks/cancel and for the embedder.
UpdateStatus(t, state, withMessage) ==
  /\ tasks' = [tasks EXCEPT
                 ![t].state = state,
                 ![t].history = IF withMessage
                                  THEN Append(@, [role |-> "agent", msg |-> None])
                                  ELSE @]
  /\ NotifyPushSubscribers(t)

\* tasks/cancel; TaskNotCancelable for a terminal task.
CancelTask(t) ==
  /\ Accepting
  /\ RequireTask(t)
  /\ tasks[t].state \notin TerminalTaskStates
  /\ UpdateStatus(t, "canceled", FALSE)
  /\ UNCHANGED << taskSeq, nextSeq, pushConfigs, call, phase, updates >>

\* The embedder drives a task; no rule about terminal states.  It may repeat
\* a state for ever, which posts the task each time and changes no more than
\* its timestamp.
SetTaskStatus(t, state, withMessage) ==
  /\ RequireTask(t)
  /\ \A c \in ConfigsOf(t) : pendingDeliveries[t, c] < MaxInFlight
  /\ UpdateStatus(t, state, withMessage)
  /\ updates' = IF tasks' = tasks THEN updates ELSE updates + 1
  /\ updates' <= MaxUpdates
  /\ UNCHANGED << taskSeq, nextSeq, pushConfigs, call, phase >>

\* tasks/pushNotificationConfig/set, of an existing id too.
SetPushConfig(t, c) ==
  /\ Accepting
  /\ RequireTask(t)
  /\ pushConfigs' = Put(pushConfigs, t, ConfigsOf(t) \cup {c})
  /\ UNCHANGED << tasks, taskSeq, nextSeq, pendingDeliveries, call, phase,
                  updates >>

\* Mutant: the emptied map stays behind.
WithoutConfigButKept(t, c) == Put(pushConfigs, t, ConfigsOf(t) \ {c})

\* The configs once c of task t is deleted; the last one takes the map along.
WithoutConfig(t, c) ==
  IF ConfigsOf(t) = {c} THEN Drop(pushConfigs, t)
                        ELSE Put(pushConfigs, t, ConfigsOf(t) \ {c})

\* tasks/pushNotificationConfig/delete
DeletePushConfig(t, c) ==
  /\ Accepting
  /\ RequireTask(t)
  /\ c \in ConfigsOf(t)
  /\ pushConfigs' = WithoutConfig(t, c)
  /\ UNCHANGED << tasks, taskSeq, nextSeq, pendingDeliveries, call, phase,
                  updates >>

\* Mutant: a POST that failed is never taken off the pending set.
DeliveryNeverForgotten(d) ==
  /\ pendingDeliveries[d] > 0
  /\ UNCHANGED vars

\* A webhook POST is answered, fails, or is aborted by its timeout.
SettleDelivery(d) ==
  /\ pendingDeliveries[d] > 0
  /\ pendingDeliveries' = [pendingDeliveries EXCEPT ![d] = @ - 1]
  /\ UNCHANGED << tasks, taskSeq, nextSeq, pushConfigs, call, phase, updates >>

-----------------------------------------------------------------------------
(* stop(): flush the deliveries, then close the socket, then wait for the   *)
(* connections that still carry a request.                                  *)

NoPendingDelivery == \A d \in Subscription : pendingDeliveries[d] = 0

Stop ==
  /\ phase = "listening"
  /\ phase' = "flushing"
  /\ UNCHANGED << tasks, taskSeq, nextSeq, pushConfigs, pendingDeliveries,
                  call, updates >>

FlushPushNotifications ==
  /\ phase = "flushing"
  /\ NoPendingDelivery
  /\ phase' = "closing"
  /\ UNCHANGED << tasks, taskSeq, nextSeq, pushConfigs, pendingDeliveries,
                  call, updates >>

ServerClosed ==
  /\ phase = "closing"
  /\ \A m \in Messages : call[m].pc # "handling"
  /\ phase' = "stopped"
  /\ UNCHANGED << tasks, taskSeq, nextSeq, pushConfigs, pendingDeliveries,
                  call, updates >>

-----------------------------------------------------------------------------

\* A message names no task, '', a task the server handed out, or one it does
\* not know (any id of a task not yet created).
MessageSend(m) ==
  \E taskId \in TaskId \cup {None} :
    \/ RefuseSend(m, taskId)
    \/ \E contextId \in Contexts \cup {None} :
         \/ \E kind \in Kinds : BeginSend(m, taskId, contextId, kind)
         \/ "plain" \in Kinds /\ SendWithoutHandler(m, taskId, contextId)

TaskMethod(t) ==
  \/ CancelTask(t)
  \/ \E c \in ConfigIds : SetPushConfig(t, c) \/ DeletePushConfig(t, c)
  \/ \E state \in TaskState, withMessage \in BOOLEAN :
       SetTaskStatus(t, state, withMessage)

Next ==
  \/ \E m \in Messages : MessageSend(m) \/ HandlerResolves(m) \/ HandlerRejects(m)
  \/ \E t \in TaskId : TaskMethod(t)
  \/ \E d \in Subscription : SettleDelivery(d)
  \/ Stop
  \/ FlushPushNotifications
  \/ ServerClosed

Spec == Init /\ [][Next]_vars

\* A handler that was called settles, a webhook POST settles or is aborted
\* after timeoutMs, and the event loop runs the continuations of stop().
\* Clients, the embedder and whoever calls stop() owe nothing.
Fairness ==
  /\ \A m \in Messages : WF_vars(HandlerResolves(m) \/ HandlerRejects(m))
  /\ \A d \in Subscription : WF_vars(SettleDelivery(d))
  /\ WF_vars(FlushPushNotifications)
  /\ WF_vars(ServerClosed)

FairSpec == Spec /\ Fairness

-----------------------------------------------------------------------------
(* Properties *)

\* Every task has a creation sequence of its own, smaller than the next one
\* to be handed out, and no sequence outlives its task: what tasks/list sorts
\* and cuts its pages by.
SequencesIdentifyTasks ==
  /\ DOMAIN taskSeq = DOMAIN tasks
  /\ \A t \in DOMAIN taskSeq : taskSeq[t] < nextSeq
  /\ \A s, t \in DOMAIN taskSeq : taskSeq[s] = taskSeq[t] => s = t

\* Where message m is recorded, over all tasks.
Places(m) ==
  { p \in UNION { {t} \X DOMAIN tasks[t].history : t \in DOMAIN tasks } :
      tasks[p[1]].history[p[2]] = [role |-> "user", msg |-> m] }

\* A send that was answered with a task is in exactly one history, exactly
\* once, however many sends to the same task were awaiting their handlers;
\* any other send is in none.
AnsweredSendRecordedOnce ==
  \A m \in Messages :
    IF call[m].pc = "recorded" THEN \E p \in Places(m) : Places(m) = {p}
                               ELSE Places(m) = {}

\* A handler's reply follows the message it answers with nothing in between.
RepliesFollowTheirMessage ==
  \A t \in DOMAIN tasks : \A i \in DOMAIN tasks[t].history :
    LET e == tasks[t].history[i]
    IN  e.role = "agent" /\ e.msg # None
          => /\ i > 1
             /\ tasks[t].history[i - 1] = [role |-> "user", msg |-> e.msg]

\* Configs are held for tasks that exist, and never an empty map of them.
ConfigsBelongToTasks ==
  \A t \in DOMAIN pushConfigs : t \in DOMAIN tasks /\ pushConfigs[t] # {}

\* Webhooks miss nothing: whichever call changes a task (a follow-up that was
\* awaiting its handler, a cancel, the embedder), that same step starts one
\* POST to each of its configs, and none to a config that is not registered.
EveryChangeIsPosted ==
  [][ \A t \in TaskId, c \in ConfigIds :
        LET changed == t \in DOMAIN tasks
                         /\ t \in DOMAIN tasks' /\ tasks[t] # tasks'[t]
        IN  /\ changed /\ c \in ConfigsOf(t)
                 => pendingDeliveries'[t, c] = pendingDeliveries[t, c] + 1
            /\ c \notin ConfigsOf(t)
                 => pendingDeliveries'[t, c] <= pendingDeliveries[t, c] ]_vars

\* The environment falls silent: from some point on no request comes in and
\* nobody drives a task, so that only an answered handler starts POSTs.
LeftAlone ==
  <>[][ /\ \A m \in Messages : call[m].pc = "new" => call'[m].pc = "new"
        /\ UNCHANGED call => \A d \in Subscription :
                                pendingDeliveries'[d] <= pendingDeliveries[d] ]_vars

\* Once stop() is called it resolves, if clients and embedder fall silent:
\* the POSTs already started and the handlers already called hold up neither
\* the flush nor the close.  Without that premise it need not: the loop of
\* flushPushNotifications also waits for POSTs started while it waits, and
\* one setTaskStatus before the last POST has settled, time and again, keeps
\* it going.
StopResolves == LeftAlone => (phase = "flushing" ~> phase = "stopped")

\* The store implements the log that TaskLog describes.
Store == INSTANCE TaskLog WITH log  <- [t \in DOMAIN tasks |-> tasks[t].history],
                               rank <- taskSeq

\* Concurrent sends, cancels and status updates never drop a task, reorder
\* the listing or rewrite what was said.
StoreIsALog == Store!Spec

-----------------------------------------------------------------------------
(* What the repository says and the code does not do *)

\* types.ts: the terminal states are "States a task cannot leave through the
\* protocol (no cancel, no follow-up messages)".  Only the embedder's
\* setTaskStatus, which then steps `updates`, may move a task out of one.
TerminalStatesAreFinal ==
  [][ \A t \in DOMAIN tasks :
        tasks[t].state \in TerminalTaskStates /\ UNCHANGED updates
          => tasks'[t].state = tasks[t].state ]_vars
=============================================================================
