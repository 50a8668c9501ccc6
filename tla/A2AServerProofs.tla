--------------------------- MODULE A2AServerProofs ---------------------------
(***************************************************************************)
(* Theorems about A2AServer, for every set of messages, contexts, kinds    *)
(* and configs and every bound on the embedder's updates; and about        *)
(* TaskPaging, for every page size and filter: a cursor walk over          *)
(* tasks/list neither repeats nor misses a task, whatever calls run        *)
(* beside it.                                                              *)
(***************************************************************************)
EXTENDS TaskPaging, TLAPS

-----------------------------------------------------------------------------
(* What recording a message and updating a status do to the typed state *)

\* A map bound at a key keeps its type and has that key besides its others.
LEMMA PutType ==
  ASSUME NEW K, NEW V, NEW f, DOMAIN f \subseteq K, f \in [DOMAIN f -> V],
         NEW k \in K, NEW v \in V
  PROVE  /\ DOMAIN Put(f, k, v) = DOMAIN f \cup {k}
         /\ DOMAIN Put(f, k, v) \subseteq K
         /\ Put(f, k, v) \in [DOMAIN Put(f, k, v) -> V]
BY DEF Put

\* What is said when a message is recorded: one or two history entries.
LEMMA SaidType ==
  ASSUME NEW m \in Messages, NEW kind
  PROVE  Said(m, kind) \in Seq(Entry) /\ Said(m, kind) # << >>
<1> DEFINE asked == [role |-> "user", msg |-> m]
           answered == [role |-> "agent", msg |-> m]
<1>1. asked \in Entry /\ answered \in Entry
  BY DEF Entry
<1>2. << asked, answered >> \in Seq(Entry) /\ << asked >> \in Seq(Entry)
  BY <1>1
<1>3. QED
  BY <1>2 DEF Said

\* The fan-out keeps the counts of pending deliveries natural numbers.
LEMMA NotifyType ==
  ASSUME TypeOK, NEW t \in TaskId, NotifyPushSubscribers(t)
  PROVE  pendingDeliveries' \in [Subscription -> Nat]
BY DEF TypeOK, NotifyPushSubscribers

\* createTask stores a well-typed task under a task id.
LEMMA CreateTaskType ==
  ASSUME TypeOK,
         NEW m \in Messages, NEW taskId \in TaskId \cup {None},
         NEW contextId \in Contexts \cup {None}, NEW kind,
         CreateTask(m, taskId, contextId, kind)
  PROVE  /\ DOMAIN tasks' \subseteq TaskId
         /\ tasks' \in [DOMAIN tasks' -> Task]
         /\ DOMAIN taskSeq' \subseteq TaskId
         /\ taskSeq' \in [DOMAIN taskSeq' -> Nat \ {0}]
         /\ nextSeq' \in Nat \ {0}
         /\ pendingDeliveries' \in [Subscription -> Nat]
<1> DEFINE id == IF taskId = None THEN m ELSE taskId
           kept == IF id \in DOMAIN tasks THEN tasks[id].artifacts ELSE None
           task == [ contextId |-> ContextOf(m, contextId),
                     state     |-> "completed",
                     history   |-> HistorySoFar(id) \o Said(m, kind),
                     artifacts |-> IF kind = "posts" THEN m ELSE kept ]
<1>1. id \in TaskId
  BY DEF TaskId
<1>2. ContextOf(m, contextId) \in ContextId
  BY DEF ContextOf, ContextId
<1>3. HistorySoFar(id) \in Seq(Entry)
  <2>1. CASE id \in DOMAIN tasks
    BY <2>1 DEF HistorySoFar, TypeOK, Task
  <2>2. CASE id \notin DOMAIN tasks
    BY <2>2 DEF HistorySoFar
  <2>3. QED
    BY <2>1, <2>2
<1>4. HistorySoFar(id) \o Said(m, kind) \in Seq(Entry)
  BY <1>3, SaidType
<1>5. (IF kind = "posts" THEN m ELSE kept) \in Messages \cup {None}
  BY DEF TypeOK, Task
<1>6. task \in Task
  BY <1>2, <1>4, <1>5 DEF Task, TaskState
<1>7. tasks' = Put(tasks, id, task) /\ NumberTask(id) /\ NotifyPushSubscribers(id)
  BY DEF CreateTask
<1> HIDE DEF task, id
<1>8. DOMAIN tasks' \subseteq TaskId /\ tasks' \in [DOMAIN tasks' -> Task]
  <2>1. DOMAIN tasks \subseteq TaskId /\ tasks \in [DOMAIN tasks -> Task]
    BY DEF TypeOK
  <2>2. QED
    BY ONLY <1>1, <1>6, <1>7, <2>1, PutType
<1>9. /\ DOMAIN taskSeq' \subseteq TaskId
      /\ taskSeq' \in [DOMAIN taskSeq' -> Nat \ {0}]
      /\ nextSeq' \in Nat \ {0}
  <2>1. CASE id \in DOMAIN taskSeq
    BY <1>7, <2>1 DEF NumberTask, TypeOK
  <2>2. CASE id \notin DOMAIN taskSeq
    <3>1. taskSeq' = Put(taskSeq, id, nextSeq) /\ nextSeq' = nextSeq + 1
      BY <1>7, <2>2 DEF NumberTask
    <3>2. nextSeq \in Nat \ {0} /\ nextSeq' \in Nat \ {0}
      BY <3>1 DEF TypeOK
    <3>3. DOMAIN taskSeq \subseteq TaskId /\ taskSeq \in [DOMAIN taskSeq -> Nat \ {0}]
      BY DEF TypeOK
    <3>4. QED
      BY ONLY <1>1, <3>1, <3>2, <3>3 DEF Put
  <2>3. QED
    BY <2>1, <2>2
<1>10. pendingDeliveries' \in [Subscription -> Nat]
  BY <1>1, <1>7, NotifyType
<1>11. QED
  BY <1>8, <1>9, <1>10

\* setTaskStatus keeps the set of tasks and stores a well-typed task.
LEMMA UpdateStatusType ==
  ASSUME TypeOK, NEW t \in DOMAIN tasks, NEW state \in TaskState,
         NEW withMessage \in BOOLEAN, UpdateStatus(t, state, withMessage)
  PROVE  /\ DOMAIN tasks' = DOMAIN tasks
         /\ tasks' \in [DOMAIN tasks' -> Task]
         /\ pendingDeliveries' \in [Subscription -> Nat]
<1> DEFINE said == [role |-> "agent", msg |-> None]
           history == IF withMessage THEN Append(tasks[t].history, said)
                                     ELSE tasks[t].history
<1>1. tasks[t] \in Task /\ t \in TaskId
  BY DEF TypeOK
<1>2. said \in Entry
  BY DEF Entry
<1>3. history \in Seq(Entry)
  BY <1>1, <1>2 DEF Task
<1>4. tasks' = [tasks EXCEPT ![t] = [@ EXCEPT !.state = state, !.history = history]]
  BY DEF UpdateStatus
<1>5. [tasks[t] EXCEPT !.state = state, !.history = history] \in Task
  BY <1>1, <1>3 DEF Task
<1> HIDE DEF history
<1>6. DOMAIN tasks' = DOMAIN tasks /\ tasks' \in [DOMAIN tasks' -> Task]
  BY <1>4, <1>5 DEF TypeOK
<1>7. QED
  BY <1>1, <1>6, NotifyType DEF UpdateStatus

-----------------------------------------------------------------------------
(* Type correctness *)

LEMMA InitTypeOK == Init => TypeOK
<1> SUFFICES ASSUME Init PROVE TypeOK
  OBVIOUS
<1>1. 0 \in Nat /\ 1 \in Nat \ {0}
  OBVIOUS
<1>2. NewCall \in Call
  BY DEF NewCall, Call
<1>3. QED
  BY <1>1, <1>2 DEF Init, TypeOK

LEMMA MessageSendTypeOK ==
  ASSUME TypeOK, NEW m \in Messages, MessageSend(m)
  PROVE  TypeOK'
<1>1. PICK taskId \in TaskId \cup {None} :
        \/ RefuseSend(m, taskId)
        \/ \E contextId \in Contexts \cup {None} :
             \/ \E kind \in Kinds : BeginSend(m, taskId, contextId, kind)
             \/ "plain" \in Kinds /\ SendWithoutHandler(m, taskId, contextId)
  BY DEF MessageSend
<1>2. call[m] \in Call
  BY DEF TypeOK
<1>3. CASE RefuseSend(m, taskId)
  <2>1. [call[m] EXCEPT !.pc = "refused"] \in Call
    BY <1>2 DEF Call
  <2>2. call' \in [Messages -> Call]
    BY <1>3, <2>1 DEF RefuseSend, TypeOK
  <2>3. QED
    BY <1>3, <2>2 DEF RefuseSend, TypeOK
<1>4. ASSUME NEW contextId \in Contexts \cup {None}, NEW kind \in Kinds,
             BeginSend(m, taskId, contextId, kind)
      PROVE  TypeOK'
  <2>1. [pc |-> "handling", taskId |-> taskId, contextId |-> contextId,
         kind |-> kind] \in Call
    BY ConstantsAssumption DEF Call
  <2>2. call' \in [Messages -> Call]
    BY <1>4, <2>1 DEF BeginSend, TypeOK
  <2>3. QED
    BY <1>4, <2>2 DEF BeginSend, TypeOK
<1>5. ASSUME NEW contextId \in Contexts \cup {None},
             SendWithoutHandler(m, taskId, contextId)
      PROVE  TypeOK'
  <2>1. [call[m] EXCEPT !.pc = "recorded"] \in Call
    BY <1>2 DEF Call
  <2>2. call' \in [Messages -> Call]
    BY <1>5, <2>1 DEF SendWithoutHandler, TypeOK
  <2>3. CreateTask(m, taskId, contextId, "plain")
    BY <1>5 DEF SendWithoutHandler
  <2>4. QED
    BY <1>5, <2>2, <2>3, CreateTaskType DEF SendWithoutHandler, TypeOK
<1>6. QED
  BY <1>1, <1>3, <1>4, <1>5

LEMMA HandlerTypeOK ==
  ASSUME TypeOK, NEW m \in Messages, HandlerResolves(m) \/ HandlerRejects(m)
  PROVE  TypeOK'
<1>1. call[m] \in Call
  BY DEF TypeOK
<1>2. \A pc \in {"recorded", "failed"} : [NewCall EXCEPT !.pc = pc] \in Call
  BY DEF NewCall, Call
<1>3. call' \in [Messages -> Call]
  BY <1>2 DEF HandlerResolves, HandlerRejects, TypeOK
<1>4. CASE HandlerResolves(m)
  <2>1. CreateTask(m, call[m].taskId, call[m].contextId, call[m].kind)
    BY <1>4 DEF HandlerResolves
  <2>2. call[m].taskId \in TaskId \cup {None} /\ call[m].contextId \in Contexts \cup {None}
    BY <1>1 DEF Call
  <2>3. QED
    BY <1>3, <1>4, <2>1, <2>2, CreateTaskType DEF HandlerResolves, TypeOK
<1>5. CASE HandlerRejects(m)
  BY <1>3, <1>5 DEF HandlerRejects, TypeOK
<1>6. QED
  BY <1>4, <1>5

LEMMA TaskMethodTypeOK ==
  ASSUME TypeOK, NEW t \in TaskId, TaskMethod(t)
  PROVE  TypeOK'
<1>1. CASE CancelTask(t)
  <2>1. t \in DOMAIN tasks /\ UpdateStatus(t, "canceled", FALSE)
    BY <1>1 DEF CancelTask, RequireTask
  <2>2. "canceled" \in TaskState
    BY DEF TaskState
  <2>3. QED
    BY <1>1, <2>1, <2>2, UpdateStatusType DEF CancelTask, TypeOK
<1>2. ASSUME NEW state \in TaskState, NEW withMessage \in BOOLEAN,
             SetTaskStatus(t, state, withMessage)
      PROVE  TypeOK'
  <2>1. t \in DOMAIN tasks /\ UpdateStatus(t, state, withMessage)
    BY <1>2 DEF SetTaskStatus, RequireTask
  <2>2. updates' \in Nat
    <3>1. updates' = updates \/ updates' = updates + 1
      BY <1>2, Zenon DEF SetTaskStatus
    <3>2. QED
      BY <3>1 DEF TypeOK
  <2>3. /\ DOMAIN tasks' = DOMAIN tasks
        /\ tasks' \in [DOMAIN tasks' -> Task]
        /\ pendingDeliveries' \in [Subscription -> Nat]
    BY <2>1, UpdateStatusType
  <2>4. UNCHANGED << taskSeq, nextSeq, pushConfigs, call, phase >>
    BY <1>2 DEF SetTaskStatus
  <2>5. QED
    BY <2>2, <2>3, <2>4 DEF TypeOK
<1>3. ASSUME NEW c \in ConfigIds, SetPushConfig(t, c)
      PROVE  TypeOK'
  <2>1. /\ DOMAIN pushConfigs' \subseteq TaskId
        /\ pushConfigs' \in [DOMAIN pushConfigs' -> SUBSET ConfigIds]
    BY <1>3 DEF SetPushConfig, Put, ConfigsOf, TypeOK
  <2>2. QED
    BY <1>3, <2>1 DEF SetPushConfig, TypeOK
<1>4. ASSUME NEW c \in ConfigIds, DeletePushConfig(t, c)
      PROVE  TypeOK'
  <2>1. /\ DOMAIN pushConfigs' \subseteq TaskId
        /\ pushConfigs' \in [DOMAIN pushConfigs' -> SUBSET ConfigIds]
    BY <1>4 DEF DeletePushConfig, WithoutConfig, Put, Drop, ConfigsOf, TypeOK
  <2>2. QED
    BY <1>4, <2>1 DEF DeletePushConfig, TypeOK
<1>5. QED
  BY <1>1, <1>2, <1>3, <1>4 DEF TaskMethod

LEMMA NextTypeOK == TypeOK /\ [Next]_vars => TypeOK'
<1> SUFFICES ASSUME TypeOK, [Next]_vars PROVE TypeOK'
  OBVIOUS
<1>1. ASSUME NEW d \in Subscription, SettleDelivery(d)
      PROVE  TypeOK'
  BY <1>1 DEF SettleDelivery, TypeOK
<1>2. CASE Stop \/ FlushPushNotifications \/ ServerClosed
  BY <1>2 DEF Stop, FlushPushNotifications, ServerClosed, TypeOK
<1>3. CASE UNCHANGED vars
  BY <1>3 DEF vars, TypeOK
<1>4. QED
  BY <1>1, <1>2, <1>3, MessageSendTypeOK, HandlerTypeOK, TaskMethodTypeOK DEF Next

\* Every reachable state of the server is well typed: in particular every
\* counter of pending deliveries is a natural number (a delivery settles only
\* if it was started), and every task stored has a known state and a context.
THEOREM TypeCorrect == Spec => []TypeOK
<1>1. QED
  BY InitTypeOK, NextTypeOK, PTL DEF Spec

-----------------------------------------------------------------------------
(* The store's safety invariants and its refinement of TaskLog *)

\* The inductive invariant: a task is numbered when it is stored and configs
\* are held only for stored tasks.  TypeOK makes the numbers comparable.
Inv == TypeOK /\ SequencesIdentifyTasks /\ ConfigsBelongToTasks

\* The state that TaskLog sees, and its steps.
LogVars == << [t \in DOMAIN tasks |-> tasks[t].history], taskSeq >>

\* A history with more said at its end continues the history it had.
LEMMA SayingMoreContinues ==
  ASSUME NEW S, NEW s \in Seq(S), NEW more \in Seq(S)
  PROVE  Store!Continues(s, s \o more)
BY DEF Store!Continues

\* Recording a message numbers its task, and opens or extends its log.
LEMMA CreateTaskStep ==
  ASSUME Inv, TypeOK',
         NEW m \in Messages, NEW taskId \in TaskId \cup {None},
         NEW contextId, NEW kind,
         CreateTask(m, taskId, contextId, kind),
         UNCHANGED pushConfigs
  PROVE  SequencesIdentifyTasks' /\ ConfigsBelongToTasks' /\ Store!Next
<1> DEFINE id == IF taskId = None THEN m ELSE taskId
           kept == IF id \in DOMAIN tasks THEN tasks[id].artifacts ELSE None
           task == [ contextId |-> ContextOf(m, contextId),
                     state     |-> "completed",
                     history   |-> HistorySoFar(id) \o Said(m, kind),
                     artifacts |-> IF kind = "posts" THEN m ELSE kept ]
<1>1. tasks' = Put(tasks, id, task) /\ NumberTask(id)
  BY DEF CreateTask
<1>2. task.history = HistorySoFar(id) \o Said(m, kind)
  OBVIOUS
<1> HIDE DEF task, id
<1>3. /\ DOMAIN tasks' = DOMAIN tasks \cup {id}
      /\ tasks'[id] = task
      /\ \A u \in DOMAIN tasks \ {id} : tasks'[u] = tasks[u]
  BY <1>1 DEF Put
<1>4. DOMAIN taskSeq = DOMAIN tasks
  BY DEF Inv, SequencesIdentifyTasks
<1>5. ConfigsBelongToTasks'
  BY <1>3 DEF Inv, ConfigsBelongToTasks
<1>6. CASE id \in DOMAIN tasks
  <2>1. taskSeq' = taskSeq /\ nextSeq' = nextSeq
    BY <1>1, <1>4, <1>6 DEF NumberTask
  <2>2. SequencesIdentifyTasks'
    BY <1>3, <1>6, <2>1 DEF Inv, SequencesIdentifyTasks
  <2>3. Store!Continues(tasks[id].history, tasks'[id].history)
    <3>1. tasks[id].history \in Seq(Entry)
      BY <1>6 DEF Inv, TypeOK, Task
    <3>2. tasks'[id].history = tasks[id].history \o Said(m, kind)
      BY <1>2, <1>3, <1>6 DEF HistorySoFar
    <3>3. QED
      BY <3>1, <3>2, SaidType, SayingMoreContinues
  <2>4. Store!Extend(id)
    BY <1>3, <1>6, <2>1, <2>3 DEF Store!Extend
  <2>5. QED
    BY <1>3, <1>5, <2>2, <2>4 DEF Store!Next
<1>7. CASE id \notin DOMAIN tasks
  <2>1. taskSeq' = Put(taskSeq, id, nextSeq) /\ nextSeq' = nextSeq + 1
    BY <1>1, <1>4, <1>7 DEF NumberTask
  <2>2. /\ DOMAIN taskSeq' = DOMAIN tasks'
        /\ taskSeq'[id] = nextSeq
        /\ \A u \in DOMAIN tasks : taskSeq'[u] = taskSeq[u] /\ taskSeq[u] < nextSeq
    BY <1>3, <1>4, <1>7, <2>1 DEF Put, Inv, SequencesIdentifyTasks
  <2>3. nextSeq \in Nat /\ \A u \in DOMAIN tasks : taskSeq[u] \in Nat
    BY <1>4 DEF Inv, TypeOK
  <2>4. SequencesIdentifyTasks'
    BY <1>3, <1>4, <1>7, <2>1, <2>2, <2>3 DEF Inv, SequencesIdentifyTasks
  <2>5. tasks'[id].history # << >>
    BY <1>2, <1>3, <1>7, SaidType DEF HistorySoFar
  <2>6. Store!Open(id)
    BY <1>3, <1>7, <2>2, <2>5 DEF Store!Open
  <2>7. QED
    BY <1>3, <1>5, <2>4, <2>6 DEF Store!Next
<1>8. QED
  BY <1>6, <1>7

\* A status update extends the log of its task by a message, or by nothing.
LEMMA UpdateStatusStep ==
  ASSUME Inv, NEW t \in DOMAIN tasks, NEW state, NEW withMessage,
         UpdateStatus(t, state, withMessage),
         UNCHANGED << taskSeq, nextSeq, pushConfigs >>
  PROVE  SequencesIdentifyTasks' /\ ConfigsBelongToTasks' /\ Store!Next
<1> DEFINE said == [role |-> "agent", msg |-> None]
<1>1. /\ DOMAIN tasks' = DOMAIN tasks
      /\ \A u \in DOMAIN tasks \ {t} : tasks'[u] = tasks[u]
  BY DEF UpdateStatus
<1>2. tasks[t].history \in Seq(Entry) /\ said \in Entry
  BY DEF Inv, TypeOK, Task, Entry
<1>3. \/ tasks'[t].history = tasks[t].history
      \/ tasks'[t].history = Append(tasks[t].history, said)
  BY DEF UpdateStatus, Inv, TypeOK, Task
<1>4. Store!Continues(tasks[t].history, tasks'[t].history)
  BY <1>2, <1>3 DEF Store!Continues
<1>5. Store!Extend(t)
  BY <1>1, <1>4 DEF Store!Extend
<1>6. SequencesIdentifyTasks' /\ ConfigsBelongToTasks'
  BY <1>1 DEF Inv, SequencesIdentifyTasks, ConfigsBelongToTasks
<1>7. QED
  BY <1>1, <1>5, <1>6 DEF Store!Next

\* A step that touches neither tasks nor their numbers.
LEMMA OtherStep ==
  ASSUME Inv, UNCHANGED << tasks, taskSeq, nextSeq >>,
         \/ UNCHANGED pushConfigs
         \/ \E t \in TaskId, c \in ConfigIds : SetPushConfig(t, c) \/ DeletePushConfig(t, c)
  PROVE  SequencesIdentifyTasks' /\ ConfigsBelongToTasks' /\ UNCHANGED LogVars
<1>1. SequencesIdentifyTasks' /\ UNCHANGED LogVars
  BY DEF Inv, SequencesIdentifyTasks, LogVars
<1>2. ASSUME NEW t \in TaskId, NEW c \in ConfigIds,
             SetPushConfig(t, c) \/ DeletePushConfig(t, c)
      PROVE  ConfigsBelongToTasks'
  BY <1>2 DEF SetPushConfig, DeletePushConfig, WithoutConfig, Put, Drop,
              ConfigsOf, RequireTask, Inv, ConfigsBelongToTasks
<1>3. QED
  BY <1>1, <1>2 DEF Inv, ConfigsBelongToTasks

LEMMA NextStep ==
  ASSUME Inv, [Next]_vars
  PROVE  Inv' /\ [Store!Next]_LogVars
<1> USE DEF Inv
<1>1. TypeOK'
  BY NextTypeOK
<1>2. ASSUME NEW m \in Messages, MessageSend(m)
      PROVE  Inv' /\ [Store!Next]_LogVars
  <2>1. PICK taskId \in TaskId \cup {None} :
          \/ RefuseSend(m, taskId)
          \/ \E contextId \in Contexts \cup {None} :
               \/ \E kind \in Kinds : BeginSend(m, taskId, contextId, kind)
               \/ "plain" \in Kinds /\ SendWithoutHandler(m, taskId, contextId)
    BY <1>2 DEF MessageSend
  <2>2. ASSUME NEW contextId \in Contexts \cup {None},
               SendWithoutHandler(m, taskId, contextId)
        PROVE  Inv' /\ [Store!Next]_LogVars
    BY <1>1, <2>2, CreateTaskStep DEF SendWithoutHandler
  <2>3. ASSUME NEW contextId, NEW kind, BeginSend(m, taskId, contextId, kind)
        PROVE  Inv' /\ [Store!Next]_LogVars
    BY <1>1, <2>3, OtherStep DEF BeginSend
  <2>4. CASE RefuseSend(m, taskId)
    BY <1>1, <2>4, OtherStep DEF RefuseSend
  <2>5. QED
    BY <2>1, <2>2, <2>3, <2>4
<1>3. ASSUME NEW m \in Messages, HandlerResolves(m)
      PROVE  Inv' /\ [Store!Next]_LogVars
  <2>1. call[m].taskId \in TaskId \cup {None}
    BY DEF TypeOK, Call
  <2>2. QED
    BY <1>1, <1>3, <2>1, CreateTaskStep DEF HandlerResolves
<1>4. ASSUME NEW m \in Messages, HandlerRejects(m)
      PROVE  Inv' /\ [Store!Next]_LogVars
  BY <1>1, <1>4, OtherStep DEF HandlerRejects
<1>5. ASSUME NEW t \in TaskId, TaskMethod(t)
      PROVE  Inv' /\ [Store!Next]_LogVars
  <2>1. CASE CancelTask(t)
    BY <1>1, <2>1, UpdateStatusStep DEF CancelTask, RequireTask
  <2>2. ASSUME NEW state \in TaskState, NEW withMessage \in BOOLEAN,
               SetTaskStatus(t, state, withMessage)
        PROVE  Inv' /\ [Store!Next]_LogVars
    BY <1>1, <2>2, UpdateStatusStep DEF SetTaskStatus, RequireTask
  <2>3. ASSUME NEW c \in ConfigIds, SetPushConfig(t, c) \/ DeletePushConfig(t, c)
        PROVE  Inv' /\ [Store!Next]_LogVars
    <3>1. UNCHANGED << tasks, taskSeq, nextSeq >>
      BY <2>3 DEF SetPushConfig, DeletePushConfig
    <3>2. QED
      BY <1>1, <2>3, <3>1, OtherStep
  <2>4. QED
    BY <1>5, <2>1, <2>2, <2>3 DEF TaskMethod
<1>6. ASSUME NEW d \in Subscription, SettleDelivery(d)
      PROVE  Inv' /\ [Store!Next]_LogVars
  BY <1>1, <1>6, OtherStep DEF SettleDelivery
<1>7. CASE Stop \/ FlushPushNotifications \/ ServerClosed
  BY <1>1, <1>7, OtherStep DEF Stop, FlushPushNotifications, ServerClosed
<1>8. CASE UNCHANGED vars
  BY <1>1, <1>8, OtherStep DEF vars
<1>9. QED
  BY <1>2, <1>3, <1>4, <1>5, <1>6, <1>7, <1>8 DEF Next

LEMMA InitInv == Init => Inv /\ Store!Init
<1> SUFFICES ASSUME Init PROVE Inv /\ Store!Init
  OBVIOUS
<1>1. TypeOK
  BY InitTypeOK
<1>2. SequencesIdentifyTasks /\ ConfigsBelongToTasks
  BY DEF Init, SequencesIdentifyTasks, ConfigsBelongToTasks
<1>3. [t \in DOMAIN tasks |-> tasks[t].history] = << >> /\ taskSeq = << >>
  BY DEF Init
<1>4. QED
  BY <1>1, <1>2, <1>3 DEF Inv, Store!Init

\* No two tasks ever share a creation sequence, every stored task has one, and
\* the counter is ahead of them all: a page token names one place in the
\* listing for good.
THEOREM SequencesAreIdentities == Spec => []SequencesIdentifyTasks
<1>1. Inv => SequencesIdentifyTasks
  BY DEF Inv
<1>2. QED
  BY <1>1, InitInv, NextStep, PTL DEF Spec

\* The webhook registry never outgrows the store.
THEOREM ConfigsHaveTasks == Spec => []ConfigsBelongToTasks
<1>1. Inv => ConfigsBelongToTasks
  BY DEF Inv
<1>2. QED
  BY <1>1, InitInv, NextStep, PTL DEF Spec

\* The server implements TaskLog: no interleaving of sends that await their
\* handlers, cancels and status updates loses a task, renumbers one or
\* rewrites a history.
THEOREM ServerImplementsTaskLog == Spec => StoreIsALog
<1>1. QED
  BY InitInv, NextStep, PTL DEF Spec, StoreIsALog, Store!Spec, LogVars

-----------------------------------------------------------------------------
(* Which calls the histories record, and what follows what in them *)

\* Entry i of history h is the message of call n.
Asked(h, i, n) == h[i] = [role |-> "user", msg |-> n]

\* A history of known length, then more: the entry of each index.
LEMMA EntriesOfLonger ==
  ASSUME NEW h \in Seq(Entry), NEW more \in Seq(Entry)
  PROVE  /\ DOMAIN (h \o more) = 1 .. Len(h) + Len(more)
         /\ \A i \in DOMAIN h : i \in DOMAIN (h \o more) /\ (h \o more)[i] = h[i]
         /\ \A i \in DOMAIN more : /\ Len(h) + i \in DOMAIN (h \o more)
                                   /\ (h \o more)[Len(h) + i] = more[i]
         /\ \A i \in DOMAIN (h \o more) :
              i \in DOMAIN h \/ \E j \in DOMAIN more : i = Len(h) + j
<1>1. /\ DOMAIN h = 1 .. Len(h) /\ Len(h) \in Nat
      /\ DOMAIN more = 1 .. Len(more) /\ Len(more) \in Nat
      /\ Len(h \o more) = Len(h) + Len(more)
      /\ DOMAIN (h \o more) = 1 .. Len(h \o more)
  OBVIOUS
<1>2. \A i \in 1 .. Len(h) + Len(more) :
        (h \o more)[i] = IF i <= Len(h) THEN h[i] ELSE more[i - Len(h)]
  OBVIOUS
<1>3. \A i \in DOMAIN more : /\ Len(h) + i \in 1 .. Len(h) + Len(more)
                             /\ ~ (Len(h) + i <= Len(h))
                             /\ (Len(h) + i) - Len(h) = i
  BY <1>1
<1>4. \A i \in DOMAIN (h \o more) :
        i \in DOMAIN h \/ \E j \in DOMAIN more : i = Len(h) + j
  <2>1. SUFFICES ASSUME NEW i \in 1 .. Len(h) + Len(more), i \notin 1 .. Len(h)
                 PROVE  \E j \in 1 .. Len(more) : i = Len(h) + j
    BY <1>1
  <2>2. i - Len(h) \in 1 .. Len(more) /\ i = Len(h) + (i - Len(h))
    BY <1>1, <2>1
  <2>3. QED
    BY <2>2
<1>5. QED
  BY <1>1, <1>2, <1>3, <1>4

\* The only change to the histories of a step that says something: that of
\* task id is continued by `more`, or opened with it.
Extended(id, more) ==
  /\ DOMAIN tasks' = DOMAIN tasks \cup {id}
  /\ \A u \in DOMAIN tasks \ {id} : tasks'[u].history = tasks[u].history
  /\ tasks'[id].history = HistorySoFar(id) \o more

\* After such a step a message stands where it stood, and where `more` says it.
LEMMA PlacesGrow ==
  ASSUME TypeOK, NEW id, NEW more \in Seq(Entry), Extended(id, more),
         NEW n \in Messages
  PROVE  Places(n)' = Places(n) \cup
           { << id, Len(HistorySoFar(id)) + i >> :
               i \in { j \in DOMAIN more : Asked(more, j, n) } }
<1> DEFINE h == HistorySoFar(id)
           New == { << id, Len(h) + i >> :
                      i \in { j \in DOMAIN more : Asked(more, j, n) } }
<1>1. h \in Seq(Entry) /\ Len(h) \in Nat
  <2>1. CASE id \in DOMAIN tasks
    BY <2>1 DEF HistorySoFar, TypeOK, Task
  <2>2. CASE id \notin DOMAIN tasks
    BY <2>2 DEF HistorySoFar
  <2>3. QED
    BY <2>1, <2>2
<1>2. \A p : p \in Places(n) <=>
        \E t \in DOMAIN tasks : \E i \in DOMAIN tasks[t].history :
          p = << t, i >> /\ Asked(tasks[t].history, i, n)
  BY DEF Places, Asked
<1>3. \A p : p \in Places(n)' <=>
        \E t \in DOMAIN tasks' : \E i \in DOMAIN tasks'[t].history :
          p = << t, i >> /\ Asked(tasks'[t].history, i, n)
  BY DEF Places, Asked
<1>4. /\ DOMAIN tasks' = DOMAIN tasks \cup {id}
      /\ \A u \in DOMAIN tasks \ {id} : tasks'[u].history = tasks[u].history
      /\ tasks'[id].history = h \o more
  BY DEF Extended
<1>5. IF id \in DOMAIN tasks THEN h = tasks[id].history ELSE h = << >>
  BY DEF HistorySoFar
<1> HIDE DEF h, New
<1>6. /\ \A i \in DOMAIN h : i \in DOMAIN (h \o more) /\ (h \o more)[i] = h[i]
      /\ \A i \in DOMAIN more : /\ Len(h) + i \in DOMAIN (h \o more)
                                /\ (h \o more)[Len(h) + i] = more[i]
      /\ \A i \in DOMAIN (h \o more) :
           i \in DOMAIN h \/ \E j \in DOMAIN more : i = Len(h) + j
  BY <1>1, EntriesOfLonger
<1>7. ASSUME NEW p \in Places(n)'
      PROVE  p \in Places(n) \cup New
  <2>0. PICK t \in DOMAIN tasks' : \E i \in DOMAIN tasks'[t].history :
          p = << t, i >> /\ Asked(tasks'[t].history, i, n)
    BY <1>3
  <2>1. PICK i \in DOMAIN tasks'[t].history :
          p = << t, i >> /\ Asked(tasks'[t].history, i, n)
    BY <2>0
  <2>2. CASE t # id
    <3>1. t \in DOMAIN tasks /\ tasks'[t].history = tasks[t].history
      BY <1>4, <2>2
    <3>2. QED
      BY <1>2, <2>1, <3>1
  <2>3. CASE t = id /\ i \in DOMAIN h
    <3>1. id \in DOMAIN tasks /\ h = tasks[id].history
      BY <1>5, <2>3
    <3>2. Asked(h, i, n)
      BY <1>4, <1>6, <2>1, <2>3 DEF Asked
    <3>3. QED
      BY <1>2, <2>1, <2>3, <3>1, <3>2
  <2>4. CASE t = id /\ i \notin DOMAIN h
    <3>1. PICK j \in DOMAIN more : i = Len(h) + j
      BY <1>4, <1>6, <2>1, <2>4
    <3>2. Asked(more, j, n)
      BY <1>4, <1>6, <2>1, <2>4, <3>1 DEF Asked
    <3>3. QED
      BY <2>1, <2>4, <3>1, <3>2 DEF New, h
  <2>5. QED
    BY <2>2, <2>3, <2>4
<1>8. ASSUME NEW p \in Places(n)
      PROVE  p \in Places(n)'
  <2>0. PICK t \in DOMAIN tasks : \E i \in DOMAIN tasks[t].history :
          p = << t, i >> /\ Asked(tasks[t].history, i, n)
    BY <1>2
  <2>1. PICK i \in DOMAIN tasks[t].history :
          p = << t, i >> /\ Asked(tasks[t].history, i, n)
    BY <2>0
  <2>2. i \in DOMAIN tasks'[t].history /\ Asked(tasks'[t].history, i, n)
    <3>1. CASE t # id
      BY <1>4, <2>1, <3>1
    <3>2. CASE t = id
      <4>1. i \in DOMAIN h /\ Asked(h, i, n) /\ tasks'[id].history = h \o more
        BY <1>4, <1>5, <2>1, <3>2
      <4>2. QED
        BY <1>6, <3>2, <4>1 DEF Asked
    <3>3. QED
      BY <3>1, <3>2
  <2>3. QED
    BY <1>3, <1>4, <2>1, <2>2
<1>9. ASSUME NEW p \in New
      PROVE  p \in Places(n)'
  <2>1. PICK j \in DOMAIN more : p = << id, Len(h) + j >> /\ Asked(more, j, n)
    BY <1>9 DEF New, h
  <2>2. /\ Len(h) + j \in DOMAIN tasks'[id].history
        /\ Asked(tasks'[id].history, Len(h) + j, n)
    BY <1>4, <1>6, <2>1 DEF Asked
  <2>3. QED
    BY <1>3, <1>4, <2>1, <2>2
<1>10. QED
  BY <1>7, <1>8, <1>9 DEF New, h

\* In history h a reply follows the message it answers: what
\* RepliesFollowTheirMessage says of every stored history.
Replying(h) ==
  \A i \in DOMAIN h :
    h[i].role = "agent" /\ h[i].msg # None => i > 1 /\ Asked(h, i - 1, h[i].msg)

LEMMA RepliesAreReplying ==
  RepliesFollowTheirMessage <=> \A t \in DOMAIN tasks : Replying(tasks[t].history)
BY DEF RepliesFollowTheirMessage, Replying, Asked

\* Two histories in which replies follow their messages, one after the other.
LEMMA ReplyingLonger ==
  ASSUME NEW h \in Seq(Entry), NEW more \in Seq(Entry), Replying(h), Replying(more)
  PROVE  Replying(h \o more)
<1> DEFINE both == h \o more
<1>1. /\ DOMAIN both = 1 .. Len(h) + Len(more)
      /\ \A i \in DOMAIN h : i \in DOMAIN both /\ both[i] = h[i]
      /\ \A i \in DOMAIN more : Len(h) + i \in DOMAIN both /\ both[Len(h) + i] = more[i]
      /\ \A i \in DOMAIN both : i \in DOMAIN h \/ \E j \in DOMAIN more : i = Len(h) + j
  BY EntriesOfLonger
<1>2. DOMAIN h = 1 .. Len(h) /\ DOMAIN more = 1 .. Len(more) /\ Len(h) \in Nat
  OBVIOUS
<1> HIDE DEF both
<1>3. SUFFICES ASSUME NEW i \in DOMAIN both, both[i].role = "agent", both[i].msg # None
               PROVE  i > 1 /\ Asked(both, i - 1, both[i].msg)
  BY DEF Replying, both
<1>4. CASE i \in DOMAIN h
  <2>1. i > 1 /\ Asked(h, i - 1, h[i].msg)
    BY <1>1, <1>3, <1>4 DEF Replying
  <2>2. i - 1 \in DOMAIN h
    BY <1>2, <1>4, <2>1
  <2>3. QED
    BY <1>1, <1>4, <2>1, <2>2 DEF Asked
<1>5. CASE i \notin DOMAIN h
  <2>1. PICK j \in DOMAIN more : i = Len(h) + j
    BY <1>1, <1>3, <1>5
  <2>2. both[i] = more[j]
    BY <1>1, <2>1
  <2>3. j > 1 /\ Asked(more, j - 1, more[j].msg)
    BY <1>3, <2>1, <2>2 DEF Replying
  <2>4. j - 1 \in DOMAIN more /\ Len(h) + (j - 1) = i - 1 /\ i > 1
    BY <1>2, <2>1, <2>3
  <2>5. both[i - 1] = more[j - 1]
    BY <1>1, <2>4
  <2>6. QED
    BY <2>2, <2>3, <2>4, <2>5 DEF Asked
<1>6. QED
  BY <1>4, <1>5

\* A step that says something in which replies follow their messages.
LEMMA RepliesGrow ==
  ASSUME TypeOK, RepliesFollowTheirMessage,
         NEW id, NEW more \in Seq(Entry), Extended(id, more), Replying(more)
  PROVE  RepliesFollowTheirMessage'
<1>1. HistorySoFar(id) \in Seq(Entry) /\ Replying(HistorySoFar(id))
  <2>1. CASE id \in DOMAIN tasks
    <3>1. tasks[id].history \in Seq(Entry)
      BY <2>1 DEF TypeOK, Task
    <3>2. QED
      BY <2>1, <3>1, RepliesAreReplying DEF HistorySoFar
  <2>2. CASE id \notin DOMAIN tasks
    BY <2>2 DEF HistorySoFar, Replying
  <2>3. QED
    BY <2>1, <2>2
<1>2. Replying(tasks'[id].history)
  BY <1>1, ReplyingLonger DEF Extended
<1>3. \A t \in DOMAIN tasks' : Replying(tasks'[t].history)
  BY <1>2, RepliesAreReplying DEF Extended
<1>4. QED
  BY <1>3 DEF RepliesFollowTheirMessage, Replying, Asked

\* What a recorded call says: its message first and once, and a reply only
\* behind it.
LEMMA SaidOnce ==
  ASSUME NEW m \in Messages, NEW kind
  PROVE  /\ 1 \in DOMAIN Said(m, kind)
         /\ \A n : \A j \in DOMAIN Said(m, kind) :
              Asked(Said(m, kind), j, n) <=> n = m /\ j = 1
         /\ Replying(Said(m, kind))
<1> DEFINE asked == [role |-> "user", msg |-> m]
           answered == [role |-> "agent", msg |-> m]
<1>1. "user" # "agent"
  OBVIOUS
<1>2. \A n : asked = [role |-> "user", msg |-> n] <=> n = m
  <2>1. SUFFICES ASSUME NEW n, asked = [role |-> "user", msg |-> n] PROVE n = m
    OBVIOUS
  <2>2. asked.msg = n
    BY <2>1
  <2>3. QED
    BY <2>2
<1>3. \A n : answered # [role |-> "user", msg |-> n]
  <2>1. SUFFICES ASSUME NEW n, answered = [role |-> "user", msg |-> n] PROVE FALSE
    OBVIOUS
  <2>2. answered.role = "user"
    BY <2>1
  <2>3. QED
    BY <2>2
<1>4. asked.role = "user" /\ answered.role = "agent" /\ answered.msg = m
  OBVIOUS
<1> HIDE DEF asked, answered
<1>5. CASE kind = "chat"
  <2>1. Said(m, kind) = << asked, answered >>
    BY <1>5 DEF Said, asked, answered
  <2>2. DOMAIN << asked, answered >> = {1, 2}
    OBVIOUS
  <2>3. << asked, answered >>[1] = asked /\ << asked, answered >>[2] = answered
    OBVIOUS
  <2>4. Replying(<< asked, answered >>)
    BY <1>1, <1>4, <2>2, <2>3 DEF Replying, Asked, asked
  <2>5. QED
    BY <1>2, <1>3, <2>1, <2>2, <2>3, <2>4 DEF Asked
<1>6. CASE kind # "chat"
  <2>1. Said(m, kind) = << asked >>
    BY <1>6 DEF Said, asked
  <2>2. DOMAIN << asked >> = {1} /\ << asked >>[1] = asked
    OBVIOUS
  <2>3. Replying(<< asked >>)
    BY <1>1, <1>4, <2>2 DEF Replying
  <2>4. QED
    BY <1>2, <2>1, <2>2, <2>3 DEF Asked
<1>7. QED
  BY <1>5, <1>6

\* The histories tell which calls were answered with a task, and what replies
\* to what; inductive with the types alone.
HistoryInv == TypeOK /\ AnsweredSendRecordedOnce /\ RepliesFollowTheirMessage

\* createTask for a call not recorded before: the message gets its one place.
LEMMA RecordingStep ==
  ASSUME HistoryInv,
         NEW m \in Messages, NEW taskId \in TaskId \cup {None},
         NEW contextId, NEW kind,
         CreateTask(m, taskId, contextId, kind),
         call[m].pc # "recorded", call'[m].pc = "recorded",
         \A n \in Messages \ {m} : call'[n].pc = call[n].pc
  PROVE  AnsweredSendRecordedOnce' /\ RepliesFollowTheirMessage'
<1> DEFINE id == IF taskId = None THEN m ELSE taskId
           kept == IF id \in DOMAIN tasks THEN tasks[id].artifacts ELSE None
           task == [ contextId |-> ContextOf(m, contextId),
                     state     |-> "completed",
                     history   |-> HistorySoFar(id) \o Said(m, kind),
                     artifacts |-> IF kind = "posts" THEN m ELSE kept ]
           more == Said(m, kind)
           place == << id, Len(HistorySoFar(id)) + 1 >>
<1>1. Extended(id, more)
  <2>1. tasks' = Put(tasks, id, task) /\ task.history = HistorySoFar(id) \o more
    BY DEF CreateTask
  <2> HIDE DEF task, id, more
  <2>2. QED
    BY <2>1 DEF Put, Extended
<1>2. more \in Seq(Entry) /\ Replying(more)
  BY SaidType, SaidOnce
<1>3. RepliesFollowTheirMessage'
  <2> HIDE DEF id, more
  <2>1. QED
    BY <1>1, <1>2, RepliesGrow DEF HistoryInv
<1>4. \A n \in Messages : Places(n)' = Places(n) \cup (IF n = m THEN {place} ELSE {})
  <2>1. TAKE n \in Messages
  <2>2. { j \in DOMAIN more : Asked(more, j, n) } = IF n = m THEN {1} ELSE {}
    BY SaidOnce
  <2>3. Places(n)' = Places(n) \cup
          { << id, Len(HistorySoFar(id)) + i >> :
              i \in { j \in DOMAIN more : Asked(more, j, n) } }
    <3> HIDE DEF id, more
    <3>1. QED
      BY <1>1, <1>2, PlacesGrow DEF HistoryInv
  <2> HIDE DEF id, more
  <2>4. QED
    BY <2>2, <2>3 DEF place
<1> HIDE DEF place
<1>5. AnsweredSendRecordedOnce'
  <2>1. ASSUME NEW n \in Messages
        PROVE  IF call'[n].pc = "recorded" THEN \E p \in Places(n)' : Places(n)' = {p}
                                           ELSE Places(n)' = {}
    <3>1. CASE n = m
      <4>1. Places(n) = {}
        BY <3>1 DEF HistoryInv, AnsweredSendRecordedOnce
      <4>2. Places(n)' = {place}
        BY <1>4, <3>1, <4>1
      <4>3. QED
        BY <3>1, <4>2
    <3>2. CASE n # m
      <4>1. Places(n)' = Places(n) /\ call'[n].pc = call[n].pc
        BY <1>4, <3>2
      <4>2. QED
        BY <4>1 DEF HistoryInv, AnsweredSendRecordedOnce
    <3>3. QED
      BY <3>1, <3>2
  <2>2. QED
    BY <2>1 DEF AnsweredSendRecordedOnce
<1>6. QED
  BY <1>3, <1>5

\* setTaskStatus: a status message is nobody's message and no reply.
LEMMA StatusStep ==
  ASSUME HistoryInv, NEW t \in DOMAIN tasks, NEW state, NEW withMessage,
         UpdateStatus(t, state, withMessage), UNCHANGED call
  PROVE  AnsweredSendRecordedOnce' /\ RepliesFollowTheirMessage'
<1> DEFINE said == [role |-> "agent", msg |-> None]
           more == IF withMessage THEN << said >> ELSE << >>
<1>1. tasks[t].history \in Seq(Entry) /\ said \in Entry
  BY DEF HistoryInv, TypeOK, Task, Entry
<1>2. more \in Seq(Entry)
  BY <1>1
<1>3. Extended(t, more)
  <2>1. /\ DOMAIN tasks' = DOMAIN tasks
        /\ \A u \in DOMAIN tasks \ {t} : tasks'[u] = tasks[u]
    BY DEF UpdateStatus
  <2>2. tasks'[t].history = IF withMessage THEN Append(tasks[t].history, said)
                                           ELSE tasks[t].history
    BY DEF UpdateStatus, HistoryInv, TypeOK, Task
  <2>3. tasks'[t].history = tasks[t].history \o more
    <3> HIDE DEF said
    <3>1. CASE withMessage
      BY <1>1, <2>2, <3>1
    <3>2. CASE ~ withMessage
      BY <1>1, <2>2, <3>2
    <3>3. QED
      BY <3>1, <3>2
  <2> HIDE DEF more
  <2>4. QED
    BY <2>1, <2>3 DEF Extended, HistorySoFar
<1>4. \A j \in DOMAIN more : more[j] = said
  BY <1>1
<1>5. said.msg = None /\ said.role = "agent" /\ "agent" # "user"
  OBVIOUS
<1>6. \A n, j : j \in DOMAIN more => ~ Asked(more, j, n)
  BY <1>4, <1>5 DEF Asked
<1>7. Replying(more)
  <2> HIDE DEF said, more
  <2>1. QED
    BY <1>4, <1>5 DEF Replying
<1> HIDE DEF more
<1>8. RepliesFollowTheirMessage'
  BY <1>2, <1>3, <1>7, RepliesGrow DEF HistoryInv
<1>9. \A n \in Messages : Places(n)' = Places(n)
  <2>1. TAKE n \in Messages
  <2>2. { j \in DOMAIN more : Asked(more, j, n) } = {}
    BY <1>6
  <2>3. Places(n)' = Places(n) \cup
          { << t, Len(HistorySoFar(t)) + i >> :
              i \in { j \in DOMAIN more : Asked(more, j, n) } }
    BY <1>2, <1>3, PlacesGrow DEF HistoryInv
  <2>4. QED
    BY <2>2, <2>3
<1>10. AnsweredSendRecordedOnce'
  BY <1>9 DEF HistoryInv, AnsweredSendRecordedOnce
<1>11. QED
  BY <1>8, <1>10

\* Every other step leaves the histories alone and records no call.
LEMMA SilentStep ==
  ASSUME HistoryInv, UNCHANGED tasks,
         \A n \in Messages : call'[n].pc = "recorded" <=> call[n].pc = "recorded"
  PROVE  AnsweredSendRecordedOnce' /\ RepliesFollowTheirMessage'
<1>1. \A n : Places(n)' = Places(n)
  BY DEF Places
<1>2. AnsweredSendRecordedOnce'
  BY <1>1 DEF HistoryInv, AnsweredSendRecordedOnce
<1>3. RepliesFollowTheirMessage'
  BY DEF HistoryInv, RepliesFollowTheirMessage
<1>4. QED
  BY <1>2, <1>3

LEMMA NextHistoryInv == HistoryInv /\ [Next]_vars => HistoryInv'
<1> SUFFICES ASSUME HistoryInv, [Next]_vars PROVE HistoryInv'
  OBVIOUS
<1> DEFINE Goal == AnsweredSendRecordedOnce' /\ RepliesFollowTheirMessage'
<1>1. TypeOK'
  BY NextTypeOK DEF HistoryInv
<1>2. \A n \in Messages : call[n] \in Call
  BY DEF HistoryInv, TypeOK
<1>3. \A n \in Messages, c \in Call :
        call' = [call EXCEPT ![n] = c]
          => call'[n] = c /\ \A o \in Messages \ {n} : call'[o] = call[o]
  BY DEF HistoryInv, TypeOK
<1>4. ASSUME NEW m \in Messages, MessageSend(m) PROVE Goal
  <2>1. PICK taskId \in TaskId \cup {None} :
          \/ RefuseSend(m, taskId)
          \/ \E contextId \in Contexts \cup {None} :
               \/ \E kind \in Kinds : BeginSend(m, taskId, contextId, kind)
               \/ "plain" \in Kinds /\ SendWithoutHandler(m, taskId, contextId)
    BY <1>4 DEF MessageSend
  <2>2. CASE RefuseSend(m, taskId)
    <3>1. [call[m] EXCEPT !.pc = "refused"] \in Call
      BY <1>2 DEF Call
    <3>2. call[m].pc = "new" /\ call'[m].pc = "refused"
            /\ \A o \in Messages \ {m} : call'[o] = call[o]
      BY <1>2, <1>3, <2>2, <3>1 DEF RefuseSend, Call
    <3>3. QED
      BY <2>2, <3>2, SilentStep DEF RefuseSend
  <2>3. ASSUME NEW contextId \in Contexts \cup {None}, NEW kind \in Kinds,
               BeginSend(m, taskId, contextId, kind)
        PROVE  Goal
    <3>1. [pc |-> "handling", taskId |-> taskId, contextId |-> contextId,
           kind |-> kind] \in Call
      BY ConstantsAssumption DEF Call
    <3>2. call[m].pc = "new" /\ call'[m].pc = "handling"
            /\ \A o \in Messages \ {m} : call'[o] = call[o]
      <4> DEFINE begun == [pc |-> "handling", taskId |-> taskId,
                           contextId |-> contextId, kind |-> kind]
      <4>1. begun \in Call /\ begun.pc = "handling"
        BY <3>1
      <4>2. call[m].pc = "new" /\ call' = [call EXCEPT ![m] = begun]
        BY <2>3 DEF BeginSend
      <4> HIDE DEF begun
      <4>3. QED
        BY <1>3, <4>1, <4>2
    <3>3. QED
      BY <2>3, <3>2, SilentStep DEF BeginSend
  <2>4. ASSUME NEW contextId \in Contexts \cup {None},
               SendWithoutHandler(m, taskId, contextId)
        PROVE  Goal
    <3>1. [call[m] EXCEPT !.pc = "recorded"] \in Call
      BY <1>2 DEF Call
    <3>2. call[m].pc = "new" /\ call'[m].pc = "recorded"
            /\ \A o \in Messages \ {m} : call'[o] = call[o]
      BY <1>2, <1>3, <2>4, <3>1 DEF SendWithoutHandler, Call
    <3>3. QED
      BY <2>4, <3>2, RecordingStep DEF SendWithoutHandler
  <2>5. QED
    BY <2>1, <2>2, <2>3, <2>4
<1>5. ASSUME NEW m \in Messages, HandlerResolves(m) \/ HandlerRejects(m) PROVE Goal
  <2>1. \A pc \in {"recorded", "failed"} : /\ [NewCall EXCEPT !.pc = pc] \in Call
                                           /\ [NewCall EXCEPT !.pc = pc].pc = pc
    BY DEF NewCall, Call
  <2>2. CASE HandlerResolves(m)
    <3>1. call[m].pc = "handling" /\ call'[m].pc = "recorded"
            /\ \A o \in Messages \ {m} : call'[o] = call[o]
      BY <1>3, <2>1, <2>2 DEF HandlerResolves
    <3>2. call[m].taskId \in TaskId \cup {None}
      BY <1>2 DEF Call
    <3>3. QED
      BY <2>2, <3>1, <3>2, RecordingStep DEF HandlerResolves
  <2>3. CASE HandlerRejects(m)
    <3>1. call[m].pc = "handling" /\ call'[m].pc = "failed"
            /\ \A o \in Messages \ {m} : call'[o] = call[o]
      BY <1>3, <2>1, <2>3 DEF HandlerRejects
    <3>2. QED
      BY <2>3, <3>1, SilentStep DEF HandlerRejects
  <2>4. QED
    BY <1>5, <2>2, <2>3
<1>6. ASSUME NEW t \in TaskId, TaskMethod(t) PROVE Goal
  <2>1. CASE CancelTask(t)
    BY <2>1, StatusStep DEF CancelTask, RequireTask
  <2>2. ASSUME NEW state \in TaskState, NEW withMessage \in BOOLEAN,
               SetTaskStatus(t, state, withMessage)
        PROVE  Goal
    BY <2>2, StatusStep DEF SetTaskStatus, RequireTask
  <2>3. ASSUME NEW c \in ConfigIds, SetPushConfig(t, c) \/ DeletePushConfig(t, c)
        PROVE  Goal
    BY <2>3, SilentStep DEF SetPushConfig, DeletePushConfig
  <2>4. QED
    BY <1>6, <2>1, <2>2, <2>3 DEF TaskMethod
<1>7. ASSUME NEW d \in Subscription, SettleDelivery(d) PROVE Goal
  BY <1>7, SilentStep DEF SettleDelivery
<1>8. CASE Stop \/ FlushPushNotifications \/ ServerClosed
  <2>1. UNCHANGED << tasks, call >>
    BY <1>8 DEF Stop, FlushPushNotifications, ServerClosed
  <2>2. QED
    BY <1>1, <2>1, SilentStep DEF HistoryInv
<1>9. CASE UNCHANGED vars
  <2>1. UNCHANGED << tasks, call >>
    BY <1>9 DEF vars
  <2>2. QED
    BY <1>1, <2>1, SilentStep DEF HistoryInv
<1>10. HistoryInv' <=> Goal
  BY <1>1 DEF HistoryInv
<1>11. QED
  BY <1>4, <1>5, <1>6, <1>7, <1>8, <1>9, <1>10 DEF Next

LEMMA InitHistoryInv == Init => HistoryInv
<1> SUFFICES ASSUME Init PROVE HistoryInv
  OBVIOUS
<1>1. DOMAIN tasks = {}
  BY DEF Init
<1>2. \A m \in Messages : call[m].pc = "new" /\ Places(m) = {}
  BY <1>1 DEF Init, NewCall, Places
<1>3. QED
  BY <1>1, <1>2, InitTypeOK DEF HistoryInv, AnsweredSendRecordedOnce,
     RepliesFollowTheirMessage

\* However many message/send calls await their handlers on one task, whatever
\* cancels and status updates run in between and however often a call is
\* refused or its handler rejects: an answered call stands in one history,
\* once, and a call that got no task stands in none.
THEOREM SendsAreRecordedOnce == Spec => []AnsweredSendRecordedOnce
<1>1. HistoryInv => AnsweredSendRecordedOnce
  BY DEF HistoryInv
<1>2. QED
  BY <1>1, InitHistoryInv, NextHistoryInv, PTL DEF Spec

\* A handler's reply is never separated from the message it answers, although
\* the handler was awaited between the two.
THEOREM RepliesAreAdjacent == Spec => []RepliesFollowTheirMessage
<1>1. HistoryInv => RepliesFollowTheirMessage
  BY DEF HistoryInv
<1>2. QED
  BY <1>1, InitHistoryInv, NextHistoryInv, PTL DEF Spec

-----------------------------------------------------------------------------
(* Webhooks *)

\* What EveryChangeIsPosted asks of a step.
Posts ==
  \A t \in TaskId, c \in ConfigIds :
    LET changed == t \in DOMAIN tasks
                     /\ t \in DOMAIN tasks' /\ tasks[t] # tasks'[t]
    IN  /\ changed /\ c \in ConfigsOf(t)
             => pendingDeliveries'[t, c] = pendingDeliveries[t, c] + 1
        /\ c \notin ConfigsOf(t)
             => pendingDeliveries'[t, c] <= pendingDeliveries[t, c]

\* A step that fans out task id and changes no other task.
LEMMA FanOutPosts ==
  ASSUME TypeOK, NEW id \in TaskId, NotifyPushSubscribers(id),
         \A u \in DOMAIN tasks \ {id} : tasks'[u] = tasks[u]
  PROVE  Posts
<1>1. ASSUME NEW t \in TaskId, NEW c \in ConfigIds
      PROVE  /\ << t, c >> \in Subscription
             /\ pendingDeliveries[t, c] \in Nat
             /\ pendingDeliveries'[t, c] = IF t = id /\ c \in ConfigsOf(t)
                                             THEN pendingDeliveries[t, c] + 1
                                             ELSE pendingDeliveries[t, c]
  BY DEF Subscription, NotifyPushSubscribers, TypeOK
<1>2. ASSUME NEW t \in TaskId, NEW c \in ConfigIds
      PROVE  /\ t \in DOMAIN tasks /\ tasks[t] # tasks'[t] => t = id
             /\ t = id /\ c \in ConfigsOf(t)
                  => pendingDeliveries'[t, c] = pendingDeliveries[t, c] + 1
             /\ c \notin ConfigsOf(t)
                  => pendingDeliveries'[t, c] <= pendingDeliveries[t, c]
  <2>1. t \in DOMAIN tasks /\ tasks[t] # tasks'[t] => t = id
    OBVIOUS
  <2>2. \A k \in Nat : k <= k
    OBVIOUS
  <2>3. QED
    BY <1>1, <2>1, <2>2
<1>3. QED
  BY <1>2 DEF Posts

\* A step that changes no task and starts no delivery.
LEMMA QuietPosts ==
  ASSUME TypeOK, UNCHANGED tasks,
         \A d \in Subscription : pendingDeliveries'[d] <= pendingDeliveries[d]
  PROVE  Posts
BY DEF Posts, Subscription

LEMMA NextPosts == TypeOK /\ [Next]_vars => Posts
<1> SUFFICES ASSUME TypeOK, [Next]_vars PROVE Posts
  OBVIOUS
<1>1. \A d \in Subscription : pendingDeliveries[d] \in Nat
  BY DEF TypeOK
<1>2. UNCHANGED << tasks, pendingDeliveries >> => Posts
  BY <1>1, QuietPosts
<1>3. ASSUME NEW m \in Messages, NEW taskId \in TaskId \cup {None},
             NEW contextId, NEW kind, CreateTask(m, taskId, contextId, kind)
      PROVE  Posts
  <2> DEFINE id == IF taskId = None THEN m ELSE taskId
  <2>1. id \in TaskId
    BY DEF TaskId
  <2>2. NotifyPushSubscribers(id)
    BY <1>3 DEF CreateTask
  <2>3. \A u \in DOMAIN tasks \ {id} : tasks'[u] = tasks[u]
    BY <1>3 DEF CreateTask, Put
  <2> HIDE DEF id
  <2>4. QED
    BY <2>1, <2>2, <2>3, FanOutPosts
<1>4. ASSUME NEW t \in TaskId, NEW state, NEW withMessage,
             UpdateStatus(t, state, withMessage)
      PROVE  Posts
  <2>1. NotifyPushSubscribers(t) /\ \A u \in DOMAIN tasks \ {t} : tasks'[u] = tasks[u]
    BY <1>4 DEF UpdateStatus
  <2>2. QED
    BY <2>1, FanOutPosts
<1>5. ASSUME NEW m \in Messages, MessageSend(m)
      PROVE  Posts
  <2>1. PICK taskId \in TaskId \cup {None} :
          \/ RefuseSend(m, taskId)
          \/ \E contextId \in Contexts \cup {None} :
               \/ \E kind \in Kinds : BeginSend(m, taskId, contextId, kind)
               \/ "plain" \in Kinds /\ SendWithoutHandler(m, taskId, contextId)
    BY <1>5 DEF MessageSend
  <2>2. QED
    BY <1>2, <1>3, <2>1 DEF RefuseSend, BeginSend, SendWithoutHandler
<1>6. ASSUME NEW m \in Messages, HandlerResolves(m)
      PROVE  Posts
  <2>1. call[m].taskId \in TaskId \cup {None}
    BY DEF TypeOK, Call
  <2>2. QED
    BY <1>3, <1>6, <2>1 DEF HandlerResolves
<1>7. ASSUME NEW m \in Messages, HandlerRejects(m)
      PROVE  Posts
  BY <1>2, <1>7 DEF HandlerRejects
<1>8. ASSUME NEW t \in TaskId, TaskMethod(t)
      PROVE  Posts
  BY <1>2, <1>4, <1>8 DEF TaskMethod, CancelTask, SetTaskStatus, SetPushConfig,
                          DeletePushConfig
<1>9. ASSUME NEW d \in Subscription, SettleDelivery(d)
      PROVE  Posts
  <2>1. \A e \in Subscription : pendingDeliveries'[e] <= pendingDeliveries[e]
    BY <1>1, <1>9 DEF SettleDelivery, TypeOK
  <2>2. QED
    BY <1>9, <2>1, QuietPosts DEF SettleDelivery
<1>10. CASE Stop \/ FlushPushNotifications \/ ServerClosed
  BY <1>2, <1>10 DEF Stop, FlushPushNotifications, ServerClosed
<1>11. CASE UNCHANGED vars
  BY <1>2, <1>11 DEF vars
<1>12. QED
  BY <1>5, <1>6, <1>7, <1>8, <1>9, <1>10, <1>11 DEF Next

\* No interleaving of sends, cancels, status updates, changes of the webhook
\* registry and stop() changes a task without starting one POST to each of its
\* webhooks in the same step, or starts one that nobody registered.
THEOREM WebhooksMissNothing == Spec => EveryChangeIsPosted
<1>1. TypeOK /\ [Next]_vars => [Posts]_vars
  BY NextPosts
<1>2. QED
  BY <1>1, InitTypeOK, NextTypeOK, PTL DEF Spec, EveryChangeIsPosted, Posts

-----------------------------------------------------------------------------
(* A walk over tasks/list *)

\* The tasks a walk has returned are those at or above its token (a new task
\* is above them all), and of the steady ones it has returned all of those.
CursorSplitsListing ==
  walk = "paging" =>
    /\ \A t \in TaskId : returned[t] > 0 => t \in DOMAIN tasks /\ taskSeq[t] >= token
    /\ \A t \in steady : taskSeq[t] >= token => returned[t] = 1
    /\ token # 0

\* A steady task passes the filter now.
SteadyMatches == steady \subseteq Matching(tasks, filter)

NothingReturnedYet == walk = "idle" => \A t \in TaskId : returned[t] = 0

PagingInv ==
  /\ Inv
  /\ PagingTypeOK
  /\ NothingReturnedYet
  /\ SteadyMatches
  /\ CursorSplitsListing
  /\ NoTaskReturnedTwice
  /\ NoTaskMissed

-----------------------------------------------------------------------------

\* What TaskLog says of a step: stored tasks stay and keep their numbers.
LEMMA TasksKeepTheirNumbers ==
  ASSUME Inv, [Next]_vars
  PROVE  \A t \in DOMAIN tasks : t \in DOMAIN tasks' /\ taskSeq'[t] = taskSeq[t]
<1>1. [Store!Next]_LogVars
  BY NextStep
<1>2. DOMAIN taskSeq = DOMAIN tasks /\ Inv'
  BY NextStep DEF Inv, SequencesIdentifyTasks
<1>3. CASE UNCHANGED LogVars
  <2>1. [t \in DOMAIN tasks |-> tasks[t].history]' = [t \in DOMAIN tasks |-> tasks[t].history]
        /\ taskSeq' = taskSeq
    BY <1>3 DEF LogVars
  <2>2. DOMAIN tasks' = DOMAIN tasks
    BY <1>2, <2>1 DEF Inv, SequencesIdentifyTasks
  <2>3. QED
    BY <2>1, <2>2
<1>4. CASE Store!Next
  BY <1>2, <1>4 DEF Store!Next, Store!Open, Store!Extend
<1>5. QED
  BY <1>1, <1>3, <1>4

\* Another call in the middle of a walk.
LEMMA OtherCallKeepsInv ==
  ASSUME PagingInv, OtherCall \/ UNCHANGED allVars
  PROVE  PagingInv'
<1>1. /\ [Next]_vars
      /\ UNCHANGED << filter, token, walk, returned >>
      /\ \/ steady' = steady \cap Matching(tasks', filter)
         \/ UNCHANGED steady /\ UNCHANGED vars
  BY DEF OtherCall, allVars
<1>2. Inv'
  BY <1>1, NextStep DEF PagingInv
<1>3. \A t \in DOMAIN tasks : t \in DOMAIN tasks' /\ taskSeq'[t] = taskSeq[t]
  BY <1>1, TasksKeepTheirNumbers DEF PagingInv
<1>4. steady' \subseteq steady /\ steady \subseteq DOMAIN tasks
  BY <1>1 DEF PagingInv, PagingTypeOK, Matching
<1>5. SteadyMatches'
  BY <1>1 DEF PagingInv, SteadyMatches, vars, Matching
<1>6. PagingTypeOK'
  BY <1>1, <1>3, <1>4 DEF PagingInv, PagingTypeOK
<1>7. NothingReturnedYet' /\ NoTaskReturnedTwice' /\ NoTaskMissed'
  BY <1>1, <1>4 DEF PagingInv, NothingReturnedYet, NoTaskReturnedTwice, NoTaskMissed
<1>8. CursorSplitsListing'
  BY <1>1, <1>3, <1>4 DEF PagingInv, CursorSplitsListing
<1>9. QED
  BY <1>2, <1>5, <1>6, <1>7, <1>8 DEF PagingInv

\* One page, first or next: what it adds lies below the token it was asked
\* with, and what is left out lies below the token it hands out.
LEMMA PageKeepsInv ==
  ASSUME PagingInv, UNCHANGED vars,
         NEW f \in Filter, filter' = f, NEW tok, ListTasks(f, tok),
         \/ tok = 0 /\ walk = "idle" /\ steady' = Matching(tasks, f)
         \/ tok = token /\ walk = "paging" /\ f = filter /\ steady' = steady
  PROVE  PagingInv'
<1> DEFINE remaining == Remaining(Matching(tasks, f), tok)
<1>1. PICK page \in SUBSET remaining :
        /\ IsPage(page, remaining)
        /\ returned' = [t \in TaskId |->
                          IF t \in page THEN returned[t] + 1 ELSE returned[t]]
        /\ IF page = remaining
             THEN token' = 0 /\ walk' = "done"
             ELSE \E last \in page :
                    /\ \A t \in page : taskSeq[last] <= taskSeq[t]
                    /\ token' = TokenOf(last)
                    /\ walk' = "paging"
  BY DEF ListTasks
<1>2. /\ DOMAIN taskSeq = DOMAIN tasks
      /\ DOMAIN tasks \subseteq TaskId
      /\ \A t \in DOMAIN tasks : taskSeq[t] \in Nat /\ taskSeq[t] > 0
  BY DEF PagingInv, Inv, TypeOK, SequencesIdentifyTasks
<1>3. remaining \subseteq DOMAIN tasks
  BY DEF Remaining, Matching
<1>4. tok \in Nat /\ returned \in [TaskId -> Nat]
  BY DEF PagingInv, PagingTypeOK
<1>5. \A t \in page : returned[t] = 0
  BY <1>1, <1>2, <1>3, <1>4 DEF Remaining, PagingInv, NothingReturnedYet, CursorSplitsListing
<1>6. /\ returned' \in [TaskId -> Nat]
      /\ \A t \in page : returned'[t] = 1
      /\ \A t \in TaskId \ page : returned'[t] = returned[t]
  BY <1>1, <1>2, <1>3, <1>4, <1>5
<1>7. NoTaskReturnedTwice'
  BY <1>6 DEF PagingInv, NoTaskReturnedTwice
<1>8. SteadyMatches' /\ Inv' /\ steady' \subseteq DOMAIN tasks'
  <2>1. SteadyMatches'
    BY DEF PagingInv, SteadyMatches, vars
  <2>2. Inv'
    BY NextStep DEF PagingInv
  <2>3. QED
    BY <2>1, <2>2 DEF SteadyMatches, Matching
<1>9. \A t \in steady' : t \in Matching(tasks, f) /\ t \in DOMAIN tasks /\ t \in TaskId
  BY <1>2, <1>8 DEF SteadyMatches, Matching, vars
\* A steady task that the page leaves behind was below its token or returned.
<1>10. \A t \in steady' : t \in remaining \/ (t \notin page /\ returned[t] = 1)
  <2>1. CASE tok = 0
    BY <1>9, <2>1 DEF Remaining
  <2>2. CASE tok = token /\ walk = "paging" /\ f = filter /\ steady' = steady
    BY <1>2, <1>4, <1>5, <1>9, <2>2 DEF Remaining, PagingInv, CursorSplitsListing
  <2>3. QED
    BY <2>1, <2>2
<1> HIDE DEF remaining
<1>11. CASE page = remaining
  <2>1. token' = 0 /\ walk' = "done"
    BY <1>1, <1>11
  <2>2. NoTaskMissed'
    BY <1>6, <1>9, <1>10, <1>11 DEF NoTaskMissed
  <2>3. PagingTypeOK' /\ NothingReturnedYet' /\ CursorSplitsListing'
    BY <1>6, <1>8, <2>1 DEF PagingTypeOK, NothingReturnedYet, CursorSplitsListing
  <2>4. QED
    BY <1>7, <1>8, <2>2, <2>3 DEF PagingInv
<1>12. CASE page # remaining
  <2>1. PICK last \in page :
          /\ \A t \in page : taskSeq[last] <= taskSeq[t]
          /\ token' = taskSeq[last]
          /\ walk' = "paging"
    BY <1>1, <1>12 DEF TokenOf
  <2>2. token' \in Nat /\ token' # 0
    BY <1>2, <1>3, <2>1
  <2>3. \A t \in TaskId : returned'[t] > 0 => t \in DOMAIN tasks' /\ taskSeq'[t] >= token'
    <3>1. tok # 0 => taskSeq[last] < tok
      BY <1>1, <2>1 DEF remaining, Remaining
    <3>2. ASSUME NEW t \in TaskId \ page, returned[t] > 0
          PROVE  t \in DOMAIN tasks /\ taskSeq[t] >= token'
      BY <1>2, <1>3, <1>4, <2>1, <3>1, <3>2 DEF PagingInv, NothingReturnedYet, CursorSplitsListing
    <3>3. \A t \in page : t \in DOMAIN tasks /\ taskSeq[t] >= token'
      BY <1>2, <1>3, <2>1
    <3>4. QED
      BY <1>6, <3>2, <3>3 DEF vars
  <2>4. \A t \in steady' : taskSeq'[t] >= token' => returned'[t] = 1
    <3>1. \A t \in remaining \ page : taskSeq[last] > taskSeq[t]
      BY <1>1, <2>1 DEF IsPage
    <3>2. QED
      BY <1>2, <1>3, <1>6, <1>9, <1>10, <2>1, <3>1 DEF vars
  <2>5. CursorSplitsListing'
    BY <2>1, <2>2, <2>3, <2>4 DEF CursorSplitsListing
  <2>6. PagingTypeOK' /\ NothingReturnedYet' /\ NoTaskMissed'
    BY <1>6, <1>8, <2>1, <2>2 DEF PagingTypeOK, NothingReturnedYet, NoTaskMissed
  <2>7. QED
    BY <1>7, <1>8, <2>5, <2>6 DEF PagingInv
<1>13. QED
  BY <1>11, <1>12

LEMMA PagingInitInv == PagingInit => PagingInv
<1> SUFFICES ASSUME PagingInit PROVE PagingInv
  OBVIOUS
<1>1. Inv
  BY InitInv DEF PagingInit
<1>2. QED
  BY <1>1 DEF PagingInit, PagingInv, PagingTypeOK, Filter, NothingReturnedYet,
     SteadyMatches, CursorSplitsListing, NoTaskReturnedTwice, NoTaskMissed

LEMMA PagingNextInv == PagingInv /\ [PagingNext]_allVars => PagingInv'
<1> SUFFICES ASSUME PagingInv, [PagingNext]_allVars PROVE PagingInv'
  OBVIOUS
<1>1. ASSUME NEW f \in Filter, ListFirstPage(f)
      PROVE  PagingInv'
  BY <1>1, PageKeepsInv DEF ListFirstPage
<1>2. CASE ListNextPage
  <2>1. filter \in Filter
    BY DEF PagingInv, PagingTypeOK
  <2>2. QED
    BY <1>2, <2>1, PageKeepsInv DEF ListNextPage
<1>3. CASE OtherCall
  BY <1>3, OtherCallKeepsInv
<1>4. CASE UNCHANGED allVars
  BY <1>4, OtherCallKeepsInv
<1>5. QED
  BY <1>1, <1>2, <1>3, <1>4 DEF PagingNext

\* No interleaving of other calls makes a walk return a task twice.
THEOREM WalkHasNoDuplicates == PagingSpec => []NoTaskReturnedTwice
<1>1. PagingInv => NoTaskReturnedTwice
  BY DEF PagingInv
<1>2. QED
  BY <1>1, PagingInitInv, PagingNextInv, PTL DEF PagingSpec

\* None makes it miss a task that passed the filter all along.
THEOREM WalkHasNoGaps == PagingSpec => []NoTaskMissed
<1>1. PagingInv => NoTaskMissed
  BY DEF PagingInv
<1>2. QED
  BY <1>1, PagingInitInv, PagingNextInv, PTL DEF PagingSpec
=============================================================================
