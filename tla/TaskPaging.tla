----------------------------- MODULE TaskPaging -----------------------------
(***************************************************************************)
(* tasks/list with a cursor (listTasks in src/a2a/a2a-server.ts): a client *)
(* walks a filtered listing page by page while other calls keep changing   *)
(* the store of A2AServer.  A page token is the creation sequence of the   *)
(* last task of the page before (its base64 dress is left out); 0 stands   *)
(* for the token ''.                                                       *)
(***************************************************************************)
EXTENDS A2AServer, FiniteSets

CONSTANT PageSize     \* the pageSize of the client's calls, clamped to 1..100

ASSUME PageSizeAssumption == PageSize \in Nat \ {0}

VARIABLES
  filter,     \* the contextId and status parameters of the walk, or None
  token,      \* the pageToken the client holds
  walk,       \* "idle", "paging" or "done"
  returned,   \* task id -> how often the walk has returned it
  steady      \* tasks that have matched the filter ever since the walk began

pagingVars == << filter, token, walk, returned, steady >>

allVars == << vars, filter, token, walk, returned, steady >>

Filter == [ contextId : ContextId \cup {None}, status : TaskState \cup {None} ]

PagingTypeOK ==
  /\ filter \in Filter
  /\ token \in Nat
  /\ walk \in {"idle", "paging", "done"}
  /\ returned \in [TaskId -> Nat]
  /\ steady \subseteq DOMAIN tasks

-----------------------------------------------------------------------------

\* The tasks of store s that pass filter f.
Matching(s, f) ==
  { t \in DOMAIN s : /\ f.contextId \in {None, s[t].contextId}
                     /\ f.status \in {None, s[t].state} }

\* Mutant: the cursor is inclusive.
FromToken(S, tok) == { t \in S : tok = 0 \/ taskSeq[t] <= tok }

\* What is left of the listing below a token.
Remaining(S, tok) == { t \in S : tok = 0 \/ taskSeq[t] < tok }

\* Mutant: the listing is cut before it is sorted.
IsAnyPage(page, S) ==
  Cardinality(page) = IF Cardinality(S) < PageSize THEN Cardinality(S) ELSE PageSize

\* The newest PageSize of the tasks S, all of them if they are fewer.
IsPage(page, S) ==
  /\ \A t \in page, u \in S \ page : taskSeq[t] > taskSeq[u]
  /\ Cardinality(page) = IF Cardinality(S) < PageSize THEN Cardinality(S) ELSE PageSize

\* encodePageToken: the place of the page's oldest task.
TokenOf(t) == taskSeq[t]

\* One tasks/list call, from the token tok: the page is returned, and the
\* token of its oldest task unless the page exhausts the listing.
ListTasks(f, tok) ==
  LET remaining == Remaining(Matching(tasks, f), tok)
  IN  \E page \in SUBSET remaining :
        /\ IsPage(page, remaining)
        /\ returned' = [t \in TaskId |->
                          IF t \in page THEN returned[t] + 1 ELSE returned[t]]
        /\ IF page = remaining
             THEN token' = 0 /\ walk' = "done"
             ELSE \E last \in page :
                    /\ \A t \in page : taskSeq[last] <= taskSeq[t]
                    /\ token' = TokenOf(last)
                    /\ walk' = "paging"

ListFirstPage(f) ==
  /\ Accepting
  /\ walk = "idle"
  /\ ListTasks(f, 0)
  /\ filter' = f
  /\ steady' = Matching(tasks, f)
  /\ UNCHANGED vars

ListNextPage ==
  /\ Accepting
  /\ walk = "paging"
  /\ ListTasks(filter, token)
  /\ UNCHANGED << filter, steady >>
  /\ UNCHANGED vars

\* Any other call; what it makes fail the filter is no longer steady.
OtherCall ==
  /\ Next
  /\ steady' = steady \cap Matching(tasks', filter)
  /\ UNCHANGED << filter, token, walk, returned >>

PagingInit ==
  /\ Init
  /\ filter = [contextId |-> None, status |-> None]
  /\ token = 0
  /\ walk = "idle"
  /\ returned = [t \in TaskId |-> 0]
  /\ steady = {}

PagingNext ==
  \/ \E f \in Filter : ListFirstPage(f)
  \/ ListNextPage
  \/ OtherCall

PagingSpec == PagingInit /\ [][PagingNext]_allVars

-----------------------------------------------------------------------------

\* "pages with cursor tokens without duplicates or gaps, even as new tasks
\* arrive" (a2a-server.tasks.test.ts), and as tasks change state and context
\* between two pages: no task is returned twice,
NoTaskReturnedTwice == \A t \in TaskId : returned[t] <= 1

\* and a finished walk has returned every task that matched from its first
\* page to its last.
NoTaskMissed == walk = "done" => \A t \in steady : returned[t] = 1

=============================================================================
