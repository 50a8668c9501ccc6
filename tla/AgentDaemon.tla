---------------------------- MODULE AgentDaemon ----------------------------
(***************************************************************************)
(* AgentDaemon (src/daemon): search cycles that find stories, drop those   *)
(* already posted, save the others in the agent's database and push them   *)
(* to the network.  A cycle waits for the card, the searches and the push, *)
(* and other cycles, stop() and the command line run meanwhile; the part   *)
(* that reads the database, deduplicates and saves does not wait.          *)
(*                                                                         *)
(* A member of Posts stands for a finding as it is told: its title and its *)
(* summary.  What the searches find does not depend on the queries here.   *)
(***************************************************************************)
EXTENDS PushPromise, QueryMapper

CONSTANTS
  Starts,       \* calls of start(), each with its initial cycle
  Ticks,        \* cycles begun by a cron job
  Commands,     \* runs of the command line
  Results,      \* lists of search results that may come in
  Told,         \* result -> the findings it may become
  Title,        \* finding -> words of its title
  Summary,      \* finding -> words of its summary
  Recent        \* how many posts deduplication looks at: 100

Cycles == Starts \cup Ticks

NoJob == "null"

ASSUME DaemonAssumption ==
  /\ Pushers = Cycles \cup Commands
  /\ Cycles \cap Commands = {}
  /\ NoJob \notin Starts
  /\ Recent \in Nat \ {0}
  /\ Results \subseteq Seq(DOMAIN Told)
  /\ \A result \in DOMAIN Told : Told[result] \subseteq Posts

VARIABLES
  daemon,   \* the AgentDaemon object: running, cronJob, whether db is open,
            \* and (a history) the start() calls that read the card at one time
  jobs,     \* scheduled cron jobs, each named by the start() that made it
  cycle,    \* cycle -> where it is
  posts     \* the posts table, in the order of insertion

daemonVars == << daemon, jobs, cycle, posts, recentTemplates, promiseVars >>

\* A row: its story, the call that saved it and its timestamp.
Row == [story : Posts, by : Pushers, at : Nat]

\* What the daemon object, its cycles and the table may hold.
DaemonTypeOK ==
  /\ daemon \in [running : BOOLEAN, cronJob : Starts \cup {NoJob}, open : BOOLEAN,
                 overlapped : SUBSET Starts]
  /\ jobs \subseteq Starts
  /\ cycle \in [Cycles -> {"idle", "starting", "reading", "searching", "pushing", "over"}]
  /\ posts \in Seq(Row)
  /\ \A c \in Cycles : cycle[c] = "pushing" => call[c].pc # "idle"
  /\ recentTemplates \in [Topics -> SUBSET Templates]

NewDaemon == [running |-> FALSE, cronJob |-> NoJob, open |-> TRUE, overlapped |-> {}]

DaemonInit ==
  /\ daemon = NewDaemon
  /\ jobs = {}
  /\ cycle = [c \in Cycles |-> "idle"]
  /\ posts = << >>
  /\ recentTemplates = NoTemplates
  /\ PromiseInit

-----------------------------------------------------------------------------
(* Findings and deduplication *)

\* extract(): a result is summarised by the answer API in whatever words, or
\* told in its own when there is no such API or it fails.
Extracted(results) ==
  { findings \in [DOMAIN results -> Posts] :
      \A i \in DOMAIN results : findings[i] \in Told[results[i]] }

Found == UNION { Extracted(results) : results \in Results }

\* Jaccard similarity of two sets of words, at least 0.6.
Similar(a, b) ==
  \/ a = {} /\ b = {}
  \/ a # {} /\ b # {} /\ 5 * Cardinality(a \cap b) >= 3 * Cardinality(a \cup b)

Text(story) == Title[story] \cup Summary[story]

\* What of a saved post a finding is compared with: a row has no title.
SavedText(story) == Summary[story]

InRows(story, rows) == \E r \in rows : Similar(Text(story), SavedText(r.story))

\* Mutant: the findings of the same cycle are not compared with each other.
WithoutOthersOfCycle(rows, kept, story) ==
  IF InRows(story, rows) THEN kept ELSE Append(kept, story)

\* A finding is kept unless it is similar to a saved one or one kept before.
WithoutSimilar(rows, kept, story) ==
  IF InRows(story, rows) \/ \E k \in Range(kept) : Similar(Text(story), Text(k))
    THEN kept
    ELSE Append(kept, story)

\* deduplicate()
Deduplicate(found, rows) ==
  FoldLeft(LAMBDA kept, story : WithoutSimilar(rows, kept, story), << >>, found)

\* findByAgentId(limit): the newest rows, those of one moment in any order.
NewestRows(table, limit) ==
  { { table[i] : i \in chosen } :
      chosen \in { ids \in SUBSET DOMAIN table :
                     /\ Cardinality(ids) = IF Len(table) < limit THEN Len(table) ELSE limit
                     /\ \A i \in ids, j \in DOMAIN table \ ids : table[j].at <= table[i].at } }

\* The millisecond of the last row, or a later one.
Now == LET last == IF posts = << >> THEN 0 ELSE posts[Len(posts)].at IN {last, last + 1}

Rows(stories, c, at) == [i \in DOMAIN stories |-> [story |-> stories[i], by |-> c, at |-> at]]

-----------------------------------------------------------------------------
(* start(), stop() and the cron job *)

\* The start() calls that overlap if s begins one now.
OverlapWith(s) ==
  LET beside == { r \in Starts : cycle[r] = "starting" }
  IN  IF beside = {} THEN {} ELSE beside \cup {s}

\* start() up to reading the card; on a closed database initialize() throws.
Start(s) ==
  /\ cycle[s] = "idle"
  /\ ~ daemon.running
  /\ IF daemon.open
       THEN /\ cycle' = [cycle EXCEPT ![s] = "starting"]
            /\ daemon' = [daemon EXCEPT !.overlapped = @ \cup OverlapWith(s)]
       ELSE /\ cycle' = [cycle EXCEPT ![s] = "over"]
            /\ UNCHANGED daemon
  /\ UNCHANGED << jobs, posts, recentTemplates, promiseVars >>

\* The card is read: schedule the job and begin the initial cycle.
Scheduled(s) ==
  /\ cycle[s] = "starting"
  /\ daemon' = [daemon EXCEPT !.running = TRUE, !.cronJob = s]
  /\ jobs' = jobs \cup {s}
  /\ cycle' = [cycle EXCEPT ![s] = "reading"]
  /\ UNCHANGED << posts, recentTemplates, promiseVars >>

\* The card cannot be read, is not a YouAgent's, or has a bad cadence.
StartFails(s) ==
  /\ cycle[s] = "starting"
  /\ cycle' = [cycle EXCEPT ![s] = "over"]
  /\ UNCHANGED << daemon, jobs, posts, recentTemplates, promiseVars >>

\* Mutant: the job is forgotten before it is cancelled.
StopForgets ==
  /\ daemon.running
  /\ daemon' = [daemon EXCEPT !.running = FALSE, !.cronJob = NoJob, !.open = FALSE]
  /\ UNCHANGED << jobs, cycle, posts, recentTemplates, promiseVars >>

\* stop(): cancel the job, dispose a search client of its own, close the
\* database.  Cycles under way go on; one that still searches may then wait for
\* a token for ever, since nothing refills a disposed limiter.
Stop ==
  /\ daemon.running
  /\ jobs' = jobs \ {daemon.cronJob}
  /\ daemon' = [daemon EXCEPT !.running = FALSE, !.cronJob = NoJob, !.open = FALSE]
  /\ UNCHANGED << cycle, posts, recentTemplates, promiseVars >>

\* A job fires, whether or not the last cycle is over.
CronTick(c) ==
  /\ c \in Ticks
  /\ cycle[c] = "idle"
  /\ jobs # {}
  /\ cycle' = [cycle EXCEPT ![c] = "reading"]
  /\ UNCHANGED << daemon, jobs, posts, recentTemplates, promiseVars >>

-----------------------------------------------------------------------------
(* runSearchCycle() *)

\* The card is read: queries for its interests.
CardRead(c) ==
  /\ cycle[c] = "reading"
  /\ cycle' = [cycle EXCEPT ![c] = "searching"]
  /\ GenerateQueries
  /\ UNCHANGED << daemon, jobs, posts, promiseVars >>

\* The card cannot be read, or the table cannot be when the searches are through:
\* stop() has closed the database, say.
CycleThrows(c) ==
  /\ cycle[c] \in {"reading", "searching"}
  /\ cycle' = [cycle EXCEPT ![c] = "over"]
  /\ UNCHANGED << daemon, jobs, posts, recentTemplates, promiseVars >>

\* Mutant: a cycle that could not save a post still pushes it.
SaveThenPushAnyway(c, stories, saved, at) ==
  /\ posts' = posts \o Rows(SubSeq(stories, 1, saved), c, at)
  /\ IF stories # << >>
       THEN cycle' = [cycle EXCEPT ![c] = "pushing"] /\ Begin(c, Range(stories))
       ELSE cycle' = [cycle EXCEPT ![c] = "over"] /\ UNCHANGED promiseVars

\* The posts are saved one by one; when one cannot be saved the cycle fails
\* with those before it saved, and pushes nothing.
SaveThenPush(c, stories, saved, at) ==
  /\ posts' = posts \o Rows(SubSeq(stories, 1, saved), c, at)
  /\ IF saved = Len(stories) /\ stories # << >>
       THEN cycle' = [cycle EXCEPT ![c] = "pushing"] /\ Begin(c, Range(stories))
       ELSE cycle' = [cycle EXCEPT ![c] = "over"] /\ UNCHANGED promiseVars

\* The searches are through: deduplicate, save and push without a pause.
SearchesDone(c) ==
  /\ cycle[c] = "searching"
  /\ daemon.open
  /\ \E found \in Found, rows \in NewestRows(posts, Recent), at \in Now :
       LET stories == Deduplicate(found, rows)
       IN  \E saved \in 0 .. Len(stories) : SaveThenPush(c, stories, saved, at)
  /\ UNCHANGED << daemon, jobs, recentTemplates >>

\* Mutant: a cycle waits for a push that succeeds.
PushEndedWell(c) ==
  /\ cycle[c] = "pushing"
  /\ call[c].pc = "done"
  /\ cycle' = [cycle EXCEPT ![c] = "over"]
  /\ UNCHANGED << daemon, jobs, posts, recentTemplates, promiseVars >>

\* However the push ended, the cycle returns.
PushEnded(c) ==
  /\ cycle[c] = "pushing"
  /\ call[c].pc \in {"done", "failed"}
  /\ cycle' = [cycle EXCEPT ![c] = "over"]
  /\ UNCHANGED << daemon, jobs, posts, recentTemplates, promiseVars >>

CycleStep(c) ==
  \/ CardRead(c)
  \/ SearchesDone(c)
  \/ CycleThrows(c)
  \/ PushEnded(c)
  \/ (Return(c) \/ Throw(c)) /\ UNCHANGED << daemon, jobs, cycle, posts, recentTemplates >>

-----------------------------------------------------------------------------
(* Other processes on the same database, and a crash of the daemon's *)

\* `youagent push`: send the newest posts again.
PushCommand(u) ==
  /\ u \in Commands
  /\ posts # << >>
  /\ \E limit \in DOMAIN posts : \E rows \in NewestRows(posts, limit) :
       Begin(u, { r.story : r \in rows })
  /\ UNCHANGED << daemon, jobs, cycle, posts, recentTemplates >>

\* The process ends, by a signal or a crash; the next one has a new daemon.
\* Requests it had sent may still arrive.
ProcessEnds ==
  /\ \E c \in Starts : cycle[c] # "idle"
  /\ daemon' = NewDaemon
  /\ jobs' = {}
  /\ cycle' = [c \in Cycles |-> IF cycle[c] = "idle" THEN "idle" ELSE "over"]
  /\ call' = [p \in Pushers |->
       IF p \in Cycles /\ call[p].pc = "sending"
         THEN [call[p] EXCEPT !.pc = "failed"]
         ELSE call[p]]
  /\ recentTemplates' = NoTemplates
  /\ UNCHANGED << posts, network >>

\* The daemon, the network, and the pushes of other processes.
DaemonStep ==
  \/ \E s \in Starts : Start(s) \/ Scheduled(s) \/ StartFails(s)
  \/ Stop
  \/ \E c \in Cycles : CronTick(c) \/ CycleStep(c)
  \/ ProcessEnds
  \/ /\ \/ \E u \in Commands : Return(u) \/ Throw(u)
        \/ \E p \in Pushers : Arrive(p)
     /\ UNCHANGED << daemon, jobs, cycle, posts, recentTemplates >>

DaemonNext == DaemonStep \/ \E u \in Commands : PushCommand(u)

DaemonSpec == DaemonInit /\ [][DaemonNext]_daemonVars

\* The cycle searches with a client that stop() may have disposed.
SearchesAfterStop(c) == cycle[c] = "searching" /\ ~ daemon.open

-----------------------------------------------------------------------------
(* Properties *)

\* Nothing is on its way to the network, or there, that is not in the agent's
\* own database, which its feeds and its A2A service read: not after a failed
\* save, a crash, or a push from the command line.
OnlySavedIsPushed ==
  LET saved == { posts[i].story : i \in DOMAIN posts }
  IN  /\ \A p \in Pushers : call[p].posts \subseteq saved
      /\ network \subseteq saved

\* Row i was among the newest when the cycle that saved row j looked.
WasRecent(i, j) ==
  Cardinality({ k \in 1 .. j : /\ k # i
                              /\ posts[k].by # posts[j].by
                              /\ posts[k].at >= posts[i].at }) < Recent

\* Cycles overlap, and each looks at the table after its searches: still no
\* cycle posts what another has posted recently, or one story twice.  What is
\* compared is what deduplicate() is given, a saved post's summary only.
PostsAreDistinct ==
  \A j \in DOMAIN posts : \A i \in 1 .. j - 1 :
    { posts[i].by, posts[j].by } \subseteq Cycles =>
      IF posts[i].by = posts[j].by
        THEN ~ Similar(Text(posts[j].story), Text(posts[i].story))
        ELSE WasRecent(i, j) => ~ Similar(Text(posts[j].story), SavedText(posts[i].story))

\* finding-extractor.ts says that titles and summaries are compared, and that
\* a finding similar to any existing one is dropped.
SimilarIsPostedOnce ==
  \A j \in DOMAIN posts : \A i \in 1 .. j - 1 :
    { posts[i].by, posts[j].by } \subseteq Cycles /\ WasRecent(i, j) =>
      ~ Similar(Text(posts[j].story), Text(posts[i].story))

\* Of the queries an interest is entitled to, two cycles in a row make every one,
\* whatever cycles overlap: the templates of the last round are those the next
\* round may leave out.
TemplatesRotate ==
  [][ \A c \in Cycles : cycle[c] = "reading" /\ cycle'[c] = "searching" =>
        RoundsCover(recentTemplates, recentTemplates') ]_daemonVars

\* While the daemon runs it knows a job that stop() will cancel, and a job that
\* it does not know comes of start() calls that really overlapped: start() looks
\* at `running` before it reads the card and sets it after.  However start(),
\* stop(), failed starts and new processes follow each other otherwise, stop()
\* leaves no job behind.
StopCancels ==
  /\ daemon.running => daemon.cronJob \in jobs
  /\ jobs \ {daemon.cronJob} \subseteq daemon.overlapped

\* Cycles end, whatever fails in them, in their push, in other cycles and in the
\* process around them; all but one that still searches when stop() takes its
\* client and its database away.  (A cycle of the model happens once: one that
\* never ends is under way for ever.)
CyclesEnd ==
  []<>(\A c \in Cycles : cycle[c] \in {"reading", "searching", "pushing"}
                            => SearchesAfterStop(c))

=============================================================================
