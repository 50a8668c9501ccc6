------------------------------- MODULE Engine -------------------------------
(***************************************************************************)
(* The daemon beside the other ways to post (src/engine): a run of         *)
(* `youagent respond`, which searches about an earlier post and publishes  *)
(* its best finding, and publishFindings(), which publishes a list of      *)
(* findings one by one.  Each runs in a process of its own on the same     *)
(* database.                                                               *)
(***************************************************************************)
EXTENDS AgentDaemon

CONSTANTS
  RecentToPublisher,   \* how many posts isDuplicate() looks at: 50
  Tags                 \* story -> its relevance tags

ASSUME EngineAssumption == RecentToPublisher \in Nat \ {0}

VARIABLE work          \* command -> how far it is

engineVars == << work, daemonVars >>

\* `cited` holds the post a respond is about; `rest` the findings still to be
\* published, of which the first was found to be no duplicate if `clear`.
NoWork == [at |-> "idle", cited |-> {}, rest |-> << >>, clear |-> FALSE, published |-> {}]

\* Commands are where their parts allow, beside the daemon and its table.
EngineTypeOK ==
  /\ DaemonTypeOK
  /\ work \in [Commands -> [at : {"idle", "researching", "publishing", "over"},
                            cited : SUBSET Posts, rest : Seq(Posts),
                            clear : BOOLEAN, published : SUBSET Posts]]
  /\ \A u \in Commands :
       /\ Cardinality(work[u].cited) <= 1
       /\ work[u].at = "publishing" => work[u].rest # << >>
       /\ work[u].at \in {"researching", "publishing"} => call[u].pc = "idle"

EngineInit == DaemonInit /\ work = [u \in Commands |-> NoWork]

\* The new row of a finding.
SavePost(u, story) == \E at \in Now : posts' = posts \o Rows(<< story >>, u, at)

\* pushToNetwork(): with nothing to push it returns at once.
PushToNetwork(u, stories) == IF stories = {} THEN UNCHANGED promiseVars ELSE Begin(u, stories)

\* publishRespond(): similar to an earlier post or not.
PublishRespond(u, story) == SavePost(u, story) /\ PushToNetwork(u, {story})

Ended(u) == work' = [work EXCEPT ![u] = [NoWork EXCEPT !.at = "over"]]

-----------------------------------------------------------------------------
(* youagent respond *)

\* respond(): the post is in the database, and the searches begin.
BeginRespond(u) ==
  /\ work[u] = NoWork /\ call[u].pc = "idle"
  /\ \E i \in DOMAIN posts :
       work' = [work EXCEPT ![u] = [NoWork EXCEPT !.at = "researching", !.cited = {posts[i].story}]]
  /\ UNCHANGED daemonVars

\* There is no card or key, a search fails, nothing is found, or the process ends.
ResearchFails(u) ==
  /\ work[u].at = "researching"
  /\ Ended(u)
  /\ UNCHANGED daemonVars

\* The first of the findings that share most tags with the post.
BestFindings(findings, cited) ==
  LET Score(i) == Cardinality(Tags[findings[i]] \cap UNION { Tags[p] : p \in cited })
  IN  { findings[i] : i \in { j \in DOMAIN findings :
          \A k \in DOMAIN findings : Score(k) <= Score(j) /\ (k < j => Score(k) < Score(j)) } }

\* The queries are made of the post's words and tags: any findings may come of
\* them, and the best one is published.
ResearchDone(u) ==
  /\ work[u].at = "researching"
  /\ \E findings \in Found :
       \E story \in BestFindings(findings, work[u].cited) : PublishRespond(u, story)
  /\ Ended(u)
  /\ UNCHANGED << daemon, jobs, cycle, recentTemplates >>

-----------------------------------------------------------------------------
(* publishFindings() *)

\* Jaccard similarity of two summaries, at least 0.5.
SimilarSummary(a, b) ==
  \/ Summary[a] = {} /\ Summary[b] = {}
  \/ /\ Summary[a] # {} /\ Summary[b] # {}
     /\ 2 * Cardinality(Summary[a] \cap Summary[b]) >= Cardinality(Summary[a] \cup Summary[b])

\* Mutant: only the very same summary is a duplicate.
IsSame(story, rows) == \E r \in rows : Summary[r.story] = Summary[story]

IsDuplicate(story, rows) == \E r \in rows : SimilarSummary(story, r.story)

\* The look that isDuplicate() takes at the table for the first of the rest.
Looked(w, table) ==
  { [w EXCEPT !.clear = ~ IsDuplicate(Head(w.rest), rows)] :
      rows \in NewestRows(table, RecentToPublisher) }

BeginPublish(u) ==
  /\ work[u] = NoWork /\ call[u].pc = "idle"
  /\ \E findings \in Found \ {<< >>} :
       \E w \in Looked([NoWork EXCEPT !.at = "publishing", !.rest = findings], posts) :
         work' = [work EXCEPT ![u] = w]
  /\ UNCHANGED daemonVars

\* After the await: a row, unless it was a duplicate, and the look at the next
\* finding; after the last, the push of what was published, if anything.
NextFinding(u) ==
  LET w         == work[u]
      story     == Head(w.rest)
      published == IF w.clear THEN w.published \cup {story} ELSE w.published
      rest      == [w EXCEPT !.rest = Tail(@), !.published = published]
  IN  /\ w.at = "publishing"
      /\ IF w.clear THEN SavePost(u, story) ELSE UNCHANGED posts
      /\ IF rest.rest # << >>
           THEN /\ \E next \in Looked(rest, posts') : work' = [work EXCEPT ![u] = next]
                /\ UNCHANGED promiseVars
           ELSE /\ Ended(u)
                /\ PushToNetwork(u, published)
      /\ UNCHANGED << daemon, jobs, cycle, recentTemplates >>

\* The database throws, or the process ends.
PublishFails(u) ==
  /\ work[u].at = "publishing"
  /\ Ended(u)
  /\ UNCHANGED daemonVars

CommandStep(u) ==
  \/ work[u] = NoWork /\ PushCommand(u) /\ UNCHANGED work
  \/ BeginRespond(u)
  \/ ResearchFails(u)
  \/ ResearchDone(u)
  \/ BeginPublish(u)
  \/ NextFinding(u)
  \/ PublishFails(u)

EngineNext == (DaemonStep /\ UNCHANGED work) \/ \E u \in Commands : CommandStep(u)

EngineSpec == EngineInit /\ [][EngineNext]_engineVars

\* Cards are read, and searches and pushes end: search_client and network_push
\* check that they do, the searches as long as their client is not disposed.
\* Nothing is assumed of a search after stop(), nor of commands.
EngineFairSpec ==
  /\ EngineSpec
  /\ \A c \in Cycles :
       WF_engineVars(CycleStep(c) /\ UNCHANGED work /\ ~ SearchesAfterStop(c))

-----------------------------------------------------------------------------
(* Properties *)

\* Each finding is looked at after the one before it was saved, whatever other
\* processes save meanwhile: publishFindings() posts no two similar summaries,
\* unless as many posts as it looks at came between.
PublishedAreDistinct ==
  \A j \in DOMAIN posts : \A i \in 1 .. j - 1 :
    /\ posts[i].by = posts[j].by /\ posts[j].by \in Commands
    /\ Cardinality({ k \in 1 .. j - 1 : k # i /\ posts[k].at >= posts[i].at }) < RecentToPublisher
    => ~ SimilarSummary(posts[j].story, posts[i].story)

=============================================================================
