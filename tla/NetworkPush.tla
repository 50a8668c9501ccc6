---------------------------- MODULE NetworkPush ----------------------------
(***************************************************************************)
(* NetworkPusher.push and RegistryClient.pushPosts (src/registry): posts   *)
(* go to the network's registry in batches, one request after the other.   *)
(* Several pushes run at once: the daemon's cycles, `youagent push` and    *)
(* `youagent respond`.  A post stands for its source URL, by which the     *)
(* registry deduplicates; the registry itself is external.                 *)
(***************************************************************************)
EXTENDS Naturals, FiniteSets, Sequences, SequencesExt

CONSTANTS
  Pushers,        \* calls of push()
  Posts,
  Given,          \* lists of posts a caller may pass to push()
  Pushable,       \* posts with a usable URL and a summary
  PostBytes,      \* post -> bytes of its JSON in a request, comma included
  BatchSize,      \* PUSH_BATCH_SIZE, also the registry's limit
  BatchBytes,     \* PUSH_BATCH_BYTES
  RegistryBytes   \* the registry's cap on a request's body

\* The fields of a pushed post are trimmed, so one always fits in a request.
ASSUME PushAssumption ==
  /\ IsFiniteSet(Pushers)
  /\ Pushable \subseteq Posts
  /\ Given \subseteq Seq(Posts)
  /\ PostBytes \in [Posts -> Nat \ {0}]
  /\ BatchSize \in Nat \ {0}
  /\ BatchBytes \in Nat
  /\ RegistryBytes \in Nat
  /\ BatchBytes <= RegistryBytes
  /\ \A p \in Pushable : PostBytes[p] <= RegistryBytes

VARIABLES
  push,      \* pusher -> its call
  late,      \* batches whose sender gave up while they were on their way
  network    \* posts the registry holds for this agent

pushVars == << push, late, network >>

\* A call: `given` is what it has to send after the mapping, `batch` the
\* request under way, `fresh` the registry's count in its answer.
Call ==
  [pc : {"idle", "sending", "taken", "done", "failed"},
   given : Seq(Pushable), batch : Seq(Pushable), rest : Seq(Pushable),
   fresh : Nat, accepted : Nat, received : Nat]

\* The record of every call is as the code builds it: only what is pushable is
\* sent.
PushTypeOK ==
  /\ push \in [Pushers -> Call]
  /\ late \subseteq Seq(Pushable)
  /\ network \subseteq Pushable

NoCall ==
  [pc |-> "idle", given |-> << >>, batch |-> << >>, rest |-> << >>,
   fresh |-> 0, accepted |-> 0, received |-> 0]

PushInit ==
  /\ push = [p \in Pushers |-> NoCall]
  /\ late = {}
  /\ network = {}

-----------------------------------------------------------------------------
(* Batches *)

Bytes(posts) == SumFunction([i \in DOMAIN posts |-> PostBytes[posts[i]]])

\* What validation the registry applies to a request, as a whole.
RegistryTakes(posts) ==
  /\ Len(posts) <= BatchSize
  /\ Bytes(posts) <= RegistryBytes
  /\ \A i \in DOMAIN posts : posts[i] \in Pushable

\* Mutant: the first post that does not fit is sent along.
FillsOverBatch(n, posts) ==
  /\ n <= BatchSize
  /\ n = 1 \/ Bytes(SubSeq(posts, 1, n - 1)) <= BatchBytes
  /\ \/ n = Len(posts)
     \/ n = BatchSize
     \/ Bytes(SubSeq(posts, 1, n)) > BatchBytes

\* The first n posts fill a batch: a post starts the next batch when this one
\* has its number of posts, or is not empty and the post would not fit.
FillsBatch(n, posts) ==
  /\ n <= BatchSize
  /\ n = 1 \/ Bytes(SubSeq(posts, 1, n)) <= BatchBytes
  /\ \/ n = Len(posts)
     \/ n = BatchSize
     \/ Bytes(SubSeq(posts, 1, n + 1)) > BatchBytes

\* Mutant: the post that did not fit any more is dropped.
WithNextBatchDroppingOne(call) ==
  IF call.rest = << >>
    THEN { [call EXCEPT !.pc = "done", !.batch = << >>] }
    ELSE { [call EXCEPT !.pc = "sending",
                        !.batch = SubSeq(call.rest, 1, n),
                        !.rest = SubSeq(call.rest, n + 2, Len(call.rest))] :
             n \in { k \in DOMAIN call.rest : FillsBatch(k, call.rest) } }

\* The call once it sends its next batch, or is through.
WithNextBatch(call) ==
  IF call.rest = << >>
    THEN { [call EXCEPT !.pc = "done", !.batch = << >>] }
    ELSE { [call EXCEPT !.pc = "sending",
                        !.batch = SubSeq(call.rest, 1, n),
                        !.rest = SubSeq(call.rest, n + 1, Len(call.rest))] :
             n \in { k \in DOMAIN call.rest : FillsBatch(k, call.rest) } }

-----------------------------------------------------------------------------
(* One call of push() *)

\* postToPushPost: what the registry would refuse is left out, the rest stays in
\* its order (there is one such list).
KeepPushable(posts) ==
  LET kept    == { k \in DOMAIN posts : posts[k] \in Pushable }
      InOrder == { at \in [1 .. Cardinality(kept) -> kept] :
                     \A i, j \in DOMAIN at : i < j => at[i] < at[j] }
  IN  { [i \in DOMAIN at |-> posts[at[i]]] : at \in InOrder }

\* The call of push() with these posts, before its first batch.
NewCall(mapped) == [NoCall EXCEPT !.given = mapped, !.rest = mapped]

\* push(): map the posts and send the first batch, if anything is left.
BeginPush(p, posts) ==
  /\ push[p].pc = "idle"
  /\ \E mapped \in KeepPushable(posts) : \E next \in WithNextBatch(NewCall(mapped)) :
       push' = [push EXCEPT ![p] = next]
  /\ UNCHANGED << late, network >>

\* The registry takes the batch; its answer is on its way.
BatchArrives(p) ==
  /\ push[p].pc = "sending"
  /\ RegistryTakes(push[p].batch)
  /\ push' = [push EXCEPT ![p].pc = "taken",
                          ![p].fresh = Cardinality(Range(push[p].batch) \ network)]
  /\ network' = network \cup Range(push[p].batch)
  /\ UNCHANGED late

\* Mutant: the error is swallowed, and the totals so far are returned.
BatchRefusedQuietly(p) ==
  /\ push[p].pc = "sending"
  /\ push' = [push EXCEPT ![p].pc = "done"]
  /\ UNCHANGED << late, network >>

\* The registry answers with an error: revoked key, rate limit, 5xx.
BatchRefused(p) ==
  /\ push[p].pc = "sending"
  /\ push' = [push EXCEPT ![p].pc = "failed"]
  /\ UNCHANGED << late, network >>

\* Mutant: whatever was sent counts as accepted.
CountedAllAccepted(call) ==
  [call EXCEPT !.accepted = @ + Len(call.batch), !.received = @ + Len(call.batch)]

\* The totals after a batch's answer.
Counted(call) ==
  [call EXCEPT !.accepted = @ + call.fresh, !.received = @ + Len(call.batch)]

\* Mutant: a batch is sent again until the registry finds something new in it.
BatchAnsweredAgain(p) ==
  /\ push[p].pc = "taken"
  /\ \E next \in WithNextBatch(Counted(push[p])) :
       push' = [push EXCEPT ![p] = IF push[p].fresh = 0
                                     THEN [push[p] EXCEPT !.pc = "sending"]
                                     ELSE next]
  /\ UNCHANGED << late, network >>

\* The answer is in: count it, and send the next batch.
BatchAnswered(p) ==
  /\ push[p].pc = "taken"
  /\ \E next \in WithNextBatch(Counted(push[p])) : push' = [push EXCEPT ![p] = next]
  /\ UNCHANGED << late, network >>

\* The request times out, the network fails, or the answer is lost or cannot
\* be read: the call throws and sends no more.  A request that had not arrived
\* is lost, or still arrives.
RequestFails(p) ==
  /\ push[p].pc \in {"sending", "taken"}
  /\ push' = [push EXCEPT ![p].pc = "failed"]
  /\ \/ UNCHANGED late
     \/ push[p].pc = "sending" /\ late' = late \cup {push[p].batch}
  /\ UNCHANGED network

\* A batch given up by its sender arrives after all.
BatchArrivesLate ==
  \E batch \in late :
    /\ late' = late \ {batch}
    /\ network' = IF RegistryTakes(batch) THEN network \cup Range(batch) ELSE network
    /\ UNCHANGED push

PushStep(p) ==
  \/ BatchArrives(p)
  \/ BatchRefused(p)
  \/ BatchAnswered(p)
  \/ RequestFails(p)

PushNext ==
  \/ \E p \in Pushers : PushStep(p) \/ \E posts \in Given : BeginPush(p, posts)
  \/ BatchArrivesLate

PushSpec == PushInit /\ [][PushNext]_pushVars

\* Every request is answered, fails, or is aborted after timeoutMs.
PushFairSpec == PushSpec /\ \A p \in Pushers : WF_pushVars(PushStep(p))

-----------------------------------------------------------------------------
(* Properties *)

\* A request holds what the registry takes as a whole: one bad URL, one post
\* or one byte too many would make it refuse every post of the batch.
BatchesAreAcceptable ==
  \A p \in Pushers : push[p].pc = "sending" => RegistryTakes(push[p].batch)

\* Across the batches nothing is skipped, repeated or reordered: what was
\* answered, what is under way and what is left make up what was given.
NothingSkipped ==
  \A p \in Pushers :
    push[p].pc # "idle" =>
      push[p].given = SubSeq(push[p].given, 1, push[p].received)
                        \o push[p].batch \o push[p].rest

\* The progress a failed push reports, and the totals of one that returns, are
\* posts that are at the registry, whatever other pushes, late requests and
\* lost answers did.
ReportedIsDelivered ==
  \A p \in Pushers : \A i \in 1 .. push[p].received : push[p].given[i] \in network

\* The pushes together never claim more new posts than the registry holds.
AcceptedOnce ==
  SumFunction([p \in Pushers |-> push[p].accepted]) <= Cardinality(network)

\* A call as its caller sees it.
AsCalled(c) ==
  [pc |-> IF c.pc = "taken" THEN "sending" ELSE c.pc, posts |-> Range(c.given)]

Promise == INSTANCE PushPromise
             WITH call <- [p \in Pushers |-> AsCalled(push[p])], network <- network

\* "re-pushing is safe": with its batches and everything that goes wrong with
\* them, push() does what the daemon and the commands rely on.
PushesAsPromised == Promise!PromiseSpec

\* A push that was begun ends, whatever becomes of its requests.
PushEnds ==
  \A p \in Pushers : push[p].pc = "sending" ~> push[p].pc \in {"done", "failed"}

=============================================================================
