------------------------------ MODULE Discover ------------------------------
(***************************************************************************)
(* `youagent discover` (src/cli/commands/discover.ts) among everything it  *)
(* depends on: the owner's card, which `youagent init`                     *)
(* (src/cli/commands/init.ts) may replace, the agents it follows, and the  *)
(* registry's list of agents, whose cards travel through the conversions   *)
(* of CardForms before they are listed (registerExternal,                  *)
(* src/registry/registry-client.ts).                                       *)
(***************************************************************************)
EXTENDS CardForms, FiniteSetsExt

CONSTANTS
  FirstEntry,    \* agent -> its entry at the registry when we begin
  Own,           \* this agent as the registry lists it: a flat record
  FirstFiles,    \* what ~/.youagent/agent-card.json may hold when we begin
  NoCard, Torn,  \* no file, and one that cannot be parsed
  Ids,           \* the ids of the owner's cards, in the order they are drawn
  Descriptions,  \* what the owner may type: sequences of topics
  Unreadable,    \* in place of the interests of a card that lacks its skills
  NameOf,        \* agent -> its handle, as it is typed without the @
  UrlOf,         \* handle -> where the registry serves its own agent
  Orders,        \* the orders in which the registry may list its agents: places
  Limits,        \* values of --limit
  Extra,         \* how many agents more than that are asked for: 20
  MaxFollows,    \* bound: agents followed at a time
  MaxRows,       \* bound: rows of the follows table
  MaxForms       \* bound: forms of all cards that have been served

Listed == DOMAIN FirstEntry

\* The agents that serve a card themselves.
Serving == { a \in Listed : ~ isAgentRecord(FirstEntry[a]) }

FirstIdentity(a) == getAgentIdentifier(toAgentCard(FirstEntry[a], UrlOf))

ASSUME DiscoverAssumption ==
  /\ IsFiniteSet(Listed) /\ Own \in Listed \ Serving
  /\ \A a \in Serving : IsCard(FirstEntry[a])
  /\ \A a, b \in Listed : FirstIdentity(a).id = FirstIdentity(b).id => a = b
  /\ \A a \in Listed : FirstIdentity(a).id # LocalUrl
  /\ \A a, b \in Listed : NameOf[a] = NameOf[b] => a = b
  /\ \A a, b \in Listed : NameOf[a] \notin {FirstIdentity(b).id, LocalUrl}
  /\ LocalUrl \in AbsoluteUrls \ {NoUrl}
  /\ \A f \in FirstFiles : f \in {NoCard, Torn} \/ IsFiniteSet(getEffectiveInterests(f))
  /\ Ids \in Seq(Range(Ids)) /\ \A topics \in Descriptions : topics \in Seq(Range(topics))
  /\ \A order \in Orders :
       order \in [Listed -> Nat] /\ \A a, b \in Listed : order[a] = order[b] => a = b
  /\ Limits \subseteq Nat \ {0}
  /\ Extra \in Nat

(* The cards of an agent, by the form it serves them in. *)

Forms == {"first", "strict", "restored"}

\* An agent goes over to the strict v1.0 card; or it keeps its card in an
\* AgentCardRepo, and serves what it finds there after a restart.
CardServed ==
  [a \in Serving |-> [form \in Forms |->
     CASE form = "first" -> FirstEntry[a]
       [] form = "strict" -> toV1AgentCard(normalizeAgentCard(FirstEntry[a]))
       [] form = "restored" -> rowToAgentCard(toRow(Parsed(FirstEntry[a])))]]

\* The card as fetchAgentCard or a registration reads it, and whether its schema
\* accepts it.
CardRead ==
  [a \in Serving |-> [form \in Forms |-> normalizeAgentCard(CardServed[a][form])]]

SchemaAccepts ==
  [a \in Serving |-> [form \in Forms |-> AcceptsObject(CardRead[a][form])]]

\* What registerExternal posts, the card parsed, as it is read from the registry.
CardPosted ==
  [a \in Serving |-> [form \in Forms |-> toAgentCard(Parsed(CardRead[a][form]), UrlOf)]]

VARIABLES
  file,      \* agent-card.json
  writing,   \* the card an init is about to write, or NoCard
  drawn,     \* how many ids have been drawn
  served,    \* agent -> the forms it has served its card in so far
  listed,    \* agent -> the card that is read from its entry at the registry
  follows,   \* rows of the follows table: << own id, followed id >>
  wishes,    \* history: << own id, agent >>, for the follows the owner wants
  call       \* the run of discover: what it has read, or Idle

ownerVars == << file, writing, drawn >>
registryVars == << served, listed >>
followVars == << follows, wishes >>
discoverVars == << ownerVars, registryVars, followVars, call >>

Idle == << >>

DiscoverInit ==
  /\ file \in FirstFiles
  /\ writing = NoCard
  /\ drawn = 1
  /\ served = [a \in Serving |-> {"first"}]
  /\ listed = [a \in Listed |-> toAgentCard(FirstEntry[a], UrlOf)]
  /\ follows = {}
  /\ wishes = {}
  /\ call = Idle

HasFile == file \notin {NoCard, Torn}

-----------------------------------------------------------------------------
(* init *)

\* Short handles are filled up with hyphens.
safeHandle(handle) ==
  IF handle.length < 3 THEN [handle EXCEPT !.length = 3, !.hyphen = TRUE] ELSE handle

\* "Rust Agent"
deriveDisplayName(topic) == [topic EXCEPT !.length = @ + 6, !.cut = FALSE]

NewCard(id, topics) ==
  createAgentCard(id, safeHandle(slugify(topics[1])), deriveDisplayName(topics[1]),
                  { topic.word : topic \in Range(topics) })

\* A description whose card createAgentCard refuses makes none.
CardsMade ==
  [i \in DOMAIN Ids |->
     { card \in { NewCard(Ids[i], topics) : topics \in Descriptions } : AcceptsObject(card) }]

\* init: a new card, with a new id.  The file is truncated and then written.
BeginInit ==
  /\ writing = NoCard
  /\ drawn < Len(Ids)
  /\ writing' \in CardsMade[drawn + 1]
  /\ drawn' = drawn + 1
  /\ file' = Torn
  /\ UNCHANGED << registryVars, followVars, call >>

EndInit ==
  /\ writing # NoCard
  /\ file' = writing
  /\ writing' = NoCard
  /\ UNCHANGED << drawn, registryVars, followVars, call >>

\* The process dies half-way through the write.
InitDies ==
  /\ writing # NoCard
  /\ writing' = NoCard
  /\ UNCHANGED << file, drawn, registryVars, followVars, call >>

-----------------------------------------------------------------------------
(* The other agents and the registry *)

\* Only a card that the schema accepts gets into an AgentCardRepo.
Serve(a, form) ==
  /\ form = "restored" => SchemaAccepts[a]["first"]
  /\ served' = [served EXCEPT ![a] = @ \cup {form}]
  /\ FoldSet(LAMBDA b, n : n + Cardinality(served'[b]), 0, Serving) <= MaxForms
  /\ UNCHANGED << ownerVars, listed, followVars, call >>

\* registerExternal: the card is fetched, upgraded, parsed and posted; what is
\* posted may have been fetched some time ago.
RegisterExternal(a) ==
  \E form \in served[a] :
    /\ SchemaAccepts[a][form]
    /\ listed' = [listed EXCEPT ![a] = CardPosted[a][form]]
    /\ UNCHANGED << ownerVars, served, followVars, call >>

-----------------------------------------------------------------------------
(* follow and discover *)

IdentityOf(a) == getAgentIdentifier(listed[a])

\* Cards at the registry are not validated: to read the interests of one that
\* lacks its skills throws.
InterestsOf(a) ==
  IF isYouAgent(listed[a]) \/ Has(listed[a], "skills") THEN getEffectiveInterests(listed[a])
  ELSE {Unreadable}

\* The rows of the follows table that a follow or unfollow of a is about: for the
\* id it has at the registry, or for the bare name that was typed.
IdRow(i, a) == << Ids[i], IdentityOf(a).id >>

NameRow(i, a) == << Ids[i], NameOf[a] >>

\* The row is for the id, typed or found; for the name, where the registry that
\* was asked does not know it; and once there is a row for the name, one who types
\* it again gets no other.  The run may have read an earlier card.
FollowAgent(a) ==
  /\ a # Own
  /\ \E i \in 1 .. drawn :
       /\ \E row \in {IdRow(i, a), NameRow(i, a)} : follows' = follows \cup {row}
       /\ wishes' = wishes \cup {<< Ids[i], a >>}
       /\ Cardinality(wishes') <= MaxFollows
       /\ Cardinality(follows') <= MaxRows
  /\ UNCHANGED << ownerVars, registryVars, call >>

\* Both rows go when the name is typed and found, that for the name when it is not
\* found, and that for the id when the id or "@" and the handle are typed.
UnfollowAgent(a) ==
  /\ \E i \in 1 .. drawn :
       /\ \E rows \in (SUBSET {IdRow(i, a), NameRow(i, a)}) \ {{}} : follows' = follows \ rows
       /\ wishes' = wishes \ {<< Ids[i], a >>}
  /\ UNCHANGED << ownerVars, registryVars, call >>

\* discover reads the card and asks the registry.
BeginDiscover ==
  /\ call = Idle
  /\ HasFile /\ getEffectiveInterests(file) # {}
  /\ call' = [self |-> getAgentIdentifier(file), interests |-> getEffectiveInterests(file)]
  /\ UNCHANGED << ownerVars, registryVars, followVars >>

Readable(a) == InterestsOf(a) # {Unreadable}

Relevance(a, interests) == Cardinality(InterestsOf(a) \cap interests)

\* Who comes before whom in an answer.
AsListed(order) == { p \in Listed \X Listed : order[p[1]] < order[p[2]] }

\* By the number of interests shared, and otherwise as they came.
rankByRelevance(order, interests) ==
  { p \in Listed \X Listed :
      \/ Relevance(p[1], interests) > Relevance(p[2], interests)
      \/ Relevance(p[1], interests) = Relevance(p[2], interests) /\ order[p[1]] < order[p[2]] }

\* The first n of the agents, by who comes before whom.
FirstOf(n, agents, before) ==
  { a \in agents : Cardinality({ b \in agents : << b, a >> \in before }) < n }

IsSelf(a, self) == IdentityOf(a).id = self.id \/ IdentityOf(a).handle = self.handle

IsFollowed(a, self) == << self.id, IdentityOf(a).id >> \in follows

\* Neither ourselves nor whom we follow, with the rows of that moment.
New(agents) == { a \in agents : ~ IsSelf(a, call.self) /\ ~ IsFollowed(a, call.self) }

\* The agents with some interest of ours, or that the registry takes for such.
Matching == { a \in Listed : Readable(a) => Relevance(a, call.interests) > 0 }

\* As many of them as are asked for, in an order of the registry's own.
Answer(order, limit) == FirstOf(limit + Extra, Matching, AsListed(order))

\* Mutant: the answer is cut before it is filtered.
CutFirst(order, limit) == New(FirstOf(limit, Answer(order, limit), AsListed(order)))

\* What is shown of an answer: at most `limit`, the most relevant first.
Suggestions(order, limit) ==
  FirstOf(limit, New(Answer(order, limit)), rankByRelevance(order, call.interests))

\* The answer comes, and its suggestions are shown; or the registry cannot be
\* reached; or the command dies of a card it cannot rank.
EndDiscover ==
  /\ call # Idle
  /\ call' = Idle
  /\ UNCHANGED << ownerVars, registryVars, followVars >>

DiscoverNext ==
  \/ BeginInit \/ EndInit \/ InitDies
  \/ \E a \in Serving : RegisterExternal(a) \/ \E form \in Forms : Serve(a, form)
  \/ \E a \in Listed : FollowAgent(a) \/ UnfollowAgent(a)
  \/ BeginDiscover \/ EndDiscover

DiscoverSpec == DiscoverInit /\ [][DiscoverNext]_discoverVars
-----------------------------------------------------------------------------
(* Properties *)

\* The cards of an agent that are about, served or listed, as they are read.
CardsAbout(a) == { CardRead[a][form] : form \in served[a] } \cup {listed[a]}

WasRestored(a) == "restored" \in served[a]

PromisesPush(card) == FieldOr(FieldOr(card, "capabilities", << >>), "pushNotifications", FALSE)

\* By whatever conversions a card has come to whoever reads it, the agent is the
\* one that its first card, as it stands, says: with the same identity, address,
\* interests and promises.  Only a card that has been in an AgentCardRepo has lost
\* its address, and with it the identity of an agent of others.
EveryRouteAgrees ==
  \A a \in Serving : \A card \in CardsAbout(a) :
    LET first == FirstEntry[a] IN
    /\ PromisesPush(card) = PromisesPush(first)
    /\ Has(first, "skills") => getEffectiveInterests(card) = getEffectiveInterests(first)
    /\ WasRestored(a) \/ getAgentUrl(card) = getAgentUrl(first)
    /\ \/ WasRestored(a) /\ ~ isYouAgent(first)
       \/ getAgentIdentifier(card) = getAgentIdentifier(first)

\* No conversion makes a card that the schema accepted one that it refuses, and
\* none repairs another, but for a card whose preferred interface has no absolute
\* url, whose strict form, upgraded again, is refused; and for one whose own url is
\* not absolute, which its strict form lacks.
AcceptedStaysAccepted ==
  \A a \in Serving :
    LET first == FirstEntry[a] IN
    /\ getAgentUrl(first) \in AbsoluteUrls
    /\ HasUrl(first) => first.url \in AbsoluteUrls
    => \A form \in served[a] : SchemaAccepts[a][form] = SchemaAccepts[a]["first"]

\* The orders in which the answer can be ranked.
Ranked(limit) == { order \in Orders : \A a \in New(Answer(order, limit)) : Readable(a) }

\* "Filter out agents we already follow.": whenever the answer comes, discover
\* suggests none the owner follows, but for a follow that was recorded under
\* another id of ours (init draws one each time), one that was recorded under the
\* bare name the owner typed, where the registry did not know it, and one of an
\* agent that lost its own identity in a repository.
SuggestionsAreNew ==
  call # Idle =>
    \A limit \in Limits : \A order \in Ranked(limit) :
      \A a \in Suggestions(order, limit) :
        << call.self.id, a >> \in wishes =>
          \/ << call.self.id, NameOf[a] >> \in follows
          \/ a \in Serving /\ WasRestored(a)

\* As long as ourselves and those we follow are no more than are asked for in
\* excess, the list is as long as the registry's agents allow.
ListIsFull ==
  call # Idle =>
    LET new == New(Matching)
    IN  Cardinality(Matching \ new) <= Extra =>
          \A limit \in Limits : \A order \in Ranked(limit) :
            Cardinality(Suggestions(order, limit)) =
              IF limit < Cardinality(new) THEN limit ELSE Cardinality(new)
=============================================================================
