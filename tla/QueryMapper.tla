----------------------------- MODULE QueryMapper -----------------------------
(***************************************************************************)
(* QueryMapper (src/engine/query-mapper.ts): which query templates a       *)
(* search cycle uses for each interest of the agent's card.  A template    *)
(* stands for the query it builds.                                         *)
(***************************************************************************)
EXTENDS Integers, Sequences, SequencesExt

CONSTANT Interests   \* the card's: sequence of topic (lower case) and sourcePreferences

VARIABLE recentTemplates   \* topic -> the templates used last, {} for no entry

\* TEMPLATES by their places in it: baseline, developments, and those that are
\* for interests that prefer news, academic, oss, regulatory and industry.
Templates == 1 .. 7
AlwaysOn == {1, 2}
DefaultTemplates == {1, 2, 3}

ASSUME InterestsAssumption ==
  /\ Interests \in Seq(Range(Interests))
  /\ \A i \in DOMAIN Interests : Interests[i].prefs \subseteq Templates \ AlwaysOn

Topics == { Interests[i].topic : i \in DOMAIN Interests }

NoTemplates == [t \in Topics |-> {}]

EligibleTemplates(prefs) == IF prefs = {} THEN DefaultTemplates ELSE AlwaysOn \cup prefs

\* The first n of these templates.
FirstOf(n, keys) == { k \in keys : Cardinality({ j \in keys : j < k }) < n }

\* Mutant: the templates used last come first again.
SelectedAgain(interest, recent) ==
  LET eligible == EligibleTemplates(interest.prefs)
      stale    == eligible \cap recent
  IN  FirstOf(5, stale) \cup FirstOf(5 - Cardinality(stale), eligible \ recent)

\* Up to five, those not used last first.  The baseline is always eligible, so
\* padding with it adds nothing.
Selected(interest, recent) ==
  LET eligible == EligibleTemplates(interest.prefs)
      fresh    == eligible \ recent
  IN  FirstOf(5, fresh) \cup FirstOf(5 - Cardinality(fresh), eligible \cap recent)

\* generateQueries(): interest by interest, each on what is recorded by then.
GenerateQueries ==
  recentTemplates' =
    FoldLeft(LAMBDA recent, i : [recent EXCEPT ![i.topic] = Selected(i, @)],
             recentTemplates, Interests)

\* No other interest of the card has its topic.
HasOwnTopic(i) == \A j \in DOMAIN Interests : Interests[j].topic = Interests[i].topic => j = i

\* Two rounds in a row use every template an interest is entitled to.
RoundsCover(first, second) ==
  \A i \in DOMAIN Interests :
    LET topic == Interests[i].topic
    IN  HasOwnTopic(i) /\ first[topic] # {} =>
          EligibleTemplates(Interests[i].prefs) \subseteq first[topic] \cup second[topic]
=============================================================================
