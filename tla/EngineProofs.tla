---------------------------- MODULE EngineProofs ----------------------------
(***************************************************************************)
(* The daemon and the commands beside it, for any number of cycles,        *)
(* commands, stories and rows: what is pushed is saved, what is posted is  *)
(* new, stop() leaves no job, and the templates rotate.                    *)
(***************************************************************************)
EXTENDS Engine, FoldTheorems

-----------------------------------------------------------------------------
(* deduplicate() *)

\* The fold, step by step.
LEMMA DedupSteps ==
  ASSUME NEW found \in Seq(Posts), NEW rows
  PROVE  \E kept :
           /\ kept[0] = << >>
           /\ \A k \in 0 .. Len(found) : k + 1 <= Len(found) =>
                kept[k + 1] = WithoutSimilar(rows, kept[k], found[k + 1])
           /\ Deduplicate(found, rows) = kept[Len(found)]
<1> DEFINE m == Len(found)
           D == 1 .. m
           V == Seq(Posts)
           Step(g) == [s \in SUBSET D |->
                         IF s = {} THEN << >>
                         ELSE WithoutSimilar(rows, g[s \ {Max(s)}], found[Max(s)])]
           pick == [s \in SUBSET D |-> Max(s)]
           op == [q \in D \X V |-> WithoutSimilar(rows, q[2], found[q[1]])]
<1>1. m \in Nat /\ D = DOMAIN found /\ IsFiniteSet(D) /\ << >> \in V
      /\ \A i \in D : found[i] \in Posts
  BY FS_Interval
<1>2. \A s \in SUBSET D : s # {} => Max(s) \in s
  <2> HIDE DEF D
  <2>1. ASSUME NEW s \in SUBSET D, s # {} PROVE Max(s) \in s
    BY <1>1, <2>1, MaxUpTo DEF D
  <2>2. QED
    BY <2>1
<1>3. Picks(D, pick)
  BY <1>2 DEF Picks
<1>4. op \in [D \X V -> V]
  <2>1. ASSUME NEW i \in D, NEW kept \in V PROVE WithoutSimilar(rows, kept, found[i]) \in V
    BY <1>1 DEF WithoutSimilar
  <2>2. QED
    BY <2>1
<1>5. PICK g : g \in [SUBSET D -> V] /\ Recurs(D, << >>, pick, op, g)
  <2> HIDE DEF D, V, pick, op
  <2> QED
    BY <1>1, <1>3, <1>4, Recursion
<1>6. g = Step(g)
  <2>1. ASSUME NEW s \in SUBSET D, s # {}
        PROVE  g[s] = WithoutSimilar(rows, g[s \ {Max(s)}], found[Max(s)])
    <3>1. g[s \ {Max(s)}] \in V /\ Max(s) \in D /\ pick[s] = Max(s)
      BY <1>2, <1>5, <2>1
    <3>2. << Max(s), g[s \ {Max(s)}] >> \in D \X V
      BY <3>1
    <3>3. g[s] = op[<< Max(s), g[s \ {Max(s)}] >>]
      BY <1>5, <2>1, <3>1 DEF Recurs
    <3>4. QED
      BY <3>2, <3>3
  <2>2. g[{}] = << >>
    BY <1>5 DEF Recurs
  <2>3. QED
    BY <1>5, <2>1, <2>2
<1> DEFINE h == CHOOSE f : f = Step(f)
<1>7. h = Step(h)
  <2> HIDE DEF Step
  <2> QED
    BY <1>6
<1>8. Deduplicate(found, rows) = h[D]
  BY <1>1 DEF Deduplicate, FoldLeft, MapThenFoldSet
<1> HIDE DEF h
<1> DEFINE kept == [k \in 0 .. m |-> h[1 .. k]]
<1>9. kept[0] = << >>
  <2>1. 1 .. 0 = {}
    OBVIOUS
  <2>2. h[{}] = << >>
    BY <1>7
  <2>3. QED
    BY <1>1, <2>1, <2>2
<1>10. ASSUME NEW k \in 0 .. m, k + 1 <= m
       PROVE  kept[k + 1] = WithoutSimilar(rows, kept[k], found[k + 1])
  <2> DEFINE s == 1 .. k + 1
  <2>1. s \in SUBSET D /\ k + 1 \in s /\ k + 1 \in 0 .. m
    <3>1. m \in Nat
      BY <1>1
    <3> HIDE DEF m
    <3>2. QED
      BY <1>10, <3>1
  <2>2. Max(s) = k + 1 /\ s \ {k + 1} = 1 .. k
    BY <1>1, <1>10, MaxOfInterval
  <2> HIDE DEF s
  <2>3. h[s] = WithoutSimilar(rows, h[s \ {Max(s)}], found[Max(s)])
    BY <1>7, <2>1
  <2>4. kept[k + 1] = h[s] /\ kept[k] = h[1 .. k]
    BY <2>1 DEF s
  <2>5. QED
    BY <2>2, <2>3, <2>4
<1>11. kept[m] = h[D]
  BY <1>1
<1>12. QED
  <2> HIDE DEF kept
  <2> QED
    BY <1>8, <1>9, <1>10, <1>11

\* What deduplicate() keeps is a list of stories, none of them similar to a
\* saved row or to one before it.
AllNew(stories, rows) ==
  /\ stories \in Seq(Posts)
  /\ \A i \in DOMAIN stories : ~ InRows(stories[i], rows)
  /\ \A j \in DOMAIN stories : \A i \in 1 .. j - 1 :
       ~ Similar(Text(stories[j]), Text(stories[i]))

LEMMA KeepsAllNew ==
  ASSUME NEW rows, NEW kept, AllNew(kept, rows), NEW story \in Posts
  PROVE  AllNew(WithoutSimilar(rows, kept, story), rows)
<1>1. CASE InRows(story, rows) \/ \E k \in Range(kept) : Similar(Text(story), Text(k))
  BY <1>1 DEF WithoutSimilar
<1>2. CASE ~ InRows(story, rows) /\ ~ \E k \in Range(kept) : Similar(Text(story), Text(k))
  <2> DEFINE new == Append(kept, story)
  <2>1. WithoutSimilar(rows, kept, story) = new
    BY <1>2 DEF WithoutSimilar
  <2>2. /\ kept \in Seq(Posts) /\ Len(kept) \in Nat /\ DOMAIN kept = 1 .. Len(kept)
        /\ new \in Seq(Posts) /\ DOMAIN new = 1 .. Len(kept) + 1
        /\ new[Len(kept) + 1] = story
        /\ \A i \in DOMAIN kept : new[i] = kept[i]
    BY DEF AllNew
  <2> HIDE DEF new
  <2>3. ASSUME NEW j \in DOMAIN new
        PROVE  ~ InRows(new[j], rows) /\ \A i \in 1 .. j - 1 : ~ Similar(Text(new[j]), Text(new[i]))
    <3>1. CASE j \in DOMAIN kept
      <4>1. \A i \in 1 .. j - 1 : i \in DOMAIN kept
        BY <2>2, <3>1
      <4>2. QED
        BY <2>2, <3>1, <4>1 DEF AllNew
    <3>2. CASE j = Len(kept) + 1
      <4>1. \A i \in 1 .. j - 1 : i \in DOMAIN kept /\ new[i] \in Range(kept)
        BY <2>2, <3>2 DEF Range
      <4>2. QED
        BY <1>2, <2>2, <3>2, <4>1
    <3>3. QED
      BY <2>2, <3>1, <3>2
  <2>4. QED
    BY <2>1, <2>2, <2>3 DEF AllNew
<1>3. QED
  BY <1>1, <1>2

LEMMA DedupAllNew ==
  ASSUME NEW found \in Seq(Posts), NEW rows
  PROVE  AllNew(Deduplicate(found, rows), rows)
<1>1. PICK kept :
        /\ kept[0] = << >>
        /\ \A k \in 0 .. Len(found) : k + 1 <= Len(found) =>
             kept[k + 1] = WithoutSimilar(rows, kept[k], found[k + 1])
        /\ Deduplicate(found, rows) = kept[Len(found)]
  BY DedupSteps
<1> DEFINE m == Len(found)
           S == { k \in 0 .. m : AllNew(kept[k], rows) }
<1>2. m \in Nat /\ \A i \in 1 .. m : found[i] \in Posts
  OBVIOUS
<1>3. 0 \in S
  <2>1. AllNew(<< >>, rows)
    BY DEF AllNew
  <2>2. QED
    BY <1>1, <1>2, <2>1
<1>4. ASSUME NEW k \in 0 .. m, k \in S, k + 1 <= m
      PROVE  k + 1 \in S
  <2>1. found[k + 1] \in Posts /\ k + 1 \in 0 .. m
    BY <1>2, <1>4
  <2>2. AllNew(WithoutSimilar(rows, kept[k], found[k + 1]), rows)
    BY <1>4, <2>1, KeepsAllNew
  <2>3. QED
    BY <1>1, <1>4, <2>1, <2>2
<1>5. 0 .. m \subseteq S
  <2> HIDE DEF S, m
  <2> QED
    BY <1>2, <1>3, <1>4, BoundedInduction
<1>6. QED
  BY <1>1, <1>2, <1>5

-----------------------------------------------------------------------------
(* generateQueries() *)

\* Sets of templates are small.
LEMMA FewTemplates ==
  ASSUME NEW keys \in SUBSET Templates
  PROVE  IsFiniteSet(keys) /\ Cardinality(keys) \in Nat /\ Cardinality(keys) <= 7
<1>1. IsFiniteSet(Templates) /\ Cardinality(Templates) = 7
  <2>1. 1 \in Int /\ 7 \in Int /\ ~ 1 > 7 /\ 7 - 1 + 1 = 7
    OBVIOUS
  <2>2. IsFiniteSet(1 .. 7) /\ Cardinality(1 .. 7) = IF 1 > 7 THEN 0 ELSE 7 - 1 + 1
    BY <2>1, FS_Interval, Zenon
  <2>3. QED
    BY <2>1, <2>2 DEF Templates
<1>2. QED
  BY <1>1, FS_Subset, FS_CardinalityType

\* If there are no more than n, the first n are all of them.
LEMMA FirstOfFew ==
  ASSUME NEW keys \in SUBSET Templates, NEW n \in Int, Cardinality(keys) <= n
  PROVE  FirstOf(n, keys) = keys
<1>1. ASSUME NEW k \in keys
      PROVE  Cardinality({ j \in keys : j < k }) < n
  <2> DEFINE before == { j \in keys : j < k }
  <2>1. before \in SUBSET (keys \ {k})
    BY DEF Templates
  <2> HIDE DEF before
  <2>2. /\ IsFiniteSet(keys) /\ IsFiniteSet(keys \ {k})
        /\ Cardinality(keys) \in Nat /\ Cardinality(keys \ {k}) = Cardinality(keys) - 1
    BY FewTemplates, FS_RemoveElement
  <2>3. Cardinality(before) <= Cardinality(keys \ {k}) /\ Cardinality(before) \in Nat
    BY <2>1, <2>2, FS_Subset, FS_CardinalityType
  <2>4. Cardinality(before) < n
    BY <2>2, <2>3
  <2>5. QED
    BY <2>4 DEF before
<1>2. QED
  BY <1>1 DEF FirstOf

\* If they are not all of them, they are at least n.
LEMMA FirstOfMany ==
  ASSUME NEW keys \in SUBSET Templates, NEW n \in Int, FirstOf(n, keys) # keys
  PROVE  Cardinality(FirstOf(n, keys)) >= n
<1> DEFINE others == keys \ FirstOf(n, keys)
<1>1. FirstOf(n, keys) \in SUBSET keys
  BY DEF FirstOf
<1>2. others \in SUBSET Nat /\ others # {}
  <2>1. keys \in SUBSET Nat
    BY DEF Templates
  <2>2. \E k \in keys : k \notin FirstOf(n, keys)
    BY <1>1
  <2>3. QED
    BY <2>1, <2>2
<1>3. PICK u \in others : \A k \in others : u <= k
  <2> HIDE DEF others
  <2> QED
    BY <1>2, Least
<1> DEFINE before == { j \in keys : j < u }
<1>4. ~ Cardinality(before) < n
  BY <1>3 DEF FirstOf
<1>5. before \in SUBSET FirstOf(n, keys)
  <2>1. \A j \in before : j \notin others
    BY <1>2, <1>3 DEF Templates
  <2>2. QED
    BY <2>1
<1> HIDE DEF before, others
<1>6. FirstOf(n, keys) \in SUBSET Templates
  BY <1>1
<1>7. /\ Cardinality(before) <= Cardinality(FirstOf(n, keys))
      /\ Cardinality(before) \in Nat /\ Cardinality(FirstOf(n, keys)) \in Nat
  BY <1>5, <1>6, FewTemplates, FS_Subset
<1>8. QED
  BY <1>4, <1>7

\* A round leaves out at most two of the templates an interest is entitled to,
\* and none of those left out by the round before if there were no more.
LEMMA RoundSelects ==
  ASSUME NEW i \in DOMAIN Interests, NEW recent
  PROVE  LET eligible == EligibleTemplates(Interests[i].prefs)
             selected == Selected(Interests[i], recent)
         IN  /\ selected \subseteq eligible /\ eligible \subseteq Templates
             /\ Cardinality(eligible \ selected) <= 2
             /\ Cardinality(eligible \ recent) <= 2 => eligible \ recent \subseteq selected
<1> DEFINE eligible == EligibleTemplates(Interests[i].prefs)
           selected == Selected(Interests[i], recent)
           fresh    == eligible \ recent
           stale    == eligible \cap recent
           first    == FirstOf(5, fresh)
           second   == FirstOf(5 - Cardinality(fresh), stale)
<1>1. eligible \in SUBSET Templates
  BY InterestsAssumption DEF EligibleTemplates, DefaultTemplates, AlwaysOn, Templates
<1>2. selected = first \cup second
  BY DEF Selected
<1>3. fresh \in SUBSET Templates /\ stale \in SUBSET Templates
      /\ eligible = fresh \cup stale /\ fresh \cap stale = {}
  BY <1>1
<1> HIDE DEF eligible, selected, fresh, stale
<1>4. first \in SUBSET fresh /\ second \in SUBSET stale
  BY DEF FirstOf
<1> HIDE DEF first, second
<1>5. /\ first \in SUBSET Templates /\ second \in SUBSET Templates
      /\ selected \in SUBSET eligible /\ selected \in SUBSET Templates
  BY <1>1, <1>2, <1>3, <1>4
<1>6. /\ Cardinality(fresh) \in Nat /\ Cardinality(stale) \in Nat
      /\ Cardinality(first) \in Nat /\ Cardinality(second) \in Nat
      /\ Cardinality(selected) \in Nat
      /\ Cardinality(eligible) \in Nat /\ Cardinality(eligible) <= 7
      /\ IsFiniteSet(eligible) /\ IsFiniteSet(first) /\ IsFiniteSet(second)
      /\ IsFiniteSet(selected)
  BY <1>1, <1>3, <1>5, FewTemplates
<1>7. Cardinality(eligible \ selected) = Cardinality(eligible) - Cardinality(selected)
  <2>1. eligible \cap selected = selected
    BY <1>5
  <2>2. Cardinality(eligible \ selected) = Cardinality(eligible) - Cardinality(eligible \cap selected)
    BY <1>6, FS_Difference
  <2>3. QED
    BY <2>1, <2>2
<1>8. Cardinality(selected) = Cardinality(first) + Cardinality(second)
  <2>1. first \cap second = {}
    BY <1>3, <1>4
  <2>2. Cardinality(first \cup second)
          = Cardinality(first) + Cardinality(second) - Cardinality(first \cap second)
    BY <1>6, FS_Union
  <2>3. Cardinality(first \cap second) = 0
    BY <2>1, FS_EmptySet
  <2>4. QED
    BY <1>2, <1>6, <2>2, <2>3
<1>9. Cardinality(eligible \ selected) <= 2
  <2>1. CASE first = fresh /\ second = stale
    <3>1. eligible \ selected = {}
      BY <1>2, <1>3, <2>1
    <3>2. QED
      BY <3>1, FS_EmptySet
  <2>2. CASE first # fresh
    <3>1. Cardinality(first) >= 5
      BY <1>3, <2>2, FirstOfMany DEF first
    <3>2. QED
      BY <1>6, <1>7, <1>8, <3>1
  <2>3. CASE first = fresh /\ second # stale
    <3>1. Cardinality(second) >= 5 - Cardinality(fresh)
      BY <1>3, <1>6, <2>3, FirstOfMany DEF second
    <3>2. QED
      BY <1>6, <1>7, <1>8, <2>3, <3>1
  <2>4. QED
    BY <2>1, <2>2, <2>3
<1>10. ASSUME Cardinality(fresh) <= 2
       PROVE  fresh \subseteq selected
  <2>1. first = fresh
    BY <1>3, <1>6, <1>10, FirstOfFew DEF first
  <2>2. QED
    BY <1>2, <2>1
<1>11. QED
  BY <1>1, <1>5, <1>9, <1>10 DEF eligible, selected, fresh

\* The fold over the interests, step by step.
LEMMA RoundSteps ==
  ASSUME recentTemplates \in [Topics -> SUBSET Templates], GenerateQueries
  PROVE  \E recent :
           /\ recent[0] = recentTemplates
           /\ \A k \in 0 .. Len(Interests) : k + 1 <= Len(Interests) =>
                recent[k + 1] = [recent[k] EXCEPT ![Interests[k + 1].topic] =
                                   Selected(Interests[k + 1], recent[k][Interests[k + 1].topic])]
           /\ recentTemplates' = recent[Len(Interests)]
<1> DEFINE m == Len(Interests)
           D == 1 .. m
           V == [Topics -> SUBSET Templates]
           With(i, r) == [r EXCEPT ![i.topic] = Selected(i, r[i.topic])]
           Step(g) == [s \in SUBSET D |->
                         IF s = {} THEN recentTemplates
                         ELSE With(Interests[Max(s)], g[s \ {Max(s)}])]
           pick == [s \in SUBSET D |-> Max(s)]
           op == [q \in D \X V |-> With(Interests[q[1]], q[2])]
<1>1. m \in Nat /\ D = DOMAIN Interests /\ IsFiniteSet(D) /\ recentTemplates \in V
  BY FS_Interval, InterestsAssumption
<1>2. \A s \in SUBSET D : s # {} => Max(s) \in s
  <2> HIDE DEF D
  <2>1. ASSUME NEW s \in SUBSET D, s # {} PROVE Max(s) \in s
    BY <1>1, <2>1, MaxUpTo DEF D
  <2>2. QED
    BY <2>1
<1>3. Picks(D, pick)
  BY <1>2 DEF Picks
<1>4. op \in [D \X V -> V]
  <2>1. ASSUME NEW i \in D, NEW r \in V PROVE With(Interests[i], r) \in V
    <3>1. Selected(Interests[i], r[Interests[i].topic]) \in SUBSET Templates
      BY <1>1, RoundSelects
    <3>2. QED
      BY <3>1
  <2>2. QED
    BY <2>1
<1>5. PICK g : g \in [SUBSET D -> V] /\ Recurs(D, recentTemplates, pick, op, g)
  <2> HIDE DEF D, V, pick, op
  <2> QED
    BY <1>1, <1>3, <1>4, Recursion
<1>6. g = Step(g)
  <2> HIDE DEF With
  <2>1. ASSUME NEW s \in SUBSET D, s # {}
        PROVE  g[s] = With(Interests[Max(s)], g[s \ {Max(s)}])
    <3>1. g[s \ {Max(s)}] \in V /\ Max(s) \in D /\ pick[s] = Max(s)
      BY <1>2, <1>5, <2>1
    <3>2. << Max(s), g[s \ {Max(s)}] >> \in D \X V
      BY <3>1
    <3>3. g[s] = op[<< Max(s), g[s \ {Max(s)}] >>]
      BY <1>5, <2>1, <3>1 DEF Recurs
    <3>4. QED
      BY <3>2, <3>3
  <2>2. g[{}] = recentTemplates
    BY <1>5 DEF Recurs
  <2>3. QED
    BY <1>5, <2>1, <2>2
<1> DEFINE h == CHOOSE f : f = Step(f)
<1>7. h = Step(h)
  <2> HIDE DEF Step
  <2> QED
    BY <1>6
<1>8. recentTemplates' = h[D]
  BY <1>1 DEF GenerateQueries, FoldLeft, MapThenFoldSet
<1> HIDE DEF h
<1> DEFINE recent == [k \in 0 .. m |-> h[1 .. k]]
<1>9. recent[0] = recentTemplates
  <2>1. 1 .. 0 = {}
    OBVIOUS
  <2>2. h[{}] = recentTemplates
    BY <1>7
  <2>3. QED
    BY <1>1, <2>1, <2>2
<1>10. ASSUME NEW k \in 0 .. m, k + 1 <= m
       PROVE  recent[k + 1] = With(Interests[k + 1], recent[k])
  <2> DEFINE s == 1 .. k + 1
  <2>1. s \in SUBSET D /\ k + 1 \in s /\ k + 1 \in 0 .. m
    <3>1. m \in Nat
      BY <1>1
    <3> HIDE DEF m
    <3>2. QED
      BY <1>10, <3>1
  <2>2. Max(s) = k + 1 /\ s \ {k + 1} = 1 .. k
    BY <1>1, <1>10, MaxOfInterval
  <2> HIDE DEF s, With
  <2>3. h[s] = With(Interests[Max(s)], h[s \ {Max(s)}])
    BY <1>7, <2>1
  <2>4. recent[k + 1] = h[s] /\ recent[k] = h[1 .. k]
    BY <2>1 DEF s
  <2>5. QED
    BY <2>2, <2>3, <2>4
<1>11. recent[m] = h[D]
  BY <1>1
<1>12. QED
  <2> HIDE DEF recent
  <2> QED
    BY <1>8, <1>9, <1>10, <1>11

\* After a round, an interest with a topic of its own has what was selected for it.
LEMMA RoundRecords ==
  ASSUME recentTemplates \in [Topics -> SUBSET Templates], GenerateQueries
  PROVE  /\ recentTemplates' \in [Topics -> SUBSET Templates]
         /\ \A i \in DOMAIN Interests : HasOwnTopic(i) =>
              recentTemplates'[Interests[i].topic] =
                Selected(Interests[i], recentTemplates[Interests[i].topic])
<1> DEFINE m == Len(Interests)
           V == [Topics -> SUBSET Templates]
           Topic(i) == Interests[i].topic
           Chosen(i, r) == Selected(Interests[i], r[Topic(i)])
<1>1. PICK recent :
        /\ recent[0] = recentTemplates
        /\ \A k \in 0 .. m : k + 1 <= m =>
             recent[k + 1] = [recent[k] EXCEPT ![Topic(k + 1)] = Chosen(k + 1, recent[k])]
        /\ recentTemplates' = recent[m]
  BY RoundSteps
<1>2. m \in Nat /\ DOMAIN Interests = 1 .. m
  BY InterestsAssumption
<1>3. \A i \in DOMAIN Interests : Topic(i) \in Topics
  BY DEF Topics
<1> DEFINE Done(i, k) == recent[k][Topic(i)] = IF i <= k THEN Chosen(i, recentTemplates)
                                                        ELSE recentTemplates[Topic(i)]
           Good(k) == recent[k] \in V /\ \A i \in DOMAIN Interests : HasOwnTopic(i) => Done(i, k)
           S == { k \in 0 .. m : Good(k) }
<1>4. 0 \in S
  BY <1>1, <1>2
<1>5. ASSUME NEW k \in 0 .. m, k \in S, k + 1 <= m
      PROVE  k + 1 \in S
  <2>1. k + 1 \in DOMAIN Interests /\ k + 1 \in 0 .. m /\ k \in Nat
    BY <1>2, <1>5
  <2>2. Good(k)
    BY <1>5
  <2>3. Chosen(k + 1, recent[k]) \in SUBSET Templates
    BY <2>1, RoundSelects
  <2>4. recent[k + 1] = [recent[k] EXCEPT ![Topic(k + 1)] = Chosen(k + 1, recent[k])]
    BY <1>1, <1>5
  <2> HIDE DEF Topic, Chosen
  <2>5. recent[k + 1] \in V
    BY <1>3, <2>1, <2>2, <2>3, <2>4
  <2>6. ASSUME NEW i \in DOMAIN Interests, HasOwnTopic(i)
        PROVE  Done(i, k + 1)
    <3>1. CASE i = k + 1
      <4>1. ~ i <= k
        BY <2>1, <3>1
      <4>2. recent[k][Topic(i)] = recentTemplates[Topic(i)]
        BY <2>2, <2>6, <4>1
      <4>3. recent[k + 1][Topic(i)] = Chosen(i, recent[k])
        BY <1>3, <2>2, <2>4, <3>1
      <4>4. QED
        BY <2>1, <3>1, <4>2, <4>3 DEF Chosen
    <3>2. CASE i # k + 1
      <4>1. Topic(i) # Topic(k + 1)
        BY <2>1, <2>6, <3>2 DEF HasOwnTopic, Topic
      <4>2. recent[k + 1][Topic(i)] = recent[k][Topic(i)]
        BY <1>3, <2>1, <2>2, <2>4, <4>1
      <4>3. i <= k <=> i <= k + 1
        BY <1>2, <2>1, <3>2
      <4>4. QED
        BY <2>2, <2>6, <4>2, <4>3
    <3>3. QED
      BY <3>1, <3>2
  <2>7. Good(k + 1)
    BY <2>5, <2>6
  <2>8. QED
    BY <2>1, <2>7
<1>6. m \in S
  <2>1. m \in 0 .. m
    BY <1>2
  <2> HIDE DEF S, m
  <2>2. 0 .. m \subseteq S
    BY <1>2, <1>4, <1>5, BoundedInduction
  <2>3. QED
    BY <2>1, <2>2
<1>7. \A i \in DOMAIN Interests : i <= m
  BY <1>2
<1>8. QED
  BY <1>1, <1>6, <1>7

-----------------------------------------------------------------------------
(* The types *)

TypeInv == EngineTypeOK /\ PromiseTypeOK

\* What TypeInv says of each part.
LEMMA EngineParts ==
  ASSUME TypeInv
  PROVE  /\ posts \in Seq(Row) /\ Len(posts) \in Nat /\ DOMAIN posts = 1 .. Len(posts)
         /\ \A i \in DOMAIN posts :
              posts[i].story \in Posts /\ posts[i].by \in Pushers /\ posts[i].at \in Nat
         /\ \A p \in Pushers : call[p].pc \in {"idle", "sending", "done", "failed"}
                               /\ call[p].posts \subseteq Pushable
         /\ \A u \in Commands : /\ work[u].published \subseteq Posts
                                /\ work[u].rest \in Seq(Posts)
                                /\ work[u].clear \in BOOLEAN
         /\ Cycles \subseteq Pushers /\ Commands \subseteq Pushers
         /\ Cycles \cap Commands = {} /\ Starts \subseteq Cycles
<1>1. \A i \in DOMAIN posts : posts[i] \in Row
  BY DEF TypeInv, EngineTypeOK, DaemonTypeOK
<1>2. \A i \in DOMAIN posts :
        posts[i].story \in Posts /\ posts[i].by \in Pushers /\ posts[i].at \in Nat
  BY <1>1 DEF Row
<1>3. QED
  BY <1>2, DaemonAssumption DEF TypeInv, EngineTypeOK, DaemonTypeOK, PromiseTypeOK, Cycles

\* push(): the call begins or is over at once.
LEMMA BeginSteps ==
  ASSUME PromiseTypeOK, NEW p \in Pushers, NEW stories, Begin(p, stories)
  PROVE  /\ PromiseTypeOK' /\ network' = network
         /\ call[p].pc = "idle" /\ call'[p].pc \in {"sending", "done"}
         /\ call'[p].posts \subseteq stories
         /\ \A q \in Pushers : q # p => call'[q] = call[q]
  BY DEF Begin, PromiseTypeOK

\* Its later steps.
LEMMA PushSteps ==
  ASSUME PromiseTypeOK, NEW p \in Pushers, Return(p) \/ Throw(p) \/ Arrive(p)
  PROVE  /\ PromiseTypeOK' /\ network' \subseteq network \cup call[p].posts
         /\ \A q \in Pushers : /\ call'[q].pc = "idle" <=> call[q].pc = "idle"
                               /\ call'[q].posts = call[q].posts
  BY DEF Return, Throw, Arrive, PromiseTypeOK

LEMMA Joined ==
  ASSUME NEW S, NEW s \in Seq(S), NEW t \in Seq(S)
  PROVE  /\ s \o t \in Seq(S) /\ Len(s \o t) = Len(s) + Len(t)
         /\ DOMAIN (s \o t) = 1 .. Len(s) + Len(t)
         /\ \A i \in DOMAIN s : (s \o t)[i] = s[i]
<1>1. s \o t \in Seq(S) /\ Len(s \o t) = Len(s) + Len(t)
  OBVIOUS
<1>2. \A i \in DOMAIN s : (s \o t)[i] = s[i]
  OBVIOUS
<1>3. QED
  BY <1>1, <1>2

\* The rows that a list of stories adds to the table.
LEMMA RowsAdded ==
  ASSUME posts \in Seq(Row), NEW stories \in Seq(Posts), NEW by \in Pushers, NEW at \in Nat,
         posts' = posts \o Rows(stories, by, at)
  PROVE  /\ posts' \in Seq(Row)
         /\ DOMAIN posts' = 1 .. Len(posts) + Len(stories)
         /\ \A i \in DOMAIN posts : posts'[i] = posts[i]
         /\ \A i \in DOMAIN stories :
              posts'[Len(posts) + i] = [story |-> stories[i], by |-> by, at |-> at]
         /\ \A j \in DOMAIN posts' : j \notin DOMAIN posts =>
              \E i \in DOMAIN stories : j = Len(posts) + i
<1> DEFINE new == Rows(stories, by, at)
<1>1. /\ Len(stories) \in Nat /\ DOMAIN stories = 1 .. Len(stories)
      /\ \A i \in DOMAIN stories : stories[i] \in Posts
      /\ Len(posts) \in Nat /\ DOMAIN posts = 1 .. Len(posts)
  OBVIOUS
<1>2. new \in Seq(Row) /\ Len(new) = Len(stories)
      /\ \A i \in DOMAIN stories : new[i] = [story |-> stories[i], by |-> by, at |-> at]
  BY <1>1 DEF Rows, Row
<1> HIDE DEF new
<1>3. posts' = posts \o new
  BY DEF new
<1>4. posts' \in Seq(Row) /\ Len(posts') = Len(posts) + Len(stories)
      /\ DOMAIN posts' = 1 .. Len(posts) + Len(stories)
      /\ \A i \in DOMAIN posts : posts'[i] = posts[i]
  <2>1. posts \in Seq(Row) /\ new \in Seq(Row)
    BY <1>2
  <2>2. /\ posts \o new \in Seq(Row) /\ Len(posts \o new) = Len(posts) + Len(new)
        /\ DOMAIN (posts \o new) = 1 .. Len(posts) + Len(new)
        /\ \A i \in DOMAIN posts : (posts \o new)[i] = posts[i]
    BY <2>1, Joined
  <2>3. QED
    BY <1>2, <1>3, <2>2
<1>5. ASSUME NEW i \in DOMAIN stories
      PROVE  posts'[Len(posts) + i] = [story |-> stories[i], by |-> by, at |-> at]
  <2>1. Len(posts) + i \in 1 .. Len(posts) + Len(new) /\ ~ Len(posts) + i <= Len(posts)
        /\ (Len(posts) + i) - Len(posts) = i
    BY <1>1, <1>2
  <2>2. posts'[Len(posts) + i] = new[i]
    BY <1>1, <1>2, <1>3, <2>1
  <2>3. QED
    BY <1>2, <2>2
<1>6. ASSUME NEW j \in DOMAIN posts', j \notin DOMAIN posts
      PROVE  \E i \in DOMAIN stories : j = Len(posts) + i
  <2>1. j - Len(posts) \in DOMAIN stories /\ j = Len(posts) + (j - Len(posts))
    BY <1>1, <1>4, <1>6
  <2>2. QED
    BY <2>1
<1>7. QED
  BY <1>4, <1>5, <1>6

LEMMA NowIsANumber ==
  ASSUME posts \in Seq(Row)
  PROVE  Now \subseteq Nat
<1>1. posts # << >> => posts[Len(posts)] \in Row
  OBVIOUS
<1>2. QED
  BY <1>1 DEF Now, Row

LEMMA FoundAreLists == Found \subseteq Seq(Posts)
<1> SUFFICES ASSUME NEW results \in Results, NEW findings \in Extracted(results)
             PROVE  findings \in Seq(Posts)
  BY DEF Found
<1>1. results \in Seq(DOMAIN Told)
  BY DaemonAssumption
<1>2. DOMAIN results = 1 .. Len(results) /\ Len(results) \in Nat
  BY <1>1
<1>3. findings \in [1 .. Len(results) -> Posts]
  BY <1>2 DEF Extracted
<1>4. QED
  BY <1>2, <1>3

\* What findByAgentId() returns is in the table.
LEMMA NewestAreRows ==
  ASSUME NEW table, NEW limit, NEW rows \in NewestRows(table, limit)
  PROVE  rows \subseteq { table[i] : i \in DOMAIN table }
  BY DEF NewestRows

\* A row is among the newest if fewer than `limit` others are as new.
LEMMA NewestHold ==
  ASSUME NEW table, NEW m \in Nat, DOMAIN table = 1 .. m, Len(table) = m,
         NEW limit \in Nat, NEW rows \in NewestRows(table, limit), NEW i \in 1 .. m,
         Cardinality({ k \in 1 .. m : k # i /\ table[k].at >= table[i].at }) < limit
  PROVE  table[i] \in rows
<1> DEFINE newer == { k \in 1 .. m : k # i /\ table[k].at >= table[i].at }
<1>1. PICK chosen \in SUBSET (1 .. m) :
        /\ Cardinality(chosen) = IF m < limit THEN m ELSE limit
        /\ \A q \in chosen, j \in (1 .. m) \ chosen : table[j].at <= table[q].at
        /\ rows = { table[q] : q \in chosen }
  BY DEF NewestRows
<1>2. SUFFICES ASSUME i \notin chosen PROVE FALSE
  BY <1>1
<1>3. IsFiniteSet(1 .. m) /\ Cardinality(1 .. m) = m
  BY FS_Interval
<1>4. chosen \subseteq newer
  BY <1>1, <1>2
<1>5. newer \in SUBSET (1 .. m)
  OBVIOUS
<1> HIDE DEF newer
<1>6. IsFiniteSet(newer) /\ Cardinality(newer) \in Nat /\ Cardinality(chosen) <= Cardinality(newer)
  BY <1>3, <1>4, <1>5, FS_Subset, FS_CardinalityType
<1>7. Cardinality(newer) < limit
  BY DEF newer
<1>8. m < limit /\ Cardinality(chosen) = m
  BY <1>1, <1>6, <1>7
<1>9. chosen = 1 .. m
  BY <1>3, <1>8, FS_Subset
<1>10. QED
  BY <1>2, <1>9

-----------------------------------------------------------------------------
(* What the actions do to the table *)

LEMMA PrefixAllNew ==
  ASSUME NEW stories, NEW rows, AllNew(stories, rows), NEW n \in 0 .. Len(stories)
  PROVE  /\ AllNew(SubSeq(stories, 1, n), rows)
         /\ n = Len(stories) => SubSeq(stories, 1, n) = stories
<1> DEFINE some == SubSeq(stories, 1, n)
<1>1. stories \in Seq(Posts) /\ Len(stories) \in Nat /\ DOMAIN stories = 1 .. Len(stories)
  BY DEF AllNew
<1>2. some \in Seq(Posts) /\ Len(some) = n
  BY <1>1
<1>3. /\ some \in Seq(Posts) /\ DOMAIN some = 1 .. n
      /\ \A i \in 1 .. n : some[i] = stories[i]
  BY <1>1, <1>2
<1>4. n = Len(stories) => some = stories
  BY <1>1
<1> HIDE DEF some
<1>5. \A j \in DOMAIN some : j \in DOMAIN stories /\ \A i \in 1 .. j - 1 : i \in DOMAIN some
  BY <1>1, <1>3
<1>6. AllNew(some, rows)
  BY <1>3, <1>5 DEF AllNew
<1>7. QED
  BY <1>4, <1>6 DEF some

\* A cycle saves a list of new stories, and pushes them or nothing.
CycleSaves(c, news, rows, at) ==
  /\ AllNew(news, rows)
  /\ posts' = posts \o Rows(news, c, at)
  /\ \/ cycle' = [cycle EXCEPT ![c] = "pushing"] /\ Begin(c, Range(news))
     \/ cycle' = [cycle EXCEPT ![c] = "over"] /\ UNCHANGED promiseVars

LEMMA SearchesDoneSaves ==
  ASSUME TypeInv, NEW c \in Cycles, SearchesDone(c)
  PROVE  \E rows \in NewestRows(posts, Recent), news \in Seq(Posts), at \in Nat :
           CycleSaves(c, news, rows, at)
<1>1. PICK found \in Found, rows \in NewestRows(posts, Recent), at \in Now :
        \E saved \in 0 .. Len(Deduplicate(found, rows)) :
          SaveThenPush(c, Deduplicate(found, rows), saved, at)
  BY DEF SearchesDone
<1> DEFINE stories == Deduplicate(found, rows)
<1>2. AllNew(stories, rows) /\ at \in Nat
  BY <1>1, FoundAreLists, DedupAllNew, EngineParts, NowIsANumber
<1> HIDE DEF stories
<1>3. PICK saved \in 0 .. Len(stories) : SaveThenPush(c, stories, saved, at)
  BY <1>1 DEF stories
<1> DEFINE news == SubSeq(stories, 1, saved)
<1>4. AllNew(news, rows) /\ (saved = Len(stories) => news = stories)
  BY <1>2, PrefixAllNew
<1>5. news \in Seq(Posts)
  BY <1>4 DEF AllNew
<1>6. CycleSaves(c, news, rows, at)
  BY <1>3, <1>4 DEF SaveThenPush, CycleSaves
<1> HIDE DEF news
<1>7. QED
  BY <1>2, <1>5, <1>6

\* A command saves one story: `respond` pushes it, publishFindings() goes on.
CommandSaves(u, story, at) ==
  posts' = posts \o Rows(<< story >>, u, at)

LEMMA ResearchDoneSaves ==
  ASSUME TypeInv, NEW u \in Commands, ResearchDone(u)
  PROVE  \E story \in Posts, at \in Nat : CommandSaves(u, story, at) /\ Begin(u, {story})
<1>1. PICK findings \in Found :
        \E story \in BestFindings(findings, work[u].cited) : PublishRespond(u, story)
  BY DEF ResearchDone
<1>2. PICK story \in BestFindings(findings, work[u].cited) : PublishRespond(u, story)
  BY <1>1
<1>3. findings \in Seq(Posts)
  BY FoundAreLists
<1>4. story \in Posts
  BY <1>3 DEF BestFindings
<1>5. PICK at \in Now : CommandSaves(u, story, at)
  BY <1>2 DEF PublishRespond, SavePost, CommandSaves
<1>6. at \in Nat
  BY EngineParts, NowIsANumber
<1>7. {story} # {}
  OBVIOUS
<1>8. Begin(u, {story})
  BY <1>2, <1>7 DEF PublishRespond, PushToNetwork
<1>9. QED
  BY <1>4, <1>5, <1>6, <1>8

\* The next finding is saved if it was clear; then there is the next one, with a
\* look at the newest rows, or the push of what was published.
LEMMA NextFindingSaves ==
  ASSUME TypeInv, NEW u \in Commands, NextFinding(u)
  PROVE  LET w     == work[u]
             story == Head(w.rest)
             published == IF w.clear THEN w.published \cup {story} ELSE w.published
         IN  /\ w.at = "publishing" /\ story \in Posts
             /\ w.clear => \E at \in Nat : CommandSaves(u, story, at)
             /\ ~ w.clear => posts' = posts
             /\ \/ /\ Tail(w.rest) # << >> /\ UNCHANGED promiseVars
                   /\ \E rows \in NewestRows(posts', RecentToPublisher) :
                        work' = [work EXCEPT ![u] =
                                   [w EXCEPT !.rest = Tail(w.rest), !.published = published,
                                             !.clear = ~ IsDuplicate(Head(Tail(w.rest)), rows)]]
                \/ /\ Ended(u)
                   /\ (published = {} /\ UNCHANGED promiseVars) \/ Begin(u, published)
<1> DEFINE w     == work[u]
           story == Head(w.rest)
           published == IF w.clear THEN w.published \cup {story} ELSE w.published
           next(rows) == [w EXCEPT !.rest = Tail(w.rest), !.published = published,
                                   !.clear = ~ IsDuplicate(Head(Tail(w.rest)), rows)]
<1>1. w.at = "publishing" /\ w \in [at : {"idle", "researching", "publishing", "over"},
                            cited : SUBSET Posts, rest : Seq(Posts),
                            clear : BOOLEAN, published : SUBSET Posts]
  BY DEF NextFinding, TypeInv, EngineTypeOK
<1>2. story \in Posts
  <2>1. w.rest \in Seq(Posts) /\ w.rest # << >>
    BY <1>1 DEF TypeInv, EngineTypeOK
  <2>2. QED
    BY <2>1
<1>3. w.clear => \E at \in Nat : CommandSaves(u, story, at)
  <2>1. Now \subseteq Nat
    BY EngineParts, NowIsANumber
  <2>2. w.clear => SavePost(u, story)
    BY DEF NextFinding
  <2>3. QED
    BY <2>1, <2>2 DEF SavePost, CommandSaves
<1>4. ~ w.clear => posts' = posts
  BY DEF NextFinding
<1> DEFINE rest == [w EXCEPT !.rest = Tail(@), !.published = published]
<1>5. rest.rest = Tail(w.rest) /\ \A rows : [rest EXCEPT !.clear = ~ IsDuplicate(Head(rest.rest), rows)] = next(rows)
  BY <1>1
<1>6. CASE rest.rest # << >>
  <2>1. UNCHANGED promiseVars
        /\ \E n \in Looked(rest, posts') : work' = [work EXCEPT ![u] = n]
    BY <1>6 DEF NextFinding
  <2>2. PICK n \in Looked(rest, posts') : work' = [work EXCEPT ![u] = n]
    BY <2>1
  <2>3. PICK rows \in NewestRows(posts', RecentToPublisher) :
          n = [rest EXCEPT !.clear = ~ IsDuplicate(Head(rest.rest), rows)]
    BY <2>2 DEF Looked
  <2>4. work' = [work EXCEPT ![u] = next(rows)]
    BY <1>5, <2>2, <2>3
  <2> HIDE DEF rest, next
  <2>5. \E r \in NewestRows(posts', RecentToPublisher) : work' = [work EXCEPT ![u] = next(r)]
    BY <2>4
  <2>6. QED
    BY <1>1, <1>2, <1>3, <1>4, <1>5, <1>6, <2>1, <2>5 DEF next
<1>7. CASE rest.rest = << >>
  <2>1. Ended(u) /\ PushToNetwork(u, published)
    BY <1>7 DEF NextFinding
  <2>2. QED
    BY <1>1, <1>2, <1>3, <1>4, <2>1 DEF PushToNetwork
<1>8. QED
  BY <1>6, <1>7

-----------------------------------------------------------------------------
(* Every step keeps the types *)

CycleStates == {"idle", "starting", "reading", "searching", "pushing", "over"}

Daemons == [running : BOOLEAN, cronJob : Starts \cup {NoJob}, open : BOOLEAN,
            overlapped : SUBSET Starts]

Works == [at : {"idle", "researching", "publishing", "over"},
          cited : SUBSET Posts, rest : Seq(Posts),
          clear : BOOLEAN, published : SUBSET Posts]

\* What a command keeps to: one post is cited, there is a finding to publish,
\* and nothing is pushed before.
WorkOK(w, pc) ==
  /\ Cardinality(w.cited) <= 1
  /\ w.at = "publishing" => w.rest # << >>
  /\ w.at \in {"researching", "publishing"} => pc = "idle"

LEMMA TypeInvParts ==
  TypeInv <=> /\ daemon \in Daemons
              /\ jobs \subseteq Starts
              /\ cycle \in [Cycles -> CycleStates]
              /\ posts \in Seq(Row)
              /\ \A c \in Cycles : cycle[c] = "pushing" => call[c].pc # "idle"
              /\ recentTemplates \in [Topics -> SUBSET Templates]
              /\ work \in [Commands -> Works]
              /\ \A u \in Commands : WorkOK(work[u], call[u].pc)
              /\ PromiseTypeOK
  BY DEF TypeInv, EngineTypeOK, DaemonTypeOK, Daemons, CycleStates, Works, WorkOK

LEMMA TypeInvPartsThen ==
  TypeInv' <=> /\ daemon' \in Daemons
               /\ jobs' \subseteq Starts
               /\ cycle' \in [Cycles -> CycleStates]
               /\ posts' \in Seq(Row)
               /\ \A c \in Cycles : cycle'[c] = "pushing" => call'[c].pc # "idle"
               /\ recentTemplates' \in [Topics -> SUBSET Templates]
               /\ work' \in [Commands -> Works]
               /\ \A u \in Commands : WorkOK(work'[u], call'[u].pc)
               /\ PromiseTypeOK'
  BY DEF TypeInv, EngineTypeOK, DaemonTypeOK, Daemons, CycleStates, Works, WorkOK

LEMMA Lists ==
  /\ << >> \in Seq(Posts)
  /\ \A story \in Posts : << story >> \in Seq(Posts)
  /\ \A stories \in Seq(Posts) : stories # << >> => Tail(stories) \in Seq(Posts)
  OBVIOUS

LEMMA RangeOfOne == \A story : Range(<< story >>) = {story}
  BY DEF Range

LEMMA IdleWork == NoWork \in Works /\ [NoWork EXCEPT !.at = "over"] \in Works
                  /\ WorkOK(NoWork, "idle") /\ \A pc : WorkOK([NoWork EXCEPT !.at = "over"], pc)
<1>1. NoWork \in Works /\ [NoWork EXCEPT !.at = "over"] \in Works
  BY Lists DEF NoWork, Works
<1>2. Cardinality({}) <= 1
  BY FS_EmptySet
<1>3. QED
  BY <1>1, <1>2 DEF NoWork, WorkOK

\* A command is over; its call may have begun.
LEMMA TypeOver ==
  ASSUME TypeInv, NEW u \in Commands, Ended(u), PromiseTypeOK', posts' \in Seq(Row),
         UNCHANGED << daemon, jobs, cycle, recentTemplates >>,
         \A q \in Pushers : q # u => call'[q].pc = call[q].pc
  PROVE  TypeInv'
<1>1. work' = [work EXCEPT ![u] = [NoWork EXCEPT !.at = "over"]]
  BY DEF Ended
<1>2. work' \in [Commands -> Works] /\ \A v \in Commands : WorkOK(work'[v], call'[v].pc)
  <2> DEFINE over == [NoWork EXCEPT !.at = "over"]
  <2>1. over \in Works /\ \A pc : WorkOK(over, pc)
    BY IdleWork
  <2>2. work \in [Commands -> Works] /\ \A v \in Commands : WorkOK(work[v], call[v].pc)
    BY TypeInvParts
  <2>3. work' = [work EXCEPT ![u] = over]
    BY <1>1
  <2> HIDE DEF over
  <2>4. \A v \in Commands : v # u => call'[v].pc = call[v].pc /\ work'[v] = work[v]
    BY <2>2, <2>3, EngineParts
  <2>5. work'[u] = over /\ work' \in [Commands -> Works]
    BY <2>1, <2>2, <2>3
  <2>6. QED
    BY <2>1, <2>2, <2>4, <2>5
<1>3. \A c \in Cycles : cycle'[c] = "pushing" => call'[c].pc # "idle"
  BY TypeInvParts, EngineParts
<1>4. QED
  BY <1>2, <1>3, TypeInvParts, TypeInvPartsThen

\* A command goes on with its work.
LEMMA TypeAtWork ==
  ASSUME TypeInv, NEW u \in Commands, NEW w \in Works, WorkOK(w, call[u].pc),
         work' = [work EXCEPT ![u] = w], posts' \in Seq(Row),
         UNCHANGED << daemon, jobs, cycle, recentTemplates, promiseVars >>
  PROVE  TypeInv'
<1>1. PromiseTypeOK' /\ call' = call
  BY TypeInvParts DEF PromiseTypeOK, promiseVars
<1>2. work \in [Commands -> Works] /\ \A v \in Commands : WorkOK(work[v], call[v].pc)
  BY TypeInvParts
<1>3. work' \in [Commands -> Works] /\ \A v \in Commands : WorkOK(work'[v], call'[v].pc)
  BY <1>1, <1>2
<1>4. QED
  BY <1>1, <1>3, TypeInvParts, TypeInvPartsThen

LEMMA TypeCommands ==
  ASSUME TypeInv, NEW u \in Commands, CommandStep(u)
  PROVE  TypeInv'
<1>0. u \in Pushers
  BY EngineParts
<1>1. CASE work[u] = NoWork /\ PushCommand(u) /\ UNCHANGED work
  <2>1. PICK stories : Begin(u, stories)
    BY <1>1 DEF PushCommand
  <2>2. /\ PromiseTypeOK' /\ \A q \in Pushers : q # u => call'[q] = call[q]
    BY <1>0, <2>1, TypeInvParts, BeginSteps
  <2>3. UNCHANGED << daemon, jobs, cycle, posts, recentTemplates >>
    BY <1>1 DEF PushCommand
  <2>4. WorkOK(work'[u], call'[u].pc)
    <3>1. NoWork.at = "idle" /\ WorkOK(NoWork, "idle")
      BY IdleWork DEF NoWork
    <3>2. WorkOK(NoWork, call'[u].pc)
      BY <3>1 DEF WorkOK
    <3>3. QED
      BY <1>1, <3>2
  <2>5. \A v \in Commands : WorkOK(work'[v], call'[v].pc)
    BY <1>1, <2>2, <2>4, TypeInvParts, EngineParts
  <2>6. \A c \in Cycles : cycle'[c] = "pushing" => call'[c].pc # "idle"
    BY <2>2, <2>3, TypeInvParts, EngineParts
  <2>7. QED
    BY <1>1, <2>2, <2>3, <2>5, <2>6, TypeInvParts, TypeInvPartsThen
<1>2. CASE BeginRespond(u)
  <2>1. PICK i \in DOMAIN posts :
          work' = [work EXCEPT ![u] = [NoWork EXCEPT !.at = "researching", !.cited = {posts[i].story}]]
    BY <1>2 DEF BeginRespond
  <2> DEFINE w == [NoWork EXCEPT !.at = "researching", !.cited = {posts[i].story}]
  <2>2. w \in Works
    <3>1. posts[i].story \in Posts
      BY EngineParts
    <3>2. QED
      BY <3>1, Lists DEF NoWork, Works
  <2>3. WorkOK(w, call[u].pc)
    <3>1. call[u].pc = "idle"
      BY <1>2 DEF BeginRespond
    <3>2. Cardinality({posts[i].story}) = 1
      BY FS_Singleton
    <3>3. QED
      BY <3>1, <3>2 DEF WorkOK, NoWork
  <2>4. UNCHANGED << daemon, jobs, cycle, posts, recentTemplates, promiseVars >>
    BY <1>2 DEF BeginRespond, daemonVars
  <2> HIDE DEF w
  <2>5. work' = [work EXCEPT ![u] = w]
    BY <2>1 DEF w
  <2>6. posts' \in Seq(Row)
    BY <2>4, TypeInvParts
  <2>7. QED
    BY <2>2, <2>3, <2>4, <2>5, <2>6, TypeAtWork
<1>3. CASE ResearchFails(u) \/ PublishFails(u)
  <2>1. Ended(u) /\ UNCHANGED daemonVars
    BY <1>3 DEF ResearchFails, PublishFails
  <2>2. PromiseTypeOK' /\ posts' \in Seq(Row)
    BY <2>1, TypeInvParts DEF daemonVars, promiseVars, PromiseTypeOK
  <2>3. QED
    BY <2>1, <2>2, TypeOver DEF daemonVars, promiseVars
<1>4. CASE ResearchDone(u)
  <2>1. PICK story \in Posts, at \in Nat : CommandSaves(u, story, at) /\ Begin(u, {story})
    BY <1>4, ResearchDoneSaves
  <2>2. PromiseTypeOK' /\ \A q \in Pushers : q # u => call'[q] = call[q]
    BY <1>0, <2>1, TypeInvParts, BeginSteps
  <2>3. << story >> \in Seq(Posts)
    OBVIOUS
  <2>4. posts' \in Seq(Row)
    BY <1>0, <2>1, <2>3, TypeInvParts, RowsAdded DEF CommandSaves
  <2>5. Ended(u) /\ UNCHANGED << daemon, jobs, cycle, recentTemplates >>
    BY <1>4 DEF ResearchDone
  <2>6. QED
    BY <2>2, <2>4, <2>5, TypeOver
<1>5. CASE BeginPublish(u)
  <2>1. PICK findings \in Found \ {<< >>} :
          \E w \in Looked([NoWork EXCEPT !.at = "publishing", !.rest = findings], posts) :
            work' = [work EXCEPT ![u] = w]
    BY <1>5 DEF BeginPublish
  <2>2. PICK w \in Looked([NoWork EXCEPT !.at = "publishing", !.rest = findings], posts) :
          work' = [work EXCEPT ![u] = w]
    BY <2>1
  <2>3. findings \in Seq(Posts) /\ findings # << >>
    BY FoundAreLists
  <2>4. w \in Works /\ w.at = "publishing" /\ w.rest = findings /\ w.cited = {}
    BY <2>2, <2>3 DEF Looked, NoWork, Works
  <2>5. WorkOK(w, call[u].pc)
    <3>1. call[u].pc = "idle"
      BY <1>5 DEF BeginPublish
    <3>2. QED
      BY <2>3, <2>4, <3>1, FS_EmptySet DEF WorkOK
  <2>6. UNCHANGED << daemon, jobs, cycle, posts, recentTemplates, promiseVars >>
    BY <1>5 DEF BeginPublish, daemonVars
  <2>7. posts' \in Seq(Row)
    BY <2>6, TypeInvParts
  <2>8. QED
    BY <2>2, <2>4, <2>5, <2>6, <2>7, TypeAtWork
<1>6. CASE NextFinding(u)
  <2> DEFINE w == work[u]
             story == Head(w.rest)
             published == IF w.clear THEN w.published \cup {story} ELSE w.published
             next(rows) == [w EXCEPT !.rest = Tail(w.rest), !.published = published,
                                     !.clear = ~ IsDuplicate(Head(Tail(w.rest)), rows)]
  <2>1. /\ w.at = "publishing" /\ story \in Posts
        /\ w.clear => \E at \in Nat : CommandSaves(u, story, at)
        /\ ~ w.clear => posts' = posts
        /\ \/ /\ Tail(w.rest) # << >> /\ UNCHANGED promiseVars
              /\ \E rows \in NewestRows(posts', RecentToPublisher) :
                   work' = [work EXCEPT ![u] = next(rows)]
           \/ /\ Ended(u)
              /\ (published = {} /\ UNCHANGED promiseVars) \/ Begin(u, published)
    BY <1>6, NextFindingSaves
  <2>2. posts' \in Seq(Row)
    <3>1. << story >> \in Seq(Posts)
      BY <2>1, Lists
    <3>2. CASE w.clear
      BY <1>0, <2>1, <3>1, <3>2, TypeInvParts, RowsAdded DEF CommandSaves
    <3>3. CASE ~ w.clear
      BY <2>1, <3>3, TypeInvParts
    <3>4. QED
      BY <3>2, <3>3
  <2>3. UNCHANGED << daemon, jobs, cycle, recentTemplates >>
    BY <1>6 DEF NextFinding
  <2>4. w \in Works /\ WorkOK(w, call[u].pc)
    BY TypeInvParts
  <2>5. ASSUME NEW rows, Tail(w.rest) # << >>
        PROVE  next(rows) \in Works /\ WorkOK(next(rows), call[u].pc)
    <3>1. w.rest \in Seq(Posts) /\ w.rest # << >> /\ w.published \in SUBSET Posts
      BY <2>1, <2>4 DEF Works, WorkOK
    <3>2. Tail(w.rest) \in Seq(Posts) /\ published \in SUBSET Posts
      <4>1. Tail(w.rest) \in Seq(Posts)
        BY <3>1, Lists
      <4>2. QED
        BY <2>1, <3>1, <4>1
    <3>3. next(rows) \in Works
      BY <2>4, <3>2 DEF Works
    <3>4. next(rows).cited = w.cited /\ next(rows).at = w.at /\ next(rows).rest = Tail(w.rest)
      BY <2>4 DEF Works
    <3>5. QED
      BY <2>4, <2>5, <3>3, <3>4 DEF WorkOK
  <2>6. CASE Tail(w.rest) # << >> /\ UNCHANGED promiseVars
             /\ \E rows \in NewestRows(posts', RecentToPublisher) :
                  work' = [work EXCEPT ![u] = next(rows)]
    <3>1. PICK rows \in NewestRows(posts', RecentToPublisher) : work' = [work EXCEPT ![u] = next(rows)]
      BY <2>6
    <3>2. next(rows) \in Works /\ WorkOK(next(rows), call[u].pc)
      BY <2>5, <2>6
    <3> HIDE DEF next, w
    <3>3. QED
      BY <2>2, <2>3, <2>6, <3>1, <3>2, TypeAtWork
  <2>7. CASE Ended(u) /\ UNCHANGED promiseVars
    <3>1. PromiseTypeOK' /\ call' = call
      BY <2>7, TypeInvParts DEF PromiseTypeOK, promiseVars
    <3>2. QED
      BY <2>2, <2>3, <2>7, <3>1, TypeOver
  <2>8. CASE Ended(u) /\ Begin(u, published)
    <3> HIDE DEF published
    <3>1. PromiseTypeOK' /\ \A q \in Pushers : q # u => call'[q] = call[q]
      BY <1>0, <2>8, TypeInvParts, BeginSteps
    <3>2. QED
      BY <2>2, <2>3, <2>8, <3>1, TypeOver
  <2>9. QED
    BY <2>1, <2>6, <2>7, <2>8
<1>7. QED
  BY <1>1, <1>2, <1>3, <1>4, <1>5, <1>6 DEF CommandStep

\* The daemon's own steps leave the work of commands alone; a call that has
\* begun does not get idle again.
LEMMA TypeBeside ==
  ASSUME TypeInv, UNCHANGED work, PromiseTypeOK',
         daemon' \in Daemons, jobs' \subseteq Starts, cycle' \in [Cycles -> CycleStates],
         posts' \in Seq(Row), recentTemplates' \in [Topics -> SUBSET Templates],
         \A u \in Commands : call'[u].pc = "idle" <=> call[u].pc = "idle",
         \A c \in Cycles : cycle'[c] = "pushing" => call'[c].pc # "idle"
  PROVE  TypeInv'
<1>1. \A u \in Commands : WorkOK(work'[u], call'[u].pc)
  BY TypeInvParts DEF WorkOK
<1>2. QED
  BY <1>1, TypeInvParts, TypeInvPartsThen

LEMMA TypeDaemon ==
  ASSUME TypeInv, DaemonStep, UNCHANGED work
  PROVE  TypeInv'
<1>1. /\ daemon \in Daemons /\ jobs \subseteq Starts /\ cycle \in [Cycles -> CycleStates]
      /\ posts \in Seq(Row) /\ recentTemplates \in [Topics -> SUBSET Templates]
      /\ PromiseTypeOK
      /\ \A c \in Cycles : cycle[c] = "pushing" => call[c].pc # "idle"
      /\ Starts \subseteq Cycles
  BY TypeInvParts DEF Cycles
<1>2. UNCHANGED promiseVars => PromiseTypeOK' /\ call' = call
  BY <1>1 DEF PromiseTypeOK, promiseVars
<1>3. ASSUME NEW s \in Starts, Start(s) \/ Scheduled(s) \/ StartFails(s)
      PROVE  TypeInv'
  <2>0. OverlapWith(s) \subseteq Starts
    BY DEF OverlapWith
  <2>1. /\ UNCHANGED << posts, recentTemplates, promiseVars >>
        /\ daemon' \in Daemons /\ jobs' \subseteq Starts
    <3>1. CASE Start(s)
      BY <1>1, <2>0, <3>1 DEF Start, Daemons
    <3>2. CASE Scheduled(s) \/ StartFails(s)
      BY <1>1, <3>2 DEF Scheduled, StartFails, Daemons
    <3>3. QED
      BY <1>3, <3>1, <3>2
  <2>2. PICK state \in {"starting", "over", "reading"} : cycle' = [cycle EXCEPT ![s] = state]
    BY <1>3 DEF Start, Scheduled, StartFails
  <2>3. /\ cycle' \in [Cycles -> CycleStates]
        /\ \A c \in Cycles : cycle'[c] = "pushing" => cycle[c] = "pushing"
    BY <1>1, <2>2 DEF CycleStates
  <2>4. QED
    BY <1>1, <1>2, <2>1, <2>3, TypeBeside
<1>4. CASE Stop
  <2>1. /\ UNCHANGED << cycle, posts, recentTemplates, promiseVars >>
        /\ daemon' \in Daemons /\ jobs' \subseteq Starts
    BY <1>1, <1>4 DEF Stop, Daemons
  <2>2. QED
    BY <1>1, <1>2, <2>1, TypeBeside
<1>5. ASSUME NEW c \in Cycles, CronTick(c) \/ CycleThrows(c) \/ PushEnded(c)
      PROVE  TypeInv'
  <2>1. UNCHANGED << daemon, jobs, posts, recentTemplates, promiseVars >>
    BY <1>5 DEF CronTick, CycleThrows, PushEnded
  <2>2. PICK state \in {"reading", "over"} : cycle' = [cycle EXCEPT ![c] = state]
    BY <1>5 DEF CronTick, CycleThrows, PushEnded
  <2>3. /\ cycle' \in [Cycles -> CycleStates]
        /\ \A d \in Cycles : cycle'[d] = "pushing" => cycle[d] = "pushing"
    BY <1>1, <2>2 DEF CycleStates
  <2>4. QED
    BY <1>1, <1>2, <2>1, <2>3, TypeBeside
<1>6. ASSUME NEW c \in Cycles, CardRead(c)
      PROVE  TypeInv'
  <2>1. UNCHANGED << daemon, jobs, posts, promiseVars >> /\ GenerateQueries
        /\ cycle' = [cycle EXCEPT ![c] = "searching"]
    BY <1>6 DEF CardRead
  <2>2. recentTemplates' \in [Topics -> SUBSET Templates]
    BY <1>1, <2>1, RoundRecords
  <2>3. /\ cycle' \in [Cycles -> CycleStates]
        /\ \A d \in Cycles : cycle'[d] = "pushing" => cycle[d] = "pushing"
    BY <1>1, <2>1 DEF CycleStates
  <2>4. QED
    BY <1>1, <1>2, <2>1, <2>2, <2>3, TypeBeside
<1>7. ASSUME NEW c \in Cycles, SearchesDone(c)
      PROVE  TypeInv'
  <2>1. c \in Pushers /\ c \notin Commands
    BY EngineParts
  <2>2. UNCHANGED << daemon, jobs, recentTemplates >>
    BY <1>7 DEF SearchesDone
  <2>3. PICK rows \in NewestRows(posts, Recent), news \in Seq(Posts), at \in Nat :
          CycleSaves(c, news, rows, at)
    BY <1>7, SearchesDoneSaves
  <2>4. posts' \in Seq(Row)
    BY <1>1, <2>1, <2>3, RowsAdded DEF CycleSaves
  <2>5. CASE cycle' = [cycle EXCEPT ![c] = "pushing"] /\ Begin(c, Range(news))
    <3>1. /\ PromiseTypeOK' /\ call'[c].pc # "idle"
          /\ \A q \in Pushers : q # c => call'[q] = call[q]
      BY <1>1, <2>1, <2>5, BeginSteps
    <3>2. /\ cycle' \in [Cycles -> CycleStates]
          /\ \A d \in Cycles : d # c => cycle'[d] = cycle[d]
      BY <1>1, <2>5 DEF CycleStates
    <3>3. \A d \in Cycles : cycle'[d] = "pushing" => call'[d].pc # "idle"
      BY <1>1, <3>1, <3>2, EngineParts
    <3>4. \A u \in Commands : call'[u].pc = "idle" <=> call[u].pc = "idle"
      BY <2>1, <3>1, EngineParts
    <3>5. QED
      BY <1>1, <2>2, <2>4, <3>1, <3>2, <3>3, <3>4, TypeBeside
  <2>6. CASE cycle' = [cycle EXCEPT ![c] = "over"] /\ UNCHANGED promiseVars
    <3>1. /\ cycle' \in [Cycles -> CycleStates]
          /\ \A d \in Cycles : cycle'[d] = "pushing" => cycle[d] = "pushing"
      BY <1>1, <2>6 DEF CycleStates
    <3>2. QED
      BY <1>1, <1>2, <2>2, <2>4, <2>6, <3>1, TypeBeside
  <2>7. QED
    BY <2>3, <2>5, <2>6 DEF CycleSaves
<1>8. ASSUME NEW p \in Pushers, Return(p) \/ Throw(p) \/ Arrive(p),
             UNCHANGED << daemon, jobs, cycle, posts, recentTemplates >>
      PROVE  TypeInv'
  <2>1. PromiseTypeOK' /\ \A q \in Pushers : call'[q].pc = "idle" <=> call[q].pc = "idle"
    BY <1>1, <1>8, PushSteps
  <2>2. QED
    BY <1>1, <1>8, <2>1, EngineParts, TypeBeside
<1>9. CASE ProcessEnds
  <2>1. /\ daemon' = NewDaemon /\ jobs' = {} /\ recentTemplates' = NoTemplates
        /\ posts' = posts /\ network' = network
        /\ cycle' = [c \in Cycles |-> IF cycle[c] = "idle" THEN "idle" ELSE "over"]
        /\ call' = [p \in Pushers |->
              IF p \in Cycles /\ call[p].pc = "sending"
                THEN [call[p] EXCEPT !.pc = "failed"] ELSE call[p]]
    BY <1>9 DEF ProcessEnds
  <2>2. /\ daemon' \in Daemons /\ jobs' \subseteq Starts
        /\ cycle' \in [Cycles -> CycleStates] /\ \A c \in Cycles : cycle'[c] # "pushing"
        /\ recentTemplates' \in [Topics -> SUBSET Templates]
    BY <1>1, <2>1 DEF NewDaemon, Daemons, CycleStates, NoTemplates
  <2>3. PromiseTypeOK' /\ \A p \in Pushers : p \notin Cycles => call'[p] = call[p]
    BY <1>1, <2>1 DEF PromiseTypeOK
  <2>4. \A u \in Commands : u \in Pushers /\ u \notin Cycles
    BY EngineParts
  <2>5. QED
    BY <1>1, <2>1, <2>2, <2>3, <2>4, TypeBeside
<1>10. QED
  <2>1. Cycles \subseteq Pushers /\ Commands \subseteq Pushers
    BY EngineParts
  <2>2. QED
    BY <1>3, <1>4, <1>5, <1>6, <1>7, <1>8, <1>9, <2>1 DEF DaemonStep, CycleStep

LEMMA TypePreserved == TypeInv /\ [EngineNext]_engineVars => TypeInv'
<1>1. ASSUME TypeInv, UNCHANGED engineVars
      PROVE  TypeInv'
  <2>1. UNCHANGED << work, daemon, jobs, cycle, posts, recentTemplates, call, network >>
    BY <1>1 DEF engineVars, daemonVars, promiseVars
  <2>2. PromiseTypeOK'
    BY <1>1, <2>1, TypeInvParts DEF PromiseTypeOK
  <2>3. QED
    BY <1>1, <2>1, <2>2, TypeInvParts, TypeInvPartsThen
<1>2. QED
  BY <1>1, TypeDaemon, TypeCommands DEF EngineNext

LEMMA TypeInitially == EngineInit => TypeInv
<1> SUFFICES ASSUME EngineInit
             PROVE  TypeInv
  OBVIOUS
<1>1. PromiseTypeOK /\ \A p \in Pushers : call[p].pc = "idle"
  BY DEF EngineInit, DaemonInit, PromiseInit, PromiseTypeOK
<1>2. /\ daemon \in Daemons /\ jobs \subseteq Starts /\ cycle \in [Cycles -> CycleStates]
      /\ \A c \in Cycles : cycle[c] # "pushing"
      /\ posts \in Seq(Row) /\ recentTemplates \in [Topics -> SUBSET Templates]
  BY DEF EngineInit, DaemonInit, NewDaemon, Daemons, CycleStates, NoTemplates
<1>3. work \in [Commands -> Works] /\ \A u \in Commands : work[u] = NoWork
  BY IdleWork DEF EngineInit
<1>4. \A u \in Commands : WorkOK(work[u], call[u].pc)
  BY <1>1, <1>3, IdleWork, DaemonAssumption
<1>5. QED
  BY <1>1, <1>2, <1>3, <1>4, TypeInvParts

\* The engine keeps to its types, and a cycle waits for a push that has begun.
THEOREM EngineTypeCorrect == EngineSpec => []EngineTypeOK
<1>1. TypeInv => EngineTypeOK
  BY DEF TypeInv
<1>2. QED
  BY <1>1, TypeInitially, TypePreserved, PTL DEF EngineSpec

LEMMA TypeInvariant == EngineSpec => []TypeInv
  BY TypeInitially, TypePreserved, PTL DEF EngineSpec

-----------------------------------------------------------------------------
(* stop() *)

\* The calls of start() that read the card at one time are on record, and so is
\* the one whose job runs while another still reads.
JobsInv ==
  /\ StopCancels
  /\ ~ daemon.running => daemon.cronJob = NoJob
  /\ \A r, s \in Starts :
       r # s /\ cycle[r] = "starting" /\ cycle[s] = "starting" => s \in daemon.overlapped
  /\ daemon.running /\ (\E r \in Starts : cycle[r] = "starting")
       => daemon.cronJob \in daemon.overlapped

LEMMA JobsPreserved == TypeInv /\ JobsInv /\ [EngineNext]_engineVars => JobsInv'
<1> SUFFICES ASSUME TypeInv, JobsInv, [EngineNext]_engineVars PROVE JobsInv'
  OBVIOUS
<1>1. /\ daemon \in Daemons /\ jobs \subseteq Starts /\ cycle \in [Cycles -> CycleStates]
      /\ Starts \subseteq Cycles /\ NoJob \notin Starts
  BY TypeInvParts, DaemonAssumption DEF Cycles
<1>2. /\ daemon.running => daemon.cronJob \in jobs
      /\ jobs \ {daemon.cronJob} \subseteq daemon.overlapped
      /\ ~ daemon.running => daemon.cronJob = NoJob
      /\ \A r, s \in Starts :
           r # s /\ cycle[r] = "starting" /\ cycle[s] = "starting" => s \in daemon.overlapped
      /\ daemon.running /\ (\E r \in Starts : cycle[r] = "starting")
           => daemon.cronJob \in daemon.overlapped
  BY DEF JobsInv, StopCancels
<1>3. ASSUME UNCHANGED << daemon, jobs >>,
             \A s \in Starts : cycle'[s] = "starting" => cycle[s] = "starting"
      PROVE  JobsInv'
  BY <1>2, <1>3 DEF JobsInv, StopCancels
<1>4. ASSUME NEW s \in Starts, Scheduled(s)
      PROVE  JobsInv'
  <2>1. /\ daemon' = [daemon EXCEPT !.running = TRUE, !.cronJob = s]
        /\ jobs' = jobs \cup {s}
        /\ cycle' = [cycle EXCEPT ![s] = "reading"]
        /\ cycle[s] = "starting"
    BY <1>4 DEF Scheduled
  <2>2. daemon'.running /\ daemon'.cronJob = s /\ daemon'.overlapped = daemon.overlapped
    BY <1>1, <2>1 DEF Daemons
  <2>3. \A r \in Starts : cycle'[r] = "starting" => r # s /\ cycle[r] = "starting"
    BY <1>1, <2>1
  \* What was scheduled before s, at the same time as s read the card, overlapped.
  <2>4. jobs \subseteq daemon.overlapped
    <3>1. CASE daemon.running
      BY <1>2, <2>1, <3>1
    <3>2. CASE ~ daemon.running
      BY <1>1, <1>2, <3>2
    <3>3. QED
      BY <3>1, <3>2
  <2>5. (\E r \in Starts : cycle'[r] = "starting") => s \in daemon.overlapped
    BY <1>2, <2>1, <2>3
  <2>6. QED
    BY <1>2, <2>1, <2>2, <2>3, <2>4, <2>5 DEF JobsInv, StopCancels
<1>5. CASE Stop
  <2>1. /\ jobs' = jobs \ {daemon.cronJob} /\ cycle' = cycle
        /\ daemon' = [daemon EXCEPT !.running = FALSE, !.cronJob = NoJob, !.open = FALSE]
    BY <1>5 DEF Stop
  <2>2. daemon'.cronJob = NoJob /\ ~ daemon'.running /\ daemon'.overlapped = daemon.overlapped
    BY <1>1, <2>1 DEF Daemons
  <2>3. QED
    BY <1>1, <1>2, <2>1, <2>2 DEF JobsInv, StopCancels
<1>6. CASE ProcessEnds
  <2>1. \A s \in Starts : cycle'[s] # "starting"
    BY <1>1, <1>6 DEF ProcessEnds
  <2>2. daemon' = NewDaemon /\ jobs' = {}
    BY <1>6 DEF ProcessEnds
  <2>3. QED
    BY <2>1, <2>2 DEF NewDaemon, JobsInv, StopCancels
<1>7. ASSUME NEW s \in Starts, Start(s)
      PROVE  JobsInv'
  <2>1. cycle[s] = "idle" /\ ~ daemon.running /\ jobs' = jobs
    BY <1>7 DEF Start
  <2>2. CASE daemon.open
    <3>1. /\ cycle' = [cycle EXCEPT ![s] = "starting"]
          /\ daemon' = [daemon EXCEPT !.overlapped = daemon.overlapped \cup OverlapWith(s)]
      BY <1>7, <2>2 DEF Start
    <3>2. /\ daemon'.overlapped = daemon.overlapped \cup OverlapWith(s)
          /\ daemon'.running = daemon.running /\ daemon'.cronJob = daemon.cronJob
      BY <1>1, <3>1 DEF Daemons
    <3>3. \A r \in Starts : r # s => cycle'[r] = cycle[r]
      BY <1>1, <3>1
    <3>4. \A r \in Starts : r # s /\ cycle[r] = "starting"
             => r \in daemon'.overlapped /\ s \in daemon'.overlapped
      BY <3>2 DEF OverlapWith
    <3>5. \A q, r \in Starts : q # r /\ cycle'[q] = "starting" /\ cycle'[r] = "starting"
             => r \in daemon'.overlapped
      BY <1>2, <3>2, <3>3, <3>4
    <3>6. QED
      BY <1>2, <2>1, <3>2, <3>5 DEF JobsInv, StopCancels
  <2>3. CASE ~ daemon.open
    <3>1. UNCHANGED << daemon, jobs >> /\ cycle' = [cycle EXCEPT ![s] = "over"]
      BY <1>7, <2>3 DEF Start
    <3>2. QED
      BY <1>1, <1>3, <3>1
  <2>4. QED
    BY <2>2, <2>3
<1>8. ASSUME NEW s \in Starts, StartFails(s)
      PROVE  JobsInv'
  <2>1. UNCHANGED << daemon, jobs >> /\ cycle' = [cycle EXCEPT ![s] = "over"]
    BY <1>8 DEF StartFails
  <2>2. QED
    BY <1>1, <1>3, <2>1
<1>9. ASSUME NEW c \in Cycles, CronTick(c) \/ CycleStep(c)
      PROVE  JobsInv'
  <2>1. UNCHANGED << daemon, jobs >>
    BY <1>9 DEF CronTick, CycleStep, CardRead, SearchesDone, CycleThrows, PushEnded
  <2>2. \/ cycle' = cycle
        \/ \E state \in {"reading", "searching", "pushing", "over"} : cycle' = [cycle EXCEPT ![c] = state]
    BY <1>9 DEF CronTick, CycleStep, CardRead, SearchesDone, SaveThenPush, CycleThrows, PushEnded
  <2>3. QED
    BY <1>1, <1>3, <2>1, <2>2
<1>10. ASSUME NEW u \in Commands, CommandStep(u)
      PROVE  JobsInv'
  <2>1. UNCHANGED << daemon, jobs, cycle >>
    BY <1>10 DEF CommandStep, PushCommand, BeginRespond, ResearchFails, ResearchDone,
                BeginPublish, NextFinding, PublishFails, daemonVars
  <2>2. QED
    BY <1>3, <2>1
<1>11. CASE UNCHANGED << daemon, jobs, cycle >>
  BY <1>3, <1>11
<1>12. QED
  BY <1>4, <1>5, <1>6, <1>7, <1>8, <1>9, <1>10, <1>11
     DEF EngineNext, DaemonStep, engineVars, daemonVars

\* start() and stop(): every job but the one stop() cancels is of a start() that
\* read the card at the same time as another; stop() leaves nothing behind of
\* those that did not, in whatever order they came and whatever failed.
THEOREM StopLeavesNoJob == EngineSpec => []StopCancels
<1>1. EngineInit => JobsInv
  <2>1. ASSUME EngineInit
        PROVE  /\ daemon = NewDaemon /\ jobs = {}
               /\ \A s \in Starts : cycle[s] # "starting"
    BY <2>1 DEF EngineInit, DaemonInit, Cycles
  <2>2. QED
    BY <2>1 DEF NewDaemon, JobsInv, StopCancels
<1>2. JobsInv => StopCancels
  BY DEF JobsInv
<1>3. QED
  BY <1>1, <1>2, TypeInvariant, JobsPreserved, PTL DEF EngineSpec

-----------------------------------------------------------------------------
(* The rotation of the templates *)

\* Once there was a round, the last one left out at most two templates of an
\* interest with a topic of its own.
RotationInv ==
  \A i \in DOMAIN Interests :
    LET topic == Interests[i].topic
    IN  HasOwnTopic(i) /\ recentTemplates[topic] # {} =>
          Cardinality(EligibleTemplates(Interests[i].prefs) \ recentTemplates[topic]) <= 2

LEMMA RoundRotates ==
  ASSUME TypeInv, RotationInv, GenerateQueries
  PROVE  RotationInv' /\ RoundsCover(recentTemplates, recentTemplates')
<1>1. recentTemplates \in [Topics -> SUBSET Templates]
  BY TypeInvParts
<1> SUFFICES ASSUME NEW i \in DOMAIN Interests, HasOwnTopic(i)
             PROVE  LET topic    == Interests[i].topic
                        eligible == EligibleTemplates(Interests[i].prefs)
                    IN  /\ Cardinality(eligible \ recentTemplates'[topic]) <= 2
                        /\ recentTemplates[topic] # {} =>
                             eligible \subseteq recentTemplates[topic] \cup recentTemplates'[topic]
  BY DEF RotationInv, RoundsCover
<1> DEFINE topic    == Interests[i].topic
           eligible == EligibleTemplates(Interests[i].prefs)
           before   == recentTemplates[topic]
<1>2. recentTemplates'[topic] = Selected(Interests[i], before)
  BY <1>1, RoundRecords
<1>3. /\ Cardinality(eligible \ Selected(Interests[i], before)) <= 2
      /\ Cardinality(eligible \ before) <= 2 =>
           eligible \ before \subseteq Selected(Interests[i], before)
  BY RoundSelects
<1>4. before # {} => Cardinality(eligible \ before) <= 2
  BY DEF RotationInv
<1>5. QED
  BY <1>2, <1>3, <1>4

\* Only a cycle that has read its card makes queries.
LEMMA RotationSteps ==
  ASSUME TypeInv, RotationInv, [EngineNext]_engineVars
  PROVE  /\ RotationInv'
         /\ \A c \in Cycles : cycle[c] = "reading" /\ cycle'[c] = "searching" =>
              RoundsCover(recentTemplates, recentTemplates')
<1>1. cycle \in [Cycles -> CycleStates] /\ Starts \subseteq Cycles
  BY TypeInvParts DEF Cycles
<1>2. CASE GenerateQueries
  BY <1>2, RoundRotates
<1>3. ASSUME UNCHANGED recentTemplates \/ recentTemplates' = NoTemplates,
             \A c \in Cycles : cycle'[c] = "searching" => cycle[c] = "searching"
      PROVE  /\ RotationInv'
             /\ \A c \in Cycles : cycle[c] = "reading" /\ cycle'[c] = "searching" =>
                  RoundsCover(recentTemplates, recentTemplates')
  <2>1. CASE UNCHANGED recentTemplates
    BY <1>3, <2>1 DEF RotationInv
  <2>2. CASE recentTemplates' = NoTemplates
    <3>1. \A i \in DOMAIN Interests : recentTemplates'[Interests[i].topic] = {}
      BY <2>2 DEF NoTemplates, Topics
    <3>2. QED
      BY <1>3, <3>1 DEF RotationInv
  <2>3. QED
    BY <1>3, <2>1, <2>2
<1>4. ASSUME NEW s \in Starts, Start(s) \/ Scheduled(s) \/ StartFails(s)
      PROVE  UNCHANGED recentTemplates
             /\ \A c \in Cycles : cycle'[c] = "searching" => cycle[c] = "searching"
  <2>1. \E state \in {"starting", "over", "reading"} : cycle' = [cycle EXCEPT ![s] = state]
    BY <1>4 DEF Start, Scheduled, StartFails
  <2>2. QED
    BY <1>1, <1>4, <2>1 DEF Start, Scheduled, StartFails
<1>5. ASSUME NEW c \in Cycles, CronTick(c) \/ SearchesDone(c) \/ CycleThrows(c) \/ PushEnded(c)
      PROVE  UNCHANGED recentTemplates
             /\ \A d \in Cycles : cycle'[d] = "searching" => cycle[d] = "searching"
  <2>1. \E state \in {"reading", "pushing", "over"} : cycle' = [cycle EXCEPT ![c] = state]
    BY <1>5 DEF CronTick, SearchesDone, SaveThenPush, CycleThrows, PushEnded
  <2>2. QED
    BY <1>1, <1>5, <2>1 DEF CronTick, SearchesDone, CycleThrows, PushEnded
<1>6. ASSUME NEW c \in Cycles, CardRead(c)
      PROVE  GenerateQueries
  BY <1>6 DEF CardRead
<1>7. CASE ProcessEnds
  BY <1>3, <1>7 DEF ProcessEnds
<1>8. ASSUME NEW u \in Commands, CommandStep(u)
      PROVE  UNCHANGED << cycle, recentTemplates >>
  BY <1>8 DEF CommandStep, PushCommand, BeginRespond, ResearchFails, ResearchDone,
              BeginPublish, NextFinding, PublishFails, daemonVars
<1>9. CASE UNCHANGED << cycle, recentTemplates >>
  BY <1>3, <1>9
<1>10. CASE Stop
  BY <1>3, <1>10 DEF Stop
<1>11. QED
  BY <1>2, <1>3, <1>4, <1>5, <1>6, <1>7, <1>8, <1>9, <1>10
     DEF EngineNext, DaemonStep, CycleStep, engineVars, daemonVars

\* generateQueries() over overlapping cycles and ends of the process: two rounds
\* in a row make every query of an interest.
THEOREM TemplatesTakeTurns == EngineSpec => TemplatesRotate
<1>1. EngineInit => RotationInv
  BY DEF EngineInit, DaemonInit, RotationInv, NoTemplates, Topics
<1>2. TypeInv /\ RotationInv /\ [EngineNext]_engineVars => RotationInv'
  BY RotationSteps
<1>3. TypeInv /\ RotationInv /\ [EngineNext]_engineVars =>
        [ \A c \in Cycles : cycle[c] = "reading" /\ cycle'[c] = "searching" =>
            RoundsCover(recentTemplates, recentTemplates') ]_daemonVars
  BY RotationSteps
<1>4. QED
  BY <1>1, <1>2, <1>3, TypeInvariant, PTL DEF EngineSpec, TemplatesRotate

-----------------------------------------------------------------------------
(* What is pushed is saved *)

Saved == { posts[i].story : i \in DOMAIN posts }

\* What publishFindings() will push when it is through is saved already.
SavedInv ==
  /\ \A p \in Pushers : call[p].posts \subseteq Saved
  /\ network \subseteq Saved
  /\ \A u \in Commands : work[u].published \subseteq Saved

\* The table only grows.
LEMMA SavedGrows ==
  ASSUME TypeInv, NEW stories \in Seq(Posts), NEW by \in Pushers, NEW at \in Nat,
         posts' = posts \o Rows(stories, by, at)
  PROVE  Saved \subseteq Saved' /\ Range(stories) \subseteq Saved'
<1>1. /\ DOMAIN posts = 1 .. Len(posts) /\ Len(posts) \in Nat
      /\ DOMAIN stories = 1 .. Len(stories) /\ Len(stories) \in Nat
      /\ DOMAIN posts' = 1 .. Len(posts) + Len(stories)
      /\ \A i \in DOMAIN posts : posts'[i] = posts[i]
      /\ \A i \in DOMAIN stories :
           posts'[Len(posts) + i] = [story |-> stories[i], by |-> by, at |-> at]
  BY EngineParts, RowsAdded
<1>2. \A i \in DOMAIN posts : i \in DOMAIN posts'
  BY <1>1
<1>3. \A i \in DOMAIN stories : Len(posts) + i \in DOMAIN posts'
  BY <1>1
<1>4. Saved \subseteq Saved'
  BY <1>1, <1>2 DEF Saved
<1>5. ASSUME NEW i \in DOMAIN stories PROVE posts'[Len(posts) + i].story = stories[i]
  <2>1. posts'[Len(posts) + i] = [story |-> stories[i], by |-> by, at |-> at]
    BY <1>1
  <2>2. QED
    BY <2>1
<1>6. Range(stories) \subseteq Saved'
  BY <1>3, <1>5 DEF Saved, Range
<1>7. QED
  BY <1>4, <1>6

\* A step that pushes at most what is saved by then.
LEMMA SavedByStep ==
  ASSUME TypeInv, SavedInv, Saved \subseteq Saved',
         \A p \in Pushers : call'[p].posts \subseteq call[p].posts \cup Saved',
         \E p \in Pushers : network' \subseteq network \cup call[p].posts,
         \A u \in Commands : work'[u].published \subseteq work[u].published \cup Saved'
  PROVE  SavedInv'
  BY DEF SavedInv

LEMMA SavedCommands ==
  ASSUME TypeInv, SavedInv, NEW u \in Commands, CommandStep(u)
  PROVE  SavedInv'
<1>0. u \in Pushers /\ PromiseTypeOK /\ work \in [Commands -> Works]
  BY EngineParts, TypeInvParts
<1>1. ASSUME NEW stories, Begin(u, stories), stories \subseteq Saved'
      PROVE  /\ \A p \in Pushers : call'[p].posts \subseteq call[p].posts \cup Saved'
             /\ network' = network
  BY <1>0, <1>1, BeginSteps
<1>2. CASE work[u] = NoWork /\ PushCommand(u) /\ UNCHANGED work
  <2>0. PICK limit \in DOMAIN posts :
          \E rows \in NewestRows(posts, limit) : Begin(u, { r.story : r \in rows })
    BY <1>2 DEF PushCommand
  <2>1. PICK rows \in NewestRows(posts, limit) : Begin(u, { r.story : r \in rows })
    BY <2>0
  <2>2. rows \subseteq { posts[i] : i \in DOMAIN posts }
    BY NewestAreRows
  <2>3. posts' = posts /\ Saved' = Saved
    BY <1>2 DEF PushCommand, Saved
  <2>4. { r.story : r \in rows } \subseteq Saved'
    BY <2>2, <2>3 DEF Saved
  <2>5. /\ \A p \in Pushers : call'[p].posts \subseteq call[p].posts \cup Saved'
        /\ network' = network
    BY <1>1, <2>1, <2>4
  <2>6. QED
    BY <1>0, <1>2, <2>3, <2>5, SavedByStep
<1>3. CASE BeginRespond(u) \/ ResearchFails(u) \/ BeginPublish(u) \/ PublishFails(u)
  <2>1. UNCHANGED daemonVars
    BY <1>3 DEF BeginRespond, ResearchFails, BeginPublish, PublishFails
  <2>2. Saved' = Saved /\ UNCHANGED << call, network >>
    BY <2>1 DEF daemonVars, promiseVars, Saved
  <2>3. \E w : work' = [work EXCEPT ![u] = w] /\ w.published = {}
    <3>1. CASE BeginPublish(u)
      <4>1. PICK findings \in Found \ {<< >>} :
              \E w \in Looked([NoWork EXCEPT !.at = "publishing", !.rest = findings], posts) :
                work' = [work EXCEPT ![u] = w]
        BY <3>1 DEF BeginPublish
      <4>2. \A w \in Looked([NoWork EXCEPT !.at = "publishing", !.rest = findings], posts) :
              w.published = {}
        BY DEF Looked, NoWork
      <4>3. QED
        BY <4>1, <4>2
    <3>2. CASE BeginRespond(u)
      <4>1. PICK i \in DOMAIN posts :
              work' = [work EXCEPT ![u] = [NoWork EXCEPT !.at = "researching", !.cited = {posts[i].story}]]
        BY <3>2 DEF BeginRespond
      <4>2. [NoWork EXCEPT !.at = "researching", !.cited = {posts[i].story}].published = {}
        BY DEF NoWork
      <4>3. QED
        BY <4>1, <4>2
    <3>3. CASE ResearchFails(u) \/ PublishFails(u)
      BY <3>3 DEF ResearchFails, PublishFails, Ended, NoWork
    <3>4. QED
      BY <1>3, <3>1, <3>2, <3>3
  <2>4. \A v \in Commands : work'[v].published \subseteq work[v].published
    BY <1>0, <2>3
  <2>5. QED
    BY <1>0, <2>2, <2>4, SavedByStep
<1>4. CASE ResearchDone(u)
  <2>1. PICK story \in Posts, at \in Nat : CommandSaves(u, story, at) /\ Begin(u, {story})
    BY <1>4, ResearchDoneSaves
  <2> DEFINE list == << story >>
  <2>2. list \in Seq(Posts) /\ Range(list) = {story}
    BY Lists, RangeOfOne
  <2>3. posts' = posts \o Rows(list, u, at)
    BY <2>1 DEF CommandSaves
  <2> HIDE DEF list
  <2>4. Saved \subseteq Saved' /\ {story} \subseteq Saved'
    BY <1>0, <2>2, <2>3, SavedGrows
  <2>5. \A p \in Pushers : call'[p].posts \subseteq call[p].posts \cup Saved'
    BY <1>1, <2>1, <2>4
  <2>6. network' = network
    BY <1>1, <2>1, <2>4
  <2>7. work'[u].published = {} /\ \A v \in Commands : v # u => work'[v] = work[v]
    BY <1>0, <1>4 DEF ResearchDone, Ended, NoWork
  <2>8. QED
    BY <1>0, <2>4, <2>5, <2>6, <2>7, SavedByStep
<1>5. CASE NextFinding(u)
  <2> DEFINE w == work[u]
             story == Head(w.rest)
             published == IF w.clear THEN w.published \cup {story} ELSE w.published
             next(rows) == [w EXCEPT !.rest = Tail(w.rest), !.published = published,
                                     !.clear = ~ IsDuplicate(Head(Tail(w.rest)), rows)]
  <2>1. /\ story \in Posts
        /\ w.clear => \E at \in Nat : CommandSaves(u, story, at)
        /\ ~ w.clear => posts' = posts
        /\ \/ /\ UNCHANGED promiseVars
              /\ \E rows \in NewestRows(posts', RecentToPublisher) :
                   work' = [work EXCEPT ![u] = next(rows)]
           \/ /\ Ended(u)
              /\ (published = {} /\ UNCHANGED promiseVars) \/ Begin(u, published)
    BY <1>5, NextFindingSaves
  <2>2. Saved \subseteq Saved' /\ (w.clear => story \in Saved')
    <3>1. CASE w.clear
      <4>1. PICK at \in Nat : CommandSaves(u, story, at)
        BY <2>1, <3>1
      <4> HIDE DEF w, story
      <4> DEFINE list == << story >>
      <4>2. list \in Seq(Posts) /\ Range(list) = {story}
        BY <2>1, Lists, RangeOfOne
      <4>3. posts' = posts \o Rows(list, u, at)
        BY <4>1 DEF CommandSaves
      <4> HIDE DEF list
      <4>4. Saved \subseteq Saved' /\ Range(list) \subseteq Saved'
        BY <1>0, <4>2, <4>3, SavedGrows
      <4>5. QED
        BY <4>2, <4>4
    <3>2. CASE ~ w.clear
      BY <2>1, <3>2 DEF Saved
    <3>3. QED
      BY <3>1, <3>2
  <2>3. published \subseteq Saved'
    BY <2>2 DEF SavedInv
  <2>4. ASSUME NEW rows PROVE next(rows).published = published
    BY <1>0 DEF Works
  <2>5. CASE UNCHANGED promiseVars
             /\ \E rows \in NewestRows(posts', RecentToPublisher) :
                  work' = [work EXCEPT ![u] = next(rows)]
    <3>1. PICK rows \in NewestRows(posts', RecentToPublisher) : work' = [work EXCEPT ![u] = next(rows)]
      BY <2>5
    <3>2. next(rows).published = published
      BY <2>4
    <3> HIDE DEF next, published, w, story
    <3>3. \A v \in Commands : work'[v].published \subseteq work[v].published \cup Saved'
      BY <1>0, <2>3, <3>1, <3>2
    <3>4. UNCHANGED << call, network >>
      BY <2>5 DEF promiseVars
    <3>5. QED
      BY <1>0, <2>2, <3>3, <3>4, SavedByStep
  <2>6. ASSUME Ended(u)
        PROVE  \A v \in Commands : work'[v].published \subseteq work[v].published
    BY <1>0, <2>6 DEF Ended, NoWork
  <2>7. CASE Ended(u) /\ UNCHANGED promiseVars
    <3>1. UNCHANGED << call, network >>
      BY <2>7 DEF promiseVars
    <3>2. QED
      BY <1>0, <2>2, <2>6, <2>7, <3>1, SavedByStep
  <2>8. CASE Ended(u) /\ Begin(u, published)
    <3> HIDE DEF published
    <3>1. /\ \A p \in Pushers : call'[p].posts \subseteq call[p].posts \cup Saved'
          /\ network' = network
      BY <1>1, <2>3, <2>8
    <3>2. QED
      BY <1>0, <2>2, <2>6, <2>8, <3>1, SavedByStep
  <2>9. QED
    BY <2>1, <2>5, <2>7, <2>8
<1>6. QED
  BY <1>2, <1>3, <1>4, <1>5 DEF CommandStep

LEMMA SavedPreserved == TypeInv /\ SavedInv /\ [EngineNext]_engineVars => SavedInv'
<1> SUFFICES ASSUME TypeInv, SavedInv, [EngineNext]_engineVars PROVE SavedInv'
  OBVIOUS
<1>0. PromiseTypeOK
  BY TypeInvParts
<1>1. ASSUME UNCHANGED << posts, call, network, work >>
      PROVE  SavedInv'
  BY <1>1 DEF SavedInv, Saved
<1>2. ASSUME NEW s \in Starts, Start(s) \/ Scheduled(s) \/ StartFails(s), UNCHANGED work
      PROVE  SavedInv'
  BY <1>1, <1>2 DEF Start, Scheduled, StartFails, promiseVars
<1>3. ASSUME NEW c \in Cycles, UNCHANGED work,
             CronTick(c) \/ CardRead(c) \/ CycleThrows(c) \/ PushEnded(c)
      PROVE  SavedInv'
  BY <1>1, <1>3 DEF CronTick, CardRead, CycleThrows, PushEnded, promiseVars
<1>4. ASSUME NEW c \in Cycles, SearchesDone(c), UNCHANGED work
      PROVE  SavedInv'
  <2>1. c \in Pushers
    BY EngineParts
  <2>2. PICK rows \in NewestRows(posts, Recent), news \in Seq(Posts), at \in Nat :
          CycleSaves(c, news, rows, at)
    BY <1>4, SearchesDoneSaves
  <2>3. Saved \subseteq Saved' /\ Range(news) \subseteq Saved'
    BY <2>1, <2>2, SavedGrows DEF CycleSaves
  <2>4. CASE Begin(c, Range(news))
    <3>1. network' = network /\ \A p \in Pushers : call'[p].posts \subseteq call[p].posts \cup Saved'
      BY <1>0, <2>1, <2>3, <2>4, BeginSteps
    <3>2. QED
      BY <1>4, <2>1, <2>3, <3>1, SavedByStep
  <2>5. CASE UNCHANGED promiseVars
    BY <1>4, <2>1, <2>3, <2>5, SavedByStep DEF promiseVars
  <2>6. QED
    BY <2>2, <2>4, <2>5 DEF CycleSaves
<1>5. ASSUME NEW p \in Pushers, Return(p) \/ Throw(p) \/ Arrive(p), UNCHANGED << posts, work >>
      PROVE  SavedInv'
  <2>1. network' \subseteq network \cup call[p].posts
        /\ \A q \in Pushers : call'[q].posts = call[q].posts
    BY <1>0, <1>5, PushSteps
  <2>2. Saved' = Saved
    BY <1>5 DEF Saved
  <2>3. QED
    BY <1>5, <2>1, <2>2, SavedByStep
<1>6. CASE ProcessEnds /\ UNCHANGED work
  <2>1. UNCHANGED << posts, network >> /\ \A p \in Pushers : call'[p].posts = call[p].posts
    BY <1>0, <1>6 DEF ProcessEnds, PromiseTypeOK
  <2>2. QED
    BY <1>6, <2>1 DEF SavedInv, Saved
<1>7. CASE Stop /\ UNCHANGED work
  BY <1>1, <1>7 DEF Stop, promiseVars
<1>8. CASE UNCHANGED engineVars
  BY <1>1, <1>8 DEF engineVars, daemonVars, promiseVars
<1>9. QED
  <2>1. Cycles \subseteq Pushers /\ Commands \subseteq Pushers
    BY EngineParts
  <2>2. QED
    BY <1>2, <1>3, <1>4, <1>5, <1>6, <1>7, <1>8, <2>1, SavedCommands
       DEF EngineNext, DaemonStep, CycleStep

\* Whatever fails or ends in a cycle, a respond or a publishFindings(), the
\* network gets nothing of the agent that is not in its own table.
THEOREM PushedAreSaved == EngineSpec => []OnlySavedIsPushed
<1>1. EngineInit => SavedInv
  BY DEF EngineInit, DaemonInit, PromiseInit, SavedInv, NoWork
<1>2. SavedInv => OnlySavedIsPushed
  BY DEF SavedInv, Saved, OnlySavedIsPushed
<1>3. QED
  BY <1>1, <1>2, TypeInvariant, SavedPreserved, PTL DEF EngineSpec

-----------------------------------------------------------------------------
(* What is posted is new *)

\* A cycle or a command that has posted does not look for stories any more.
AuthorsInv ==
  \A i \in DOMAIN posts :
    /\ posts[i].by \in Cycles => cycle[posts[i].by] \in {"pushing", "over"}
    /\ posts[i].by \in Commands => work[posts[i].by].at \in {"publishing", "over"}

\* A finding that was found to be no duplicate still is none of what the same
\* call has posted, whatever the others have posted since.
ClearInv ==
  \A u \in Commands : work[u].at = "publishing" /\ work[u].clear =>
    \A i \in DOMAIN posts :
      /\ posts[i].by = u
      /\ Cardinality({ k \in DOMAIN posts : k # i /\ posts[k].at >= posts[i].at })
           < RecentToPublisher
      => ~ SimilarSummary(Head(work[u].rest), posts[i].story)

PostsInv == AuthorsInv /\ ClearInv /\ PostsAreDistinct /\ PublishedAreDistinct

\* A command looked at the newest rows there are now, for its next finding.
LooksThen(u) ==
  \E rows \in NewestRows(posts', RecentToPublisher) :
    work'[u].clear => ~ IsDuplicate(Head(work'[u].rest), rows)

HasPosted(u) == work'[u].at = "over" \/ (work'[u].at = "publishing" /\ LooksThen(u))

\* The steps that save rows: of a cycle, and of a command.
CyclePosts ==
  \E c \in Cycles : \E rows \in NewestRows(posts, Recent), news \in Seq(Posts), at \in Nat :
    /\ cycle[c] = "searching" /\ cycle'[c] \in {"pushing", "over"}
    /\ AllNew(news, rows)
    /\ posts' = posts \o Rows(news, c, at)

CommandPosts ==
  \E u \in Commands : \E story \in Posts, at \in Nat :
    /\ CommandSaves(u, story, at)
    /\ HasPosted(u)
    /\ \/ work[u].at = "researching"
       \/ work[u].at = "publishing" /\ work[u].clear /\ story = Head(work[u].rest)

\* What a step does to the table, and to the look that a command took at it.
PostingStep ==
  /\ posts' = posts \/ CyclePosts \/ CommandPosts
  /\ \A c \in Cycles : cycle[c] \in {"pushing", "over"} => cycle'[c] \in {"pushing", "over"}
  /\ \A u \in Commands :
       /\ work[u].at \in {"publishing", "over"} => work'[u].at \in {"publishing", "over"}
       /\ work'[u] = work[u] \/ work'[u].at # "publishing" \/ LooksThen(u)

LEMMA DaemonPosts ==
  ASSUME TypeInv, DaemonStep, UNCHANGED work
  PROVE  PostingStep
<1>1. cycle \in [Cycles -> CycleStates] /\ Starts \subseteq Cycles
  BY TypeInvParts, EngineParts
<1>2. SUFFICES
        /\ posts' = posts \/ CyclePosts
        /\ \A c \in Cycles : cycle[c] \in {"pushing", "over"} => cycle'[c] \in {"pushing", "over"}
  BY DEF PostingStep
<1>3. ASSUME NEW s \in Starts, Start(s) \/ Scheduled(s) \/ StartFails(s)
      PROVE  posts' = posts /\ \A c \in Cycles : cycle[c] \in {"pushing", "over"} => cycle'[c] = cycle[c]
  <2>1. PICK state \in CycleStates : cycle' = [cycle EXCEPT ![s] = state]
    BY <1>3 DEF Start, Scheduled, StartFails, CycleStates
  <2>2. cycle[s] \in {"idle", "starting"} /\ posts' = posts
    BY <1>3 DEF Start, Scheduled, StartFails
  <2>3. QED
    BY <1>1, <2>1, <2>2
<1>4. ASSUME NEW d \in Cycles, CronTick(d) \/ CardRead(d) \/ CycleThrows(d) \/ PushEnded(d)
      PROVE  posts' = posts /\ \A c \in Cycles : cycle[c] \in {"pushing", "over"} => cycle'[c] \in {"pushing", "over"}
  <2>1. PICK state \in CycleStates :
          cycle' = [cycle EXCEPT ![d] = state]
          /\ (cycle[d] \in {"pushing", "over"} => state \in {"pushing", "over"})
    BY <1>4 DEF CronTick, CardRead, CycleThrows, PushEnded, CycleStates
  <2>2. posts' = posts
    BY <1>4 DEF CronTick, CardRead, CycleThrows, PushEnded
  <2>3. QED
    BY <1>1, <2>1, <2>2
<1>5. ASSUME NEW d \in Cycles, SearchesDone(d)
      PROVE  CyclePosts /\ \A c \in Cycles : cycle[c] \in {"pushing", "over"} => cycle'[c] \in {"pushing", "over"}
  <2>1. PICK rows \in NewestRows(posts, Recent), news \in Seq(Posts), at \in Nat :
          CycleSaves(d, news, rows, at)
    BY <1>5, SearchesDoneSaves
  <2>2. PICK state \in {"pushing", "over"} : cycle' = [cycle EXCEPT ![d] = state]
    BY <2>1 DEF CycleSaves
  <2>3. cycle'[d] \in {"pushing", "over"} /\ \A c \in Cycles : c # d => cycle'[c] = cycle[c]
    BY <1>1, <2>2
  <2>4. cycle[d] = "searching"
    BY <1>5 DEF SearchesDone
  <2>5. AllNew(news, rows) /\ posts' = posts \o Rows(news, d, at)
    BY <2>1 DEF CycleSaves
  <2>6. CyclePosts
    BY <2>3, <2>4, <2>5 DEF CyclePosts
  <2>7. QED
    BY <2>3, <2>6
<1>6. CASE ProcessEnds
  BY <1>1, <1>6 DEF ProcessEnds
<1>7. CASE Stop
  BY <1>7 DEF Stop
<1>8. CASE UNCHANGED << posts, cycle >>
  BY <1>8
<1>9. QED
  BY <1>3, <1>4, <1>5, <1>6, <1>7, <1>8 DEF DaemonStep, CycleStep

LEMMA CommandsPost ==
  ASSUME TypeInv, NEW u \in Commands, CommandStep(u)
  PROVE  PostingStep
<1>1. work \in [Commands -> Works]
  BY TypeInvParts
<1>2. cycle' = cycle
  BY DEF CommandStep, PushCommand, BeginRespond, ResearchFails, ResearchDone,
         BeginPublish, NextFinding, PublishFails, daemonVars
<1>3. ASSUME NEW w, work' = [work EXCEPT ![u] = w]
      PROVE  work'[u] = w /\ \A v \in Commands : v # u => work'[v] = work[v]
  BY <1>1, <1>3
<1>4. ASSUME posts' = posts \/ CommandPosts,
             work[u].at \in {"publishing", "over"} => work'[u].at \in {"publishing", "over"},
             work'[u] = work[u] \/ work'[u].at # "publishing" \/ LooksThen(u),
             \A v \in Commands : v # u => work'[v] = work[v]
      PROVE  PostingStep
  BY <1>2, <1>4 DEF PostingStep
<1>5. Ended(u) => work'[u].at = "over" /\ \A v \in Commands : v # u => work'[v] = work[v]
  BY <1>3 DEF Ended, NoWork
<1>6. CASE UNCHANGED << posts, work >>
  BY <1>4, <1>6
<1>7. CASE posts' = posts /\ Ended(u)
  BY <1>4, <1>5, <1>7
<1>8. CASE BeginRespond(u)
  <2>1. PICK i \in DOMAIN posts :
          work' = [work EXCEPT ![u] = [NoWork EXCEPT !.at = "researching", !.cited = {posts[i].story}]]
    BY <1>8 DEF BeginRespond
  <2> DEFINE w == [NoWork EXCEPT !.at = "researching", !.cited = {posts[i].story}]
  <2>2. w.at = "researching"
    BY DEF NoWork
  <2> HIDE DEF w
  <2>3. work'[u].at = "researching" /\ \A v \in Commands : v # u => work'[v] = work[v]
    BY <1>3, <2>1, <2>2 DEF w
  <2>4. posts' = posts /\ work[u].at = "idle"
    BY <1>8 DEF BeginRespond, NoWork, daemonVars
  <2>5. QED
    BY <1>4, <2>3, <2>4
<1>9. CASE BeginPublish(u)
  <2>1. PICK findings \in Found \ {<< >>} :
          \E n \in Looked([NoWork EXCEPT !.at = "publishing", !.rest = findings], posts) :
            work' = [work EXCEPT ![u] = n]
    BY <1>9 DEF BeginPublish
  <2> DEFINE w == [NoWork EXCEPT !.at = "publishing", !.rest = findings]
  <2>2. PICK n \in Looked(w, posts) : work' = [work EXCEPT ![u] = n]
    BY <2>1
  <2>3. PICK rows \in NewestRows(posts, RecentToPublisher) :
          n = [w EXCEPT !.clear = ~ IsDuplicate(Head(w.rest), rows)]
    BY <2>2 DEF Looked
  <2>4. n.at = "publishing" /\ n.rest = w.rest /\ n.clear = ~ IsDuplicate(Head(w.rest), rows)
    BY <2>3 DEF NoWork
  <2>5. work'[u] = n /\ \A v \in Commands : v # u => work'[v] = work[v]
    BY <1>3, <2>2
  <2>6. posts' = posts /\ work[u].at = "idle"
    BY <1>9 DEF BeginPublish, NoWork, daemonVars
  <2> HIDE DEF w
  <2>7. LooksThen(u)
    BY <2>4, <2>5, <2>6 DEF LooksThen
  <2>8. QED
    BY <1>4, <2>4, <2>5, <2>6, <2>7
<1>10. CASE ResearchDone(u)
  <2>1. PICK story \in Posts, at \in Nat : CommandSaves(u, story, at)
    BY <1>10, ResearchDoneSaves
  <2>2. work[u].at = "researching" /\ Ended(u)
    BY <1>10 DEF ResearchDone
  <2>3. CommandPosts
    BY <1>5, <2>1, <2>2 DEF CommandPosts, HasPosted
  <2>4. QED
    BY <1>4, <1>5, <2>2, <2>3
<1>11. CASE NextFinding(u)
  <2> DEFINE w == work[u]
             story == Head(w.rest)
             published == IF w.clear THEN w.published \cup {story} ELSE w.published
             next(rows) == [w EXCEPT !.rest = Tail(w.rest), !.published = published,
                                     !.clear = ~ IsDuplicate(Head(Tail(w.rest)), rows)]
  <2>1. /\ w.at = "publishing" /\ story \in Posts
        /\ w.clear => \E at \in Nat : CommandSaves(u, story, at)
        /\ ~ w.clear => posts' = posts
        /\ \/ \E rows \in NewestRows(posts', RecentToPublisher) :
                work' = [work EXCEPT ![u] = next(rows)]
           \/ Ended(u)
    BY <1>11, NextFindingSaves
  <2>2. ASSUME NEW rows
        PROVE  /\ next(rows).at = w.at /\ next(rows).rest = Tail(w.rest)
               /\ next(rows).clear = ~ IsDuplicate(Head(Tail(w.rest)), rows)
    BY <1>1 DEF Works
  <2> HIDE DEF next, published, story
  <2>3. HasPosted(u) /\ \A v \in Commands : v # u => work'[v] = work[v]
    <3>1. CASE Ended(u)
      BY <1>5, <3>1 DEF HasPosted
    <3>2. ASSUME NEW rows \in NewestRows(posts', RecentToPublisher),
                 work' = [work EXCEPT ![u] = next(rows)]
          PROVE  /\ work'[u].at = "publishing"
                 /\ \A v \in Commands : v # u => work'[v] = work[v]
                 /\ work'[u].clear => ~ IsDuplicate(Head(work'[u].rest), rows)
      <4>1. work'[u] = next(rows) /\ \A v \in Commands : v # u => work'[v] = work[v]
        BY <1>3, <3>2
      <4>2. QED
        BY <2>1, <2>2, <4>1
    <3>3. QED
      BY <2>1, <3>1, <3>2 DEF HasPosted, LooksThen
  <2>4. posts' = posts \/ CommandPosts
    BY <2>1, <2>3 DEF CommandPosts, story
  <2>5. QED
    BY <1>4, <2>3, <2>4 DEF HasPosted
<1>12. QED
  BY <1>6, <1>7, <1>8, <1>9, <1>10, <1>11
     DEF CommandStep, PushCommand, ResearchFails, PublishFails, daemonVars

\* Two rows of the table, as PostsAreDistinct and PublishedAreDistinct have them.
CyclesDiffer(i, j) ==
  { posts[i].by, posts[j].by } \subseteq Cycles =>
    IF posts[i].by = posts[j].by
      THEN ~ Similar(Text(posts[j].story), Text(posts[i].story))
      ELSE WasRecent(i, j) => ~ Similar(Text(posts[j].story), SavedText(posts[i].story))

CommandsDiffer(i, j) ==
  /\ posts[i].by = posts[j].by /\ posts[j].by \in Commands
  /\ Cardinality({ k \in 1 .. j - 1 : k # i /\ posts[k].at >= posts[i].at }) < RecentToPublisher
  => ~ SimilarSummary(posts[j].story, posts[i].story)

\* What was so of earlier rows stays so when rows are added.
LEMMA EarlierDiffer ==
  ASSUME TypeInv, PostsInv, DOMAIN posts \subseteq DOMAIN posts',
         \A i \in DOMAIN posts : posts'[i] = posts[i]
  PROVE  \A j \in DOMAIN posts : \A i \in 1 .. j - 1 : (CyclesDiffer(i, j) /\ CommandsDiffer(i, j))'
<1> SUFFICES ASSUME NEW j \in DOMAIN posts, NEW i \in 1 .. j - 1
             PROVE  (CyclesDiffer(i, j) /\ CommandsDiffer(i, j))'
  OBVIOUS
<1>1. \A k \in 1 .. j : k \in DOMAIN posts /\ posts'[k] = posts[k]
  BY EngineParts
<1>2. i \in 1 .. j /\ j \in 1 .. j /\ \A k \in 1 .. j - 1 : k \in 1 .. j
  BY EngineParts
<1>3. CyclesDiffer(i, j) /\ CommandsDiffer(i, j)
  BY DEF PostsInv, PostsAreDistinct, PublishedAreDistinct, CyclesDiffer, CommandsDiffer
<1>4. { k \in 1 .. j : k # i /\ posts'[k].by # posts'[j].by /\ posts'[k].at >= posts'[i].at }
        = { k \in 1 .. j : k # i /\ posts[k].by # posts[j].by /\ posts[k].at >= posts[i].at }
  BY <1>1, <1>2
<1>5. { k \in 1 .. j - 1 : k # i /\ posts'[k].at >= posts'[i].at }
        = { k \in 1 .. j - 1 : k # i /\ posts[k].at >= posts[i].at }
  BY <1>1, <1>2
<1>6. posts'[i] = posts[i] /\ posts'[j] = posts[j]
  BY <1>1, <1>2
<1>7. WasRecent(i, j)' <=> WasRecent(i, j)
  BY <1>4 DEF WasRecent
<1>8. CyclesDiffer(i, j)'
  BY <1>3, <1>6, <1>7 DEF CyclesDiffer
<1>9. CommandsDiffer(i, j)'
  BY <1>3, <1>5, <1>6 DEF CommandsDiffer
<1>10. QED
  BY <1>8, <1>9

\* A cycle's new row differs from the recent ones it read, and from its own.
LEMMA CyclePostsDiffer ==
  ASSUME TypeInv, PostsInv, CyclePosts
  PROVE  /\ \A j \in DOMAIN posts' : \A i \in 1 .. j - 1 : (CyclesDiffer(i, j) /\ CommandsDiffer(i, j))'
         /\ DOMAIN posts \subseteq DOMAIN posts' /\ \A i \in DOMAIN posts : posts'[i] = posts[i]
         /\ \A j \in DOMAIN posts' : j \notin DOMAIN posts =>
              /\ posts'[j].by \in Cycles
              /\ cycle'[posts'[j].by] \in {"pushing", "over"}
<1>1. PICK c \in Cycles, rows \in NewestRows(posts, Recent), news \in Seq(Posts), at \in Nat :
        /\ cycle[c] = "searching" /\ cycle'[c] \in {"pushing", "over"}
        /\ AllNew(news, rows)
        /\ posts' = posts \o Rows(news, c, at)
  BY DEF CyclePosts
<1>0. PICK n \in Nat : n = Len(posts) /\ DOMAIN posts = 1 .. n
  BY EngineParts
<1>2. /\ Len(news) \in Nat /\ DOMAIN news = 1 .. Len(news)
      /\ DOMAIN posts' = 1 .. n + Len(news)
      /\ \A i \in DOMAIN posts : posts'[i] = posts[i]
      /\ \A q \in DOMAIN news : posts'[n + q] = [story |-> news[q], by |-> c, at |-> at]
      /\ \A j \in DOMAIN posts' : j \notin DOMAIN posts => \E q \in DOMAIN news : j = n + q
      /\ \A i \in DOMAIN posts : posts[i].at \in Nat
  <2>1. posts \in Seq(Row) /\ c \in Pushers /\ \A i \in DOMAIN posts : posts[i].at \in Nat
    BY EngineParts
  <2>2. posts' = posts \o Rows(news, c, at)
    BY <1>1
  <2>3. /\ DOMAIN posts' = 1 .. Len(posts) + Len(news)
        /\ \A i \in DOMAIN posts : posts'[i] = posts[i]
        /\ \A q \in DOMAIN news : posts'[Len(posts) + q] = [story |-> news[q], by |-> c, at |-> at]
        /\ \A j \in DOMAIN posts' : j \notin DOMAIN posts => \E q \in DOMAIN news : j = Len(posts) + q
    BY <2>1, <2>2, RowsAdded
  <2>4. Len(news) \in Nat /\ DOMAIN news = 1 .. Len(news)
    OBVIOUS
  <2>5. QED
    BY <1>0, <2>1, <2>3, <2>4
<1>3. ASSUME NEW q \in DOMAIN news
      PROVE  posts'[n + q].story = news[q] /\ posts'[n + q].by = c /\ posts'[n + q].at = at
  <2>1. posts'[n + q] = [story |-> news[q], by |-> c, at |-> at]
    BY <1>2
  <2>2. QED
    BY <2>1
<1>4. DOMAIN posts \subseteq DOMAIN posts'
  BY <1>0, <1>2
<1>5. c \notin Commands
  BY EngineParts
<1>6. \A i \in DOMAIN posts : posts[i].by # c
  BY <1>1 DEF PostsInv, AuthorsInv
<1>7. \A j \in DOMAIN posts : \A i \in 1 .. j - 1 : (CyclesDiffer(i, j) /\ CommandsDiffer(i, j))'
  BY <1>2, <1>4, EarlierDiffer
<1>8. ASSUME NEW q \in DOMAIN news, NEW i \in 1 .. n + q - 1
      PROVE  (CyclesDiffer(i, n + q) /\ CommandsDiffer(i, n + q))'
  <2>1. CommandsDiffer(i, n + q)'
    BY <1>3, <1>5 DEF CommandsDiffer
  <2>2. CASE i \notin DOMAIN posts
    <3>1. i - n \in DOMAIN news /\ i - n \in 1 .. q - 1 /\ i = n + (i - n)
      BY <1>0, <1>2, <2>2
    <3>2. ~ Similar(Text(news[q]), Text(news[i - n]))
      BY <1>1, <3>1 DEF AllNew
    <3>3. posts'[i].story = news[i - n] /\ posts'[i].by = c
      BY <1>3, <3>1
    <3>4. CyclesDiffer(i, n + q)'
      BY <1>3, <3>2, <3>3 DEF CyclesDiffer
    <3>5. QED
      BY <2>1, <3>4
  <2>3. CASE i \in DOMAIN posts
    <3> DEFINE newer == { k \in 1 .. n : k # i /\ posts[k].at >= posts[i].at }
               newerThen == { k \in 1 .. n + q : k # i /\ posts'[k].by # c
                                                 /\ posts'[k].at >= posts'[i].at }
    <3>1. newer \subseteq newerThen
      <4>1. \A k \in 1 .. n : k \in 1 .. n + q /\ posts'[k] = posts[k] /\ posts[k].by # c
        BY <1>0, <1>2, <1>6
      <4>2. QED
        BY <1>0, <1>2, <2>3, <4>1
    <3>2. IsFiniteSet(newerThen) /\ newerThen \in SUBSET (1 .. n + q)
      <4>1. IsFiniteSet(1 .. n + q)
        BY <1>0, <1>2, FS_Interval
      <4>2. newerThen \in SUBSET (1 .. n + q)
        OBVIOUS
      <4>3. QED
        BY <4>1, <4>2, FS_Subset
    <3>3. WasRecent(i, n + q)' <=> Cardinality(newerThen) < Recent
      BY <1>3 DEF WasRecent
    <3>4. Cardinality(newer) \in Nat /\ Cardinality(newerThen) \in Nat
          /\ Cardinality(newer) <= Cardinality(newerThen)
      <4> HIDE DEF newer, newerThen
      <4> QED
        BY <3>1, <3>2, FS_Subset, FS_CardinalityType
    <3>5. ASSUME WasRecent(i, n + q)'
          PROVE  posts[i] \in rows
      <4> HIDE DEF newer, newerThen
      <4>1. Cardinality(newer) < Recent
        BY <3>3, <3>4, <3>5, DaemonAssumption
      <4>2. Cardinality({ k \in 1 .. n : k # i /\ posts[k].at >= posts[i].at }) < Recent
        BY <4>1 DEF newer
      <4>3. Recent \in Nat
        BY DaemonAssumption
      <4>4. i \in 1 .. n
        BY <1>0, <2>3
      <4>5. QED
        BY <1>0, <4>2, <4>3, <4>4, NewestHold
    <3>6. posts'[i] = posts[i] /\ posts[i].by # c
      BY <1>2, <1>6, <2>3
    <3>7. posts[i] \in rows => ~ Similar(Text(news[q]), SavedText(posts[i].story))
      BY <1>1 DEF AllNew, InRows
    <3> HIDE DEF newer, newerThen
    <3>8. CyclesDiffer(i, n + q)'
      BY <1>3, <3>5, <3>6, <3>7 DEF CyclesDiffer
    <3>9. QED
      BY <2>1, <3>8
  <2>4. QED
    BY <2>2, <2>3
<1>9. \A j \in DOMAIN posts' : j \notin DOMAIN posts =>
        \A i \in 1 .. j - 1 : (CyclesDiffer(i, j) /\ CommandsDiffer(i, j))'
  BY <1>2, <1>8
<1>10. \A j \in DOMAIN posts' : j \notin DOMAIN posts =>
         posts'[j].by \in Cycles /\ cycle'[posts'[j].by] \in {"pushing", "over"}
  BY <1>1, <1>2, <1>3
<1>11. QED
  BY <1>2, <1>4, <1>7, <1>9, <1>10

\* A command's new row differs from its own of late.
LEMMA CommandPostsDiffer ==
  ASSUME TypeInv, PostsInv, CommandPosts
  PROVE  /\ \A j \in DOMAIN posts' : \A i \in 1 .. j - 1 : (CyclesDiffer(i, j) /\ CommandsDiffer(i, j))'
         /\ DOMAIN posts \subseteq DOMAIN posts' /\ \A i \in DOMAIN posts : posts'[i] = posts[i]
         /\ \A j \in DOMAIN posts' : j \notin DOMAIN posts =>
              /\ posts'[j].by \in Commands
              /\ HasPosted(posts'[j].by)
<1>1. PICK u \in Commands, story \in Posts, at \in Nat :
        /\ CommandSaves(u, story, at)
        /\ HasPosted(u)
        /\ \/ work[u].at = "researching"
           \/ work[u].at = "publishing" /\ work[u].clear /\ story = Head(work[u].rest)
  BY DEF CommandPosts
<1> DEFINE list == << story >>
<1>2. list \in Seq(Posts) /\ Len(list) = 1 /\ DOMAIN list = {1} /\ list[1] = story
  BY Lists
<1>3. posts' = posts \o Rows(list, u, at)
  BY <1>1 DEF CommandSaves
<1> HIDE DEF list
<1>4. PICK n \in Nat : n = Len(posts) /\ DOMAIN posts = 1 .. n
  BY EngineParts
<1>5. /\ DOMAIN posts' = 1 .. n + 1
      /\ \A i \in DOMAIN posts : posts'[i] = posts[i]
      /\ posts'[n + 1] = [story |-> story, by |-> u, at |-> at]
  <2>1. posts \in Seq(Row) /\ u \in Pushers
    BY EngineParts
  <2>2. /\ DOMAIN posts' = 1 .. Len(posts) + Len(list)
        /\ \A i \in DOMAIN posts : posts'[i] = posts[i]
        /\ \A i \in DOMAIN list :
             posts'[Len(posts) + i] = [story |-> list[i], by |-> u, at |-> at]
    BY <1>2, <1>3, <2>1, RowsAdded
  <2>3. posts'[n + 1] = [story |-> story, by |-> u, at |-> at]
    BY <1>2, <1>4, <2>2
  <2>4. QED
    BY <1>2, <1>4, <2>2, <2>3
<1>6. posts'[n + 1].story = story /\ posts'[n + 1].by = u
  BY <1>5
<1>7. DOMAIN posts \subseteq DOMAIN posts' /\ \A j \in DOMAIN posts' : j \notin DOMAIN posts => j = n + 1
  BY <1>4, <1>5
<1>8. \A j \in DOMAIN posts : \A i \in 1 .. j - 1 : (CyclesDiffer(i, j) /\ CommandsDiffer(i, j))'
  BY <1>5, <1>7, EarlierDiffer
<1>9. ASSUME NEW i \in 1 .. (n + 1) - 1
      PROVE  (CyclesDiffer(i, n + 1) /\ CommandsDiffer(i, n + 1))'
  <2>1. u \notin Cycles
    BY EngineParts
  <2>2. CyclesDiffer(i, n + 1)'
    BY <1>6, <2>1 DEF CyclesDiffer
  <2>3. i \in DOMAIN posts /\ posts'[i] = posts[i] /\ 1 .. (n + 1) - 1 = 1 .. n
    BY <1>4, <1>5
  <2>4. { k \in 1 .. (n + 1) - 1 : k # i /\ posts'[k].at >= posts'[i].at }
          = { k \in DOMAIN posts : k # i /\ posts[k].at >= posts[i].at }
    BY <1>4, <1>5, <2>3
  <2>5. ASSUME posts[i].by = u,
               Cardinality({ k \in DOMAIN posts : k # i /\ posts[k].at >= posts[i].at }) < RecentToPublisher
        PROVE  ~ SimilarSummary(story, posts[i].story)
    <3>1. work[u].at \in {"publishing", "over"}
      BY <2>3, <2>5 DEF PostsInv, AuthorsInv
    <3>2. work[u].at = "publishing" /\ work[u].clear /\ story = Head(work[u].rest)
      BY <1>1, <3>1
    <3>3. QED
      BY <2>3, <2>5, <3>2 DEF PostsInv, ClearInv
  <2>6. CommandsDiffer(i, n + 1)'
    BY <1>6, <2>3, <2>4, <2>5 DEF CommandsDiffer
  <2>7. QED
    BY <2>2, <2>6
<1>10. \A j \in DOMAIN posts' : j \notin DOMAIN posts =>
         \A i \in 1 .. j - 1 : (CyclesDiffer(i, j) /\ CommandsDiffer(i, j))'
  BY <1>7, <1>9
<1>11. \A j \in DOMAIN posts' : j \notin DOMAIN posts =>
         posts'[j].by \in Commands /\ HasPosted(posts'[j].by)
  BY <1>1, <1>6, <1>7
<1>12. QED
  BY <1>5, <1>7, <1>8, <1>10, <1>11

LEMMA PostsDifferThen ==
  ASSUME TypeInv, PostsInv, PostingStep
  PROVE  /\ \A j \in DOMAIN posts' : \A i \in 1 .. j - 1 : (CyclesDiffer(i, j) /\ CommandsDiffer(i, j))'
         /\ DOMAIN posts \subseteq DOMAIN posts' /\ \A i \in DOMAIN posts : posts'[i] = posts[i]
         /\ \A j \in DOMAIN posts' : j \notin DOMAIN posts =>
              \/ posts'[j].by \in Cycles /\ cycle'[posts'[j].by] \in {"pushing", "over"}
              \/ posts'[j].by \in Commands /\ HasPosted(posts'[j].by)
<1>1. CASE posts' = posts
  BY <1>1, EarlierDiffer
<1>2. CASE CyclePosts
  BY <1>2, CyclePostsDiffer
<1>3. CASE CommandPosts
  BY <1>3, CommandPostsDiffer
<1>4. QED
  BY <1>1, <1>2, <1>3 DEF PostingStep

LEMMA AuthorsThen ==
  ASSUME TypeInv, PostsInv, PostingStep
  PROVE  AuthorsInv'
<1> SUFFICES ASSUME NEW i \in DOMAIN posts'
             PROVE  /\ posts'[i].by \in Cycles => cycle'[posts'[i].by] \in {"pushing", "over"}
                    /\ posts'[i].by \in Commands => work'[posts'[i].by].at \in {"publishing", "over"}
  BY DEF AuthorsInv
<1>1. CASE i \in DOMAIN posts
  <2>1. posts'[i] = posts[i]
    BY <1>1, PostsDifferThen
  <2>2. /\ posts[i].by \in Cycles => cycle[posts[i].by] \in {"pushing", "over"}
        /\ posts[i].by \in Commands => work[posts[i].by].at \in {"publishing", "over"}
    BY <1>1 DEF PostsInv, AuthorsInv
  <2>3. QED
    BY <2>1, <2>2 DEF PostingStep
<1>2. CASE i \notin DOMAIN posts
  <2>1. \/ posts'[i].by \in Cycles /\ cycle'[posts'[i].by] \in {"pushing", "over"}
        \/ posts'[i].by \in Commands /\ HasPosted(posts'[i].by)
    BY <1>2, PostsDifferThen
  <2>2. Cycles \cap Commands = {}
    BY EngineParts
  <2>3. QED
    BY <2>1, <2>2 DEF HasPosted
<1>3. QED
  BY <1>1, <1>2

LEMMA ClearThen ==
  ASSUME TypeInv, PostsInv, PostingStep, TypeInv',
         NEW u \in Commands, work'[u].at = "publishing", work'[u].clear,
         NEW i \in DOMAIN posts', posts'[i].by = u,
         Cardinality({ k \in DOMAIN posts' : k # i /\ posts'[k].at >= posts'[i].at })
           < RecentToPublisher
  PROVE  ~ SimilarSummary(Head(work'[u].rest), posts'[i].story)
<1> DEFINE newerThen == { k \in DOMAIN posts' : k # i /\ posts'[k].at >= posts'[i].at }
           newer     == { k \in DOMAIN posts : k # i /\ posts[k].at >= posts[i].at }
<1>1. posts' \in Seq(Row) /\ RecentToPublisher \in Nat
  BY TypeInvPartsThen, EngineAssumption
<1>2. PICK m \in Nat : m = Len(posts') /\ DOMAIN posts' = 1 .. m
  BY <1>1
<1>3. CASE LooksThen(u)
  <2>1. PICK rows \in NewestRows(posts', RecentToPublisher) : ~ IsDuplicate(Head(work'[u].rest), rows)
    BY <1>3 DEF LooksThen
  <2>2. i \in 1 .. m
    BY <1>2
  <2>3. Cardinality({ k \in 1 .. m : k # i /\ posts'[k].at >= posts'[i].at }) < RecentToPublisher
    BY <1>2
  <2>4. posts'[i] \in rows
    BY <1>1, <1>2, <2>2, <2>3, NewestHold
  <2>5. QED
    BY <2>1, <2>4 DEF IsDuplicate
<1>4. CASE work'[u] = work[u]
  <2>1. CASE i \in DOMAIN posts
    <3>1. DOMAIN posts \subseteq DOMAIN posts' /\ \A k \in DOMAIN posts : posts'[k] = posts[k]
      BY PostsDifferThen
    <3>2. newer \subseteq newerThen
      BY <2>1, <3>1
    <3>3. IsFiniteSet(newerThen)
      <4>1. IsFiniteSet(1 .. m) /\ newerThen \in SUBSET (1 .. m)
        BY <1>2, FS_Interval
      <4>2. QED
        BY <4>1, FS_Subset
    <3>4. Cardinality(newerThen) < RecentToPublisher
      OBVIOUS
    <3> HIDE DEF newer, newerThen
    <3>5. Cardinality(newer) < RecentToPublisher
      <4>1. /\ Cardinality(newer) \in Nat /\ Cardinality(newerThen) \in Nat
            /\ Cardinality(newer) <= Cardinality(newerThen)
        BY <3>2, <3>3, FS_Subset, FS_CardinalityType
      <4>2. QED
        BY <1>1, <3>4, <4>1
    <3>6. posts[i].by = u
      BY <2>1, <3>1
    <3>7. Cardinality({ k \in DOMAIN posts : k # i /\ posts[k].at >= posts[i].at }) < RecentToPublisher
      BY <3>5 DEF newer
    <3>8. ~ SimilarSummary(Head(work[u].rest), posts[i].story)
      BY <1>4, <2>1, <3>6, <3>7 DEF PostsInv, ClearInv
    <3>9. QED
      BY <1>4, <2>1, <3>1, <3>8
  <2>2. CASE i \notin DOMAIN posts
    <3>1. \/ posts'[i].by \in Cycles
          \/ HasPosted(u)
      BY <2>2, PostsDifferThen
    <3>2. LooksThen(u)
      BY <3>1, EngineParts DEF HasPosted
    <3>3. QED
      BY <1>3, <3>2
  <2>3. QED
    BY <2>1, <2>2
<1>5. QED
  BY <1>3, <1>4 DEF PostingStep

LEMMA PostsPreserved == TypeInv /\ TypeInv' /\ PostsInv /\ [EngineNext]_engineVars => PostsInv'
<1>1. ASSUME TypeInv, TypeInv', PostsInv, PostingStep
      PROVE  PostsInv'
  <2>1. AuthorsInv'
    BY <1>1, AuthorsThen
  <2>2. ClearInv'
    BY <1>1, ClearThen DEF ClearInv
  <2>3. \A j \in DOMAIN posts' : \A i \in 1 .. j - 1 : (CyclesDiffer(i, j) /\ CommandsDiffer(i, j))'
    BY <1>1, PostsDifferThen
  <2>4. PostsAreDistinct' /\ PublishedAreDistinct'
    BY <2>3 DEF PostsAreDistinct, PublishedAreDistinct, CyclesDiffer, CommandsDiffer
  <2>5. QED
    BY <2>1, <2>2, <2>4 DEF PostsInv
<1>2. ASSUME PostsInv, UNCHANGED engineVars
      PROVE  PostsInv'
  BY <1>2 DEF PostsInv, AuthorsInv, ClearInv, PostsAreDistinct, PublishedAreDistinct, WasRecent,
              engineVars, daemonVars
<1>3. QED
  BY <1>1, <1>2, DaemonPosts, CommandsPost DEF EngineNext

LEMMA PostsInvariant == EngineSpec => []PostsInv
<1>1. EngineInit => PostsInv
  BY DEF EngineInit, DaemonInit, NoWork, PostsInv, AuthorsInv, ClearInv, PostsAreDistinct,
         PublishedAreDistinct
<1>2. QED
  BY <1>1, TypeInvariant, PostsPreserved, PTL DEF EngineSpec

\* However many cycles and commands overlap on one table, no cycle saves what
\* another saved of late, or one story twice: the table is read after the last
\* await before the save.
THEOREM CyclesPostNews == EngineSpec => []PostsAreDistinct
  BY PostsInvariant, PTL DEF PostsInv

\* publishFindings() looks at the table again for each finding, and between its
\* look and its save others may save: of its own posts no two are similar, unless
\* as many posts as it looks at came between.
THEOREM PublishedPostsDiffer == EngineSpec => []PublishedAreDistinct
  BY PostsInvariant, PTL DEF PostsInv

=============================================================================
