------------------------- MODULE NetworkPushProofs -------------------------
(***************************************************************************)
(* What NetworkPush reports is true, and its batches keep the promise of   *)
(* PushPromise, for any number of pushes and posts and every limit.        *)
(***************************************************************************)
EXTENDS NetworkPush, SequenceTheorems, FoldTheorems

\* What has been answered, and what is or was under way, is cut from what was
\* given; a call that is through has nothing left.
CutsAreExact(c) ==
  /\ c.received + Len(c.batch) + Len(c.rest) = Len(c.given)
  /\ c.batch = SubSeq(c.given, c.received + 1, c.received + Len(c.batch))
  /\ c.rest = SubSeq(c.given, c.received + Len(c.batch) + 1, Len(c.given))
  /\ c.pc = "idle" => c.given = << >>
  /\ c.pc = "done" => c.batch = << >> /\ c.rest = << >>

\* What a call counts on is at the registry.
CountedOn(c) ==
  /\ \A i \in 1 .. c.received : c.given[i] \in network
  /\ c.pc = "taken" => Range(c.batch) \subseteq network

\* A batch that is still on its way belongs to a call.
LateIsGiven ==
  \A batch \in late : \E p \in Pushers :
    push[p].pc # "idle" /\ Range(batch) \subseteq Range(push[p].given)

PushInv ==
  /\ PushTypeOK
  /\ \A p \in Pushers : CutsAreExact(push[p]) /\ CountedOn(push[p])
  /\ LateIsGiven

-----------------------------------------------------------------------------
(* One call *)

\* A cut of a sequence, which may be empty.
LEMMA Cut ==
  ASSUME NEW S, NEW s \in Seq(S), NEW m \in Nat, NEW n \in Nat,
         1 <= m, m <= n + 1, n <= Len(s)
  PROVE  /\ SubSeq(s, m, n) \in Seq(S)
         /\ Len(SubSeq(s, m, n)) = n - m + 1
         /\ \A i \in 1 .. n - m + 1 : SubSeq(s, m, n)[i] = s[m + i - 1]
<1>1. m \in Int /\ n \in Int /\ \A i \in m .. n : i \in 1 .. Len(s)
  OBVIOUS
<1>2. \A i \in 1 .. Len(s) : s[i] \in S
  BY ElementOfSeq
<1>3. \A i \in m .. n : s[i] \in S
  BY <1>1, <1>2
<1>4. /\ SubSeq(s, m, n) \in Seq(S)
      /\ Len(SubSeq(s, m, n)) = IF m <= n THEN n - m + 1 ELSE 0
      /\ \A i \in 1 .. n - m + 1 : SubSeq(s, m, n)[i] = s[m + i - 1]
  BY <1>1, <1>3, SubSeqProperties
<1> QED
  BY <1>4

\* t is what is left of s after its first k elements, and has n of them.
IsRest(S, s, k, t, n) ==
  /\ s \in Seq(S) /\ k \in Nat /\ k <= Len(s)
  /\ t = SubSeq(s, k + 1, Len(s))
  /\ n \in Nat /\ k + n <= Len(s)

\* Then the first n of t and the others are cuts of s as well.
AreCuts(S, s, k, t, n) ==
  /\ SubSeq(t, 1, n) \in Seq(S) /\ Len(SubSeq(t, 1, n)) = n
  /\ SubSeq(t, n + 1, Len(t)) \in Seq(S) /\ Len(SubSeq(t, n + 1, Len(t))) = Len(t) - n
  /\ SubSeq(t, 1, n) = SubSeq(s, k + 1, k + n)
  /\ SubSeq(t, n + 1, Len(t)) = SubSeq(s, k + n + 1, Len(s))

LEMMA CutInTwo ==
  ASSUME NEW S, NEW s, NEW k, NEW t, NEW n, IsRest(S, s, k, t, n)
  PROVE  AreCuts(S, s, k, t, n)
<1>0. /\ s \in Seq(S) /\ k \in Nat /\ k <= Len(s)
      /\ t = SubSeq(s, k + 1, Len(s))
      /\ n \in Nat /\ k + n <= Len(s)
  BY DEF IsRest
<1>1. Len(s) \in Nat /\ k + 1 \in Nat /\ k + n \in Nat /\ k + n + 1 \in Nat /\ n + 1 \in Nat
  BY <1>0, LenProperties
<1>2. /\ t \in Seq(S) /\ Len(t) = Len(s) - k
      /\ \A i \in 1 .. Len(s) - k : t[i] = s[k + i]
  <2>1. /\ t \in Seq(S) /\ Len(t) = Len(s) - (k + 1) + 1
        /\ \A i \in 1 .. Len(s) - (k + 1) + 1 : t[i] = s[(k + 1) + i - 1]
    BY <1>0, <1>1, Cut
  <2> QED
    BY <1>0, <1>1, <2>1
<1>3. /\ SubSeq(t, 1, n) \in Seq(S) /\ Len(SubSeq(t, 1, n)) = n
      /\ \A i \in 1 .. n : SubSeq(t, 1, n)[i] = t[i]
  <2>1. 1 \in Nat /\ 1 <= n + 1 /\ n <= Len(t)
    BY <1>0, <1>1, <1>2
  <2>2. /\ SubSeq(t, 1, n) \in Seq(S) /\ Len(SubSeq(t, 1, n)) = n - 1 + 1
        /\ \A i \in 1 .. n - 1 + 1 : SubSeq(t, 1, n)[i] = t[1 + i - 1]
    BY <1>0, <1>2, <2>1, Cut
  <2> QED
    BY <2>2
<1>4. /\ SubSeq(t, n + 1, Len(t)) \in Seq(S) /\ Len(SubSeq(t, n + 1, Len(t))) = Len(t) - n
      /\ \A i \in 1 .. Len(t) - n : SubSeq(t, n + 1, Len(t))[i] = t[n + i]
  <2>1. Len(t) \in Nat /\ 1 <= n + 1 /\ n + 1 <= Len(t) + 1
    BY <1>0, <1>1, <1>2
  <2>2. /\ SubSeq(t, n + 1, Len(t)) \in Seq(S)
        /\ Len(SubSeq(t, n + 1, Len(t))) = Len(t) - (n + 1) + 1
        /\ \A i \in 1 .. Len(t) - (n + 1) + 1 : SubSeq(t, n + 1, Len(t))[i] = t[(n + 1) + i - 1]
    BY <1>0, <1>1, <1>2, <2>1, Cut
  <2>3. /\ Len(t) - (n + 1) + 1 = Len(t) - n
        /\ \A i \in 1 .. Len(t) - n : (n + 1) + i - 1 = n + i
    BY ONLY <1>0, <2>1
  <2> QED
    BY ONLY <2>2, <2>3
<1>5. /\ SubSeq(s, k + 1, k + n) \in Seq(S) /\ Len(SubSeq(s, k + 1, k + n)) = n
      /\ \A i \in 1 .. n : SubSeq(s, k + 1, k + n)[i] = s[k + i]
  <2>1. 1 <= k + 1 /\ k + 1 <= k + n + 1
    BY <1>0
  <2>2. /\ SubSeq(s, k + 1, k + n) \in Seq(S)
        /\ Len(SubSeq(s, k + 1, k + n)) = k + n - (k + 1) + 1
        /\ \A i \in 1 .. k + n - (k + 1) + 1 : SubSeq(s, k + 1, k + n)[i] = s[(k + 1) + i - 1]
    BY <1>0, <1>1, <2>1, Cut
  <2>3. k + n - (k + 1) + 1 = n /\ \A i \in 1 .. n : (k + 1) + i - 1 = k + i
    BY ONLY <1>0
  <2> QED
    BY ONLY <2>2, <2>3
<1>6. /\ SubSeq(s, k + n + 1, Len(s)) \in Seq(S)
      /\ Len(SubSeq(s, k + n + 1, Len(s))) = Len(s) - (k + n)
      /\ \A i \in 1 .. Len(s) - (k + n) : SubSeq(s, k + n + 1, Len(s))[i] = s[k + n + i]
  <2>1. 1 <= k + n + 1 /\ k + n + 1 <= Len(s) + 1
    BY <1>0, <1>1
  <2>2. /\ SubSeq(s, k + n + 1, Len(s)) \in Seq(S)
        /\ Len(SubSeq(s, k + n + 1, Len(s))) = Len(s) - (k + n + 1) + 1
        /\ \A i \in 1 .. Len(s) - (k + n + 1) + 1 :
             SubSeq(s, k + n + 1, Len(s))[i] = s[(k + n + 1) + i - 1]
    BY <1>0, <1>1, <2>1, Cut
  <2> QED
    BY <1>0, <1>1, <2>2
<1>7. SubSeq(t, 1, n) = SubSeq(s, k + 1, k + n)
  <2>1. \A i \in 1 .. n : SubSeq(t, 1, n)[i] = SubSeq(s, k + 1, k + n)[i]
    BY <1>0, <1>1, <1>2, <1>3, <1>5
  <2> QED
    BY <1>3, <1>5, <2>1, SeqEqual
<1>8. SubSeq(t, n + 1, Len(t)) = SubSeq(s, k + n + 1, Len(s))
  <2>1. \A i \in 1 .. Len(s) - (k + n) :
          SubSeq(t, n + 1, Len(t))[i] = SubSeq(s, k + n + 1, Len(s))[i]
    <3> TAKE i \in 1 .. Len(s) - (k + n)
    <3>1. i \in 1 .. Len(t) - n /\ n + i \in 1 .. Len(s) - k /\ k + (n + i) = k + n + i
      BY <1>0, <1>1, <1>2
    <3> QED
      BY <1>2, <1>4, <1>6, <3>1
  <2>2. Len(t) - n = Len(s) - (k + n)
    BY <1>0, <1>1, <1>2
  <2> QED
    BY <1>4, <1>6, <2>1, <2>2, SeqEqual
<1> QED
  BY <1>3, <1>4, <1>7, <1>8 DEF AreCuts

\* What the mapping leaves can be pushed.
LEMMA MappingIsPushable ==
  ASSUME NEW posts \in Given, NEW mapped \in KeepPushable(posts)
  PROVE  mapped \in Seq(Pushable)
<1> DEFINE kept == { k \in DOMAIN posts : posts[k] \in Pushable }
<1>1. PICK at \in [1 .. Cardinality(kept) -> kept] :
        mapped = [i \in DOMAIN at |-> posts[at[i]]]
  BY DEF KeepPushable
<1>2. posts \in Seq(Posts) /\ DOMAIN posts = 1 .. Len(posts) /\ Len(posts) \in Nat
  BY PushAssumption, LenProperties
<1>3. Cardinality(kept) \in Nat
  <2>1. IsFiniteSet(1 .. Len(posts))
    BY <1>2, FS_Interval
  <2>2. kept \subseteq 1 .. Len(posts)
    BY <1>2
  <2> QED
    BY <2>1, <2>2, FS_Subset, FS_CardinalityType
<1>4. DOMAIN at = 1 .. Cardinality(kept) /\ \A i \in DOMAIN at : posts[at[i]] \in Pushable
  BY <1>1
<1>5. mapped \in [1 .. Cardinality(kept) -> Pushable]
  BY <1>1, <1>4
<1> HIDE DEF kept
<1> QED
  BY <1>3, <1>5, IsASeq

\* The next batch is cut from the front of the rest.
LEMMA NextBatchIsExact ==
  ASSUME NEW c \in Call, NEW next \in WithNextBatch(c),
         c.rest = SubSeq(c.given, c.received + 1, Len(c.given)),
         c.received + Len(c.rest) = Len(c.given)
  PROVE  /\ next \in Call
         /\ CutsAreExact(next)
         /\ next.given = c.given /\ next.received = c.received
         /\ next.pc \in {"sending", "done"}
         /\ next.pc = "done" => c.rest = << >> /\ next.received = Len(next.given)
         /\ next.pc = "sending" => c.rest # << >>
<1>1. /\ c.given \in Seq(Pushable) /\ c.rest \in Seq(Pushable) /\ c.batch \in Seq(Pushable)
      /\ c.received \in Nat /\ Len(c.given) \in Nat /\ Len(c.rest) \in Nat
  BY LenProperties DEF Call
<1>a. c.rest = SubSeq(c.given, c.received + 1, Len(c.given))
  OBVIOUS
<1>b. c.received + Len(c.rest) = Len(c.given)
  OBVIOUS
<1>2. CASE c.rest = << >>
  <2>1. next = [c EXCEPT !.pc = "done", !.batch = << >>]
    BY <1>2 DEF WithNextBatch
  <2>2. /\ next \in Call /\ next.batch = << >> /\ next.rest = << >> /\ next.pc = "done"
        /\ next.given = c.given /\ next.received = c.received
    BY <2>1, <1>2 DEF Call
  <2>3. Len(<< >>) = 0 /\ c.received = Len(c.given)
    BY <1>1, <1>2
  <2>4. \A m, n \in Int : n < m => SubSeq(c.given, m, n) = << >>
    BY SubSeqEmpty
  <2>5. /\ next.received + Len(next.batch) = c.received
        /\ next.received + Len(next.batch) + Len(next.rest) = Len(c.given)
    BY ONLY <1>1, <2>2, <2>3
  <2>6. /\ SubSeq(c.given, c.received + 1, c.received) = << >>
        /\ SubSeq(c.given, c.received + 1, Len(c.given)) = << >>
    BY ONLY <1>1, <2>3, <2>4
  <2>7. CutsAreExact(next)
    BY ONLY <2>2, <2>5, <2>6 DEF CutsAreExact
  <2> QED
    BY <1>2, <2>2, <2>3, <2>7
<1>3. CASE c.rest # << >>
  <2>1. PICK n \in DOMAIN c.rest :
          next = [c EXCEPT !.pc = "sending", !.batch = SubSeq(c.rest, 1, n),
                           !.rest = SubSeq(c.rest, n + 1, Len(c.rest))]
    BY <1>3 DEF WithNextBatch
  <2>2. n \in 1 .. Len(c.rest)
    BY <1>1, <2>1, LenProperties
  <2>3. /\ SubSeq(c.rest, 1, n) \in Seq(Pushable) /\ Len(SubSeq(c.rest, 1, n)) = n
        /\ SubSeq(c.rest, n + 1, Len(c.rest)) \in Seq(Pushable)
        /\ Len(SubSeq(c.rest, n + 1, Len(c.rest))) = Len(c.rest) - n
        /\ SubSeq(c.rest, 1, n) = SubSeq(c.given, c.received + 1, c.received + n)
        /\ SubSeq(c.rest, n + 1, Len(c.rest))
             = SubSeq(c.given, c.received + n + 1, Len(c.given))
    <3>1. n \in Nat /\ c.received <= Len(c.given) /\ c.received + n <= Len(c.given)
      BY ONLY <1>1, <1>b, <2>2
    <3>2. IsRest(Pushable, c.given, c.received, c.rest, n)
      BY ONLY <1>1, <1>a, <3>1 DEF IsRest
    <3>3. AreCuts(Pushable, c.given, c.received, c.rest, n)
      BY ONLY <3>2, CutInTwo
    <3> QED
      BY ONLY <3>3 DEF AreCuts
  <2>4. /\ next \in Call /\ next.pc = "sending"
        /\ next.batch = SubSeq(c.rest, 1, n)
        /\ next.rest = SubSeq(c.rest, n + 1, Len(c.rest))
        /\ next.given = c.given /\ next.received = c.received
    BY <2>1, <2>3 DEF Call
  <2>5. CutsAreExact(next)
    <3>1. Len(next.batch) = n /\ Len(next.rest) = Len(c.rest) - n
      BY <2>3, <2>4
    <3>2. next.received + Len(next.batch) + Len(next.rest) = Len(next.given)
      BY ONLY <1>1, <1>b, <2>2, <2>4, <3>1
    <3> QED
      BY <1>1, <2>2, <2>3, <2>4, <3>1, <3>2 DEF CutsAreExact
  <2> QED
    BY <1>3, <2>4, <2>5
<1> QED
  BY <1>2, <1>3

\* What was answered, what is under way and what is left make up what was given.
LEMMA CutsMakeUpAll ==
  ASSUME NEW c \in Call, CutsAreExact(c)
  PROVE  c.given = SubSeq(c.given, 1, c.received) \o c.batch \o c.rest
<1> DEFINE r == c.received
           m == c.received + Len(c.batch)
           g == c.given
<1>1. /\ g \in Seq(Pushable) /\ Len(g) \in Nat /\ r \in Nat
      /\ Len(c.batch) \in Nat /\ Len(c.rest) \in Nat
  BY LenProperties DEF Call
<1>2. m + Len(c.rest) = Len(g)
  BY DEF CutsAreExact
<1>3. c.batch = SubSeq(g, r + 1, m) /\ c.rest = SubSeq(g, m + 1, Len(g))
  BY DEF CutsAreExact
<1>4. /\ r \in 1 - 1 .. Len(g) /\ m \in r .. Len(g) /\ m \in 1 - 1 .. Len(g)
      /\ Len(g) \in m .. Len(g) /\ 1 \in 1 .. Len(g) + 1
  BY ONLY <1>1, <1>2
<1> HIDE DEF r, m, g
<1>5. SubSeq(g, 1, r) \o SubSeq(g, r + 1, m) = SubSeq(g, 1, m)
  BY ONLY <1>1, <1>4, ConcatAdjacentSubSeq
<1>6. SubSeq(g, 1, m) \o SubSeq(g, m + 1, Len(g)) = SubSeq(g, 1, Len(g))
  BY ONLY <1>1, <1>4, ConcatAdjacentSubSeq
<1>7. SubSeq(g, 1, Len(g)) = g
  BY ONLY <1>1, SubSeqFull
<1> QED
  BY ONLY <1>3, <1>5, <1>6, <1>7 DEF r, g

\* A batch under way is part of what was given.
LEMMA BatchIsGiven ==
  ASSUME NEW c \in Call, CutsAreExact(c)
  PROVE  /\ Range(c.batch) \subseteq Range(c.given)
         /\ Range(c.given) \subseteq Pushable
         /\ \A i \in 1 .. c.received + Len(c.batch) :
              i > c.received => c.given[i] \in Range(c.batch)
<1>1. /\ c.given \in Seq(Pushable) /\ Len(c.given) \in Nat /\ c.received \in Nat
      /\ Len(c.batch) \in Nat /\ Len(c.rest) \in Nat /\ c.batch \in Seq(Pushable)
      /\ DOMAIN c.given = 1 .. Len(c.given) /\ DOMAIN c.batch = 1 .. Len(c.batch)
  BY LenProperties DEF Call
<1>2. /\ c.received + Len(c.batch) + Len(c.rest) = Len(c.given)
      /\ c.batch = SubSeq(c.given, c.received + 1, c.received + Len(c.batch))
  BY DEF CutsAreExact
<1>3. \A i \in 1 .. Len(c.batch) : c.batch[i] = c.given[c.received + i]
  <2>0. /\ c.received + 1 \in Nat /\ c.received + Len(c.batch) \in Nat
        /\ 1 <= c.received + 1 /\ c.received + 1 <= c.received + Len(c.batch) + 1
        /\ c.received + Len(c.batch) <= Len(c.given)
    <3>1. c.received + Len(c.batch) + Len(c.rest) = Len(c.given)
      BY <1>2
    <3> QED
      BY ONLY <1>1, <3>1
  <2> DEFINE m == c.received + 1
             n == c.received + Len(c.batch)
  <2>1. m \in Nat /\ n \in Nat /\ 1 <= m /\ m <= n + 1 /\ n <= Len(c.given)
    BY ONLY <2>0
  <2>2. n - m + 1 = Len(c.batch) /\ \A i \in 1 .. Len(c.batch) : m + i - 1 = c.received + i
    BY ONLY <1>1
  <2>3. c.batch = SubSeq(c.given, m, n)
    BY <1>2
  <2> HIDE DEF m, n
  <2>4. \A i \in 1 .. n - m + 1 : SubSeq(c.given, m, n)[i] = c.given[m + i - 1]
    BY ONLY <1>1, <2>1, Cut
  <2> QED
    BY ONLY <2>2, <2>3, <2>4
<1>4. Range(c.batch) \subseteq Range(c.given)
  <2>1. \A i \in 1 .. Len(c.batch) : c.received + i \in 1 .. Len(c.given)
    BY ONLY <1>1, <1>2
  <2> QED
    BY <1>1, <1>3, <2>1 DEF Range
<1>5. Range(c.given) \subseteq Pushable
  BY <1>1, ElementOfSeq DEF Range
<1>6. ASSUME NEW i \in 1 .. c.received + Len(c.batch), i > c.received
      PROVE  c.given[i] \in Range(c.batch)
  <2>1. i - c.received \in 1 .. Len(c.batch) /\ c.received + (i - c.received) = i
    BY ONLY <1>1, <1>6
  <2> QED
    BY <1>1, <1>3, <2>1 DEF Range
<1> QED
  BY <1>4, <1>5, <1>6

-----------------------------------------------------------------------------
(* The invariant *)

\* A step of one call, given what it does to that call.
LEMMA OneCallSteps ==
  ASSUME PushInv, NEW p \in Pushers, NEW next \in Call,
         push' = [push EXCEPT ![p] = next],
         network \subseteq network', network' \subseteq Pushable,
         CutsAreExact(next),
         \A i \in 1 .. next.received : next.given[i] \in network',
         next.pc = "taken" => Range(next.batch) \subseteq network',
         next.pc # "idle",
         push[p].pc # "idle" => next.given = push[p].given,
         \A batch \in late' : \/ batch \in late
                              \/ /\ batch \in Seq(Pushable)
                                 /\ Range(batch) \subseteq Range(next.given)
  PROVE  PushInv'
<1>1. /\ push'[p] = next
      /\ \A q \in Pushers : q # p => push'[q] = push[q]
      /\ push' \in [Pushers -> Call]
  BY DEF PushInv, PushTypeOK
<1>2. PushTypeOK'
  BY <1>1 DEF PushInv, PushTypeOK
<1>3. ASSUME NEW q \in Pushers PROVE CutsAreExact(push[q])' /\ CountedOn(push[q])'
  <2>1. CASE q = p
    BY <1>1, <2>1 DEF CutsAreExact, CountedOn
  <2>2. CASE q # p
    BY <1>1, <2>2 DEF PushInv, CutsAreExact, CountedOn
  <2> QED
    BY <2>1, <2>2
<1>4. LateIsGiven'
  <2> SUFFICES ASSUME NEW batch \in late'
               PROVE  \E q \in Pushers :
                        push'[q].pc # "idle" /\ Range(batch) \subseteq Range(push'[q].given)
    BY DEF LateIsGiven
  <2>1. CASE batch \in late
    <3>1. PICK q \in Pushers :
            push[q].pc # "idle" /\ Range(batch) \subseteq Range(push[q].given)
      BY <2>1 DEF PushInv, LateIsGiven
    <3>2. push'[q].pc # "idle" /\ push'[q].given = push[q].given
      BY <1>1, <3>1
    <3> QED
      BY <3>1, <3>2
  <2>2. CASE Range(batch) \subseteq Range(next.given)
    BY <1>1, <2>2
  <2> QED
    BY <2>1, <2>2
<1> QED
  BY <1>2, <1>3, <1>4 DEF PushInv

LEMMA InitEstablishesInv ==
  ASSUME PushInit
  PROVE  PushInv
<1>1. NoCall \in Call
  BY EmptySeq DEF NoCall, Call
<1>2. PushTypeOK
  BY <1>1 DEF PushInit, PushTypeOK
<1>3. \A m, n \in Int : n < m => SubSeq(<< >>, m, n) = << >>
  BY SubSeqEmpty
<1>4. CutsAreExact(NoCall)
  BY <1>3, EmptySeq DEF NoCall, CutsAreExact
<1>5. CountedOn(NoCall)
  BY DEF NoCall, CountedOn
<1> QED
  BY <1>2, <1>4, <1>5 DEF PushInit, PushInv, LateIsGiven

\* push() and its first batch.
LEMMA BeginKeepsInv ==
  ASSUME PushInv, NEW p \in Pushers, NEW posts \in Given, BeginPush(p, posts)
  PROVE  PushInv'
<1>0. PICK mapped \in KeepPushable(posts) :
        \E next \in WithNextBatch(NewCall(mapped)) : push' = [push EXCEPT ![p] = next]
  BY DEF BeginPush
<1>1. PICK next \in WithNextBatch(NewCall(mapped)) : push' = [push EXCEPT ![p] = next]
  BY <1>0
<1>2. push[p].pc = "idle" /\ late' = late /\ network' = network
  BY DEF BeginPush
<1>3. mapped \in Seq(Pushable) /\ Len(mapped) \in Nat
  BY MappingIsPushable, LenProperties
<1> DEFINE c == NewCall(mapped)
<1>4. c \in Call /\ c.given = mapped /\ c.rest = mapped /\ c.received = 0
  BY <1>3, EmptySeq DEF NewCall, NoCall, Call
<1>5. c.rest = SubSeq(c.given, c.received + 1, Len(c.given))
  BY <1>3, <1>4, SubSeqFull
<1>6. c.received + Len(c.rest) = Len(c.given)
  BY <1>3, <1>4
<1> HIDE DEF c
<1>7. /\ next \in Call /\ CutsAreExact(next)
      /\ next.received = c.received /\ next.pc \in {"sending", "done"}
  BY <1>1, <1>4, <1>5, <1>6, NextBatchIsExact DEF c
<1>8. 1 .. next.received = {}
  BY <1>4, <1>7
<1>9. network' \subseteq Pushable
  BY <1>2 DEF PushInv, PushTypeOK
<1> QED
  BY <1>1, <1>2, <1>7, <1>8, <1>9, OneCallSteps

\* A batch reaches the registry.
LEMMA ArrivalKeepsInv ==
  ASSUME PushInv, NEW p \in Pushers, BatchArrives(p)
  PROVE  PushInv'
<1> DEFINE c == push[p]
           n == Cardinality(Range(c.batch) \ network)
           next == [c EXCEPT !.pc = "taken", !.fresh = n]
<1>1. c \in Call /\ CutsAreExact(c) /\ CountedOn(c) /\ network \subseteq Pushable
  BY DEF PushInv, PushTypeOK
<1>2. /\ c.pc = "sending" /\ push' = [push EXCEPT ![p] = next]
      /\ network' = network \cup Range(c.batch) /\ late' = late
  BY DEF BatchArrives
<1>3. n \in Nat
  <2>1. c.batch \in Seq(Pushable) /\ DOMAIN c.batch = 1 .. Len(c.batch) /\ Len(c.batch) \in Nat
    BY <1>1, LenProperties DEF Call
  <2>2. IsFiniteSet(Range(c.batch))
    <3>1. IsFiniteSet(1 .. Len(c.batch))
      <4>1. 1 \in Int /\ Len(c.batch) \in Int
        BY <2>1
      <4> QED
        BY ONLY <4>1, FS_Interval
    <3>2. c.batch \in Surjection(1 .. Len(c.batch), Range(c.batch))
      BY <2>1 DEF Range, Surjection
    <3> QED
      BY ONLY <3>1, <3>2, FS_Surjection
  <2> QED
    BY <2>2, FS_Difference, FS_CardinalityType
<1>4. /\ next \in Call /\ next.given = c.given /\ next.batch = c.batch /\ next.rest = c.rest
      /\ next.received = c.received /\ next.pc = "taken"
  BY <1>1, <1>3 DEF Call
<1> HIDE DEF n, next
<1>5. CutsAreExact(next)
  BY <1>1, <1>4 DEF CutsAreExact
<1>6. Range(c.batch) \subseteq Pushable
  BY <1>1, BatchIsGiven
<1>7. \A i \in 1 .. next.received : next.given[i] \in network'
  BY <1>1, <1>2, <1>4 DEF CountedOn
<1> QED
  BY <1>1, <1>2, <1>4, <1>5, <1>6, <1>7, OneCallSteps

\* An answer that is no good, a timeout or a network failure ends the call.
LEMMA FailureKeepsInv ==
  ASSUME PushInv, NEW p \in Pushers, BatchRefused(p) \/ RequestFails(p)
  PROVE  PushInv'
<1> DEFINE c == push[p]
           next == [c EXCEPT !.pc = "failed"]
<1>1. c \in Call /\ CutsAreExact(c) /\ CountedOn(c) /\ network \subseteq Pushable
  BY DEF PushInv, PushTypeOK
<1>2. /\ c.pc \in {"sending", "taken"} /\ push' = [push EXCEPT ![p] = next]
      /\ network' = network
      /\ late' = late \/ late' = late \cup {c.batch}
  BY DEF BatchRefused, RequestFails
<1>3. /\ next \in Call /\ next.given = c.given /\ next.batch = c.batch /\ next.rest = c.rest
      /\ next.received = c.received /\ next.pc = "failed"
  BY <1>1 DEF Call
<1> HIDE DEF next
<1>4. CutsAreExact(next)
  BY <1>1, <1>3 DEF CutsAreExact
<1>5. c.batch \in Seq(Pushable) /\ Range(c.batch) \subseteq Range(next.given)
  BY <1>1, <1>3, BatchIsGiven DEF Call
<1>6. \A i \in 1 .. next.received : next.given[i] \in network'
  BY <1>1, <1>2, <1>3 DEF CountedOn
<1> QED
  BY <1>1, <1>2, <1>3, <1>4, <1>5, <1>6, OneCallSteps

\* Counting an answer moves the totals and nothing else.
LEMMA CountedIsCall ==
  ASSUME NEW c \in Call
  PROVE  /\ Counted(c) \in Call
         /\ Counted(c).given = c.given /\ Counted(c).rest = c.rest
         /\ Counted(c).received = c.received + Len(c.batch)
<1> DEFINE accepted == c.accepted + c.fresh
           received == c.received + Len(c.batch)
<1>1. accepted \in Nat /\ received \in Nat
  <2>1. /\ c.accepted \in Nat /\ c.fresh \in Nat /\ c.received \in Nat
        /\ c.batch \in Seq(Pushable)
    BY DEF Call
  <2> QED
    BY <2>1, LenProperties
<1>2. Counted(c) = [c EXCEPT !.accepted = accepted, !.received = received]
  BY DEF Counted
<1> HIDE DEF accepted, received
<1>3. /\ Counted(c) \in Call /\ Counted(c).given = c.given /\ Counted(c).rest = c.rest
      /\ Counted(c).received = received
  BY <1>1, <1>2 DEF Call
<1> QED
  BY <1>3 DEF received

\* The answer to a batch: its posts are counted, and the next batch goes out.
LEMMA AnswerKeepsInv ==
  ASSUME PushInv, NEW p \in Pushers, NEW next \in WithNextBatch(Counted(push[p])),
         push[p].pc = "taken", push' = [push EXCEPT ![p] = next],
         UNCHANGED << late, network >>
  PROVE  /\ PushInv'
         /\ next.given = push[p].given
         /\ next.pc \in {"sending", "done"}
         /\ next.pc = "done" => Range(next.given) \subseteq network
<1> DEFINE c == push[p]
           d == Counted(c)
<1>1. c \in Call /\ CutsAreExact(c) /\ CountedOn(c) /\ network \subseteq Pushable
  BY DEF PushInv, PushTypeOK
<1>2. /\ c.given \in Seq(Pushable) /\ Len(c.given) \in Nat /\ c.received \in Nat
      /\ Len(c.batch) \in Nat /\ Len(c.rest) \in Nat
      /\ DOMAIN c.given = 1 .. Len(c.given)
  BY <1>1, LenProperties DEF Call
<1>3. /\ d \in Call /\ d.given = c.given /\ d.rest = c.rest
      /\ d.received = c.received + Len(c.batch)
  BY <1>1, CountedIsCall
<1>4. d.rest = SubSeq(d.given, d.received + 1, Len(d.given))
  BY <1>1, <1>3 DEF CutsAreExact
<1>5. d.received + Len(d.rest) = Len(d.given)
  BY <1>1, <1>3 DEF CutsAreExact
<1>6. /\ \A i \in 1 .. c.received : c.given[i] \in network
      /\ Range(c.batch) \subseteq network
      /\ \A i \in 1 .. c.received + Len(c.batch) :
           i > c.received => c.given[i] \in Range(c.batch)
  BY <1>1, BatchIsGiven DEF CountedOn
<1>7. \A i \in 1 .. c.received + Len(c.batch) : c.given[i] \in network
  <2> TAKE i \in 1 .. c.received + Len(c.batch)
  <2>1. CASE i <= c.received
    BY <1>2, <1>6, <2>1
  <2>2. CASE i > c.received
    BY <1>6, <2>2
  <2>3. i \in Int /\ c.received \in Int
    BY <1>2
  <2> QED
    BY <2>1, <2>2, <2>3
<1> HIDE DEF d
<1>8. /\ next \in Call /\ CutsAreExact(next) /\ next.given = d.given
      /\ next.received = d.received /\ next.pc \in {"sending", "done"}
      /\ next.pc = "done" => next.received = Len(next.given)
  BY <1>3, <1>4, <1>5, NextBatchIsExact DEF d
<1>9. network' = network /\ late' = late
  OBVIOUS
<1>10. \A i \in 1 .. next.received : next.given[i] \in network
  BY <1>3, <1>7, <1>8
<1>11. next.pc = "done" => Range(next.given) \subseteq network
  BY <1>2, <1>3, <1>8, <1>10 DEF Range
<1>12. PushInv'
  BY <1>1, <1>3, <1>8, <1>9, <1>10, OneCallSteps
<1> QED
  BY <1>3, <1>8, <1>11, <1>12

\* A batch given up by its sender arrives after all.
LEMMA LateKeepsInv ==
  ASSUME PushInv, BatchArrivesLate
  PROVE  PushInv'
<1>1. PICK batch \in late :
        /\ late' = late \ {batch}
        /\ network' = IF RegistryTakes(batch) THEN network \cup Range(batch) ELSE network
        /\ push' = push
  BY DEF BatchArrivesLate
<1>2. /\ batch \in Seq(Pushable) /\ late \subseteq Seq(Pushable)
      /\ push \in [Pushers -> Call] /\ network \subseteq Pushable
  BY DEF PushInv, PushTypeOK
<1>3. Range(batch) \subseteq Pushable
  BY <1>2, ElementOfSeq, LenProperties DEF Range
<1>4. network \subseteq network' /\ network' \subseteq Pushable
  BY <1>1, <1>2, <1>3
<1>5. PushTypeOK'
  BY <1>1, <1>2, <1>4 DEF PushTypeOK
<1>6. \A p \in Pushers : CutsAreExact(push[p])' /\ CountedOn(push[p])'
  BY <1>1, <1>4 DEF PushInv, CutsAreExact, CountedOn
<1>7. LateIsGiven'
  BY <1>1 DEF PushInv, LateIsGiven
<1> QED
  BY <1>5, <1>6, <1>7 DEF PushInv

-----------------------------------------------------------------------------
(* The theorems *)

\* Every reachable state satisfies the invariant.
THEOREM PushInvariance == PushSpec => []PushInv
<1>1. PushInit => PushInv
  BY InitEstablishesInv
<1>2. PushInv /\ [PushNext]_pushVars => PushInv'
  <2> SUFFICES ASSUME PushInv, [PushNext]_pushVars PROVE PushInv'
    OBVIOUS
  <2>1. ASSUME NEW p \in Pushers, NEW posts \in Given, BeginPush(p, posts) PROVE PushInv'
    BY <2>1, BeginKeepsInv
  <2>2. ASSUME NEW p \in Pushers, BatchArrives(p) PROVE PushInv'
    BY <2>2, ArrivalKeepsInv
  <2>3. ASSUME NEW p \in Pushers, BatchRefused(p) \/ RequestFails(p) PROVE PushInv'
    BY <2>3, FailureKeepsInv
  <2>4. ASSUME NEW p \in Pushers, BatchAnswered(p) PROVE PushInv'
    <3>1. push[p].pc = "taken" /\ UNCHANGED << late, network >>
      BY <2>4 DEF BatchAnswered
    <3>2. PICK next \in WithNextBatch(Counted(push[p])) : push' = [push EXCEPT ![p] = next]
      BY <2>4 DEF BatchAnswered
    <3> QED
      BY <3>1, <3>2, AnswerKeepsInv
  <2>5. CASE BatchArrivesLate
    BY <2>5, LateKeepsInv
  <2>6. CASE UNCHANGED pushVars
    BY <2>6 DEF pushVars, PushInv, PushTypeOK, CutsAreExact, CountedOn, LateIsGiven
  <2> QED
    BY <2>1, <2>2, <2>3, <2>4, <2>5, <2>6 DEF PushNext, PushStep
<1> QED
  BY <1>1, <1>2, PTL DEF PushSpec

\* Only what the registry accepts is ever queued, sent or held for this agent.
THEOREM PushTypeCorrect == PushSpec => []PushTypeOK
<1>1. PushInv => PushTypeOK
  BY DEF PushInv
<1> QED
  BY <1>1, PushInvariance, PTL

\* The batches of a push cover its posts, in order and without overlap.
THEOREM BatchesCoverAll == PushSpec => []NothingSkipped
<1>1. PushInv => NothingSkipped
  <2> SUFFICES ASSUME PushInv, NEW p \in Pushers
               PROVE  push[p].given = SubSeq(push[p].given, 1, push[p].received)
                                        \o push[p].batch \o push[p].rest
    BY DEF NothingSkipped
  <2>1. push[p] \in Call /\ CutsAreExact(push[p])
    BY DEF PushInv, PushTypeOK
  <2> QED
    BY <2>1, CutsMakeUpAll
<1> QED
  BY <1>1, PushInvariance, PTL

\* What a push reports, finished or given up, is at the registry.
THEOREM ReportsAreTrue == PushSpec => []ReportedIsDelivered
<1>1. PushInv => ReportedIsDelivered
  BY DEF PushInv, CountedOn, ReportedIsDelivered
<1> QED
  BY <1>1, PushInvariance, PTL

-----------------------------------------------------------------------------
(* The promise is kept *)

\* The calls as their callers see them.
AbstractCall == [p \in Pushers |-> AsCalled(push[p])]

\* A step of the call p that its caller sees as `next`.
LEMMA AsSeen ==
  ASSUME push \in [Pushers -> Call], NEW p \in Pushers, NEW next,
         push' = [push EXCEPT ![p] = next]
  PROVE  AbstractCall' = [AbstractCall EXCEPT ![p] = AsCalled(next)]
BY DEF AbstractCall, AsCalled

LEMMA InitIsPromised ==
  ASSUME PushInit
  PROVE  Promise!PromiseInit
<1>1. Range(<< >>) = {}
  BY DEF Range
<1>2. AsCalled(NoCall) = [pc |-> "idle", posts |-> {}]
  BY <1>1 DEF AsCalled, NoCall
<1> QED
  BY <1>2 DEF PushInit, Promise!PromiseInit

\* push() is the promise's Begin with the posts it keeps.
LEMMA BeginIsPromised ==
  ASSUME PushInv, NEW p \in Pushers, NEW posts \in Given, BeginPush(p, posts)
  PROVE  \E some \in SUBSET Posts : Promise!Begin(p, some)
<1>0. PICK mapped \in KeepPushable(posts) :
        \E next \in WithNextBatch(NewCall(mapped)) : push' = [push EXCEPT ![p] = next]
  BY DEF BeginPush
<1>1. PICK next \in WithNextBatch(NewCall(mapped)) : push' = [push EXCEPT ![p] = next]
  BY <1>0
<1>2. push[p].pc = "idle" /\ network' = network /\ push \in [Pushers -> Call]
  BY DEF BeginPush, PushInv, PushTypeOK
<1>3. mapped \in Seq(Pushable) /\ Len(mapped) \in Nat /\ DOMAIN mapped = 1 .. Len(mapped)
  BY MappingIsPushable, LenProperties
<1> DEFINE c == NewCall(mapped)
<1>4. c \in Call /\ c.given = mapped /\ c.rest = mapped /\ c.received = 0
  BY <1>3, EmptySeq DEF NewCall, NoCall, Call
<1>5. /\ c.rest = SubSeq(c.given, c.received + 1, Len(c.given))
      /\ c.received + Len(c.rest) = Len(c.given)
  BY <1>3, <1>4, SubSeqFull
<1> HIDE DEF c
<1>6. /\ next.given = mapped /\ next.pc \in {"sending", "done"}
      /\ next.pc = "done" => mapped = << >>
      /\ next.pc = "sending" => mapped # << >>
  BY <1>1, <1>4, <1>5, NextBatchIsExact DEF c
<1> DEFINE some == Range(mapped)
<1>7. some \subseteq Pushable /\ (some = {} <=> mapped = << >>)
  <2>1. some \subseteq Pushable
    BY <1>3, ElementOfSeq DEF Range
  <2>2. mapped = << >> => some = {}
    BY DEF Range
  <2>3. mapped # << >> => some # {}
    <3>1. mapped # << >> => 1 \in DOMAIN mapped
      BY <1>3, EmptySeq
    <3> QED
      BY <3>1 DEF Range
  <2> QED
    BY <2>1, <2>2, <2>3
<1>8. AsCalled(next) = [pc |-> IF some \cap Pushable = {} THEN "done" ELSE "sending",
                        posts |-> some \cap Pushable]
  BY <1>6, <1>7 DEF AsCalled
<1>9. AbstractCall' = [AbstractCall EXCEPT ![p] = AsCalled(next)] /\ AbstractCall[p].pc = "idle"
  BY <1>1, <1>2, AsSeen DEF AbstractCall, AsCalled
<1> HIDE DEF some
<1>10. Promise!Begin(p, some)
  BY <1>2, <1>8, <1>9 DEF Promise!Begin, AbstractCall
<1>11. some \in SUBSET Posts
  BY <1>7, PushAssumption
<1> QED
  BY <1>10, <1>11

\* A batch arriving is the promise's Arrive.
LEMMA ArrivalIsPromised ==
  ASSUME PushInv, NEW p \in Pushers, BatchArrives(p)
  PROVE  Promise!Arrive(p)
<1>1. push[p] \in Call /\ CutsAreExact(push[p]) /\ push \in [Pushers -> Call]
  BY DEF PushInv, PushTypeOK
<1> DEFINE next == [push[p] EXCEPT !.pc = "taken",
                                   !.fresh = Cardinality(Range(push[p].batch) \ network)]
<1>2. /\ push[p].pc = "sending" /\ push' = [push EXCEPT ![p] = next]
      /\ network' = network \cup Range(push[p].batch)
  BY DEF BatchArrives
<1>3. AsCalled(next) = AsCalled(push[p])
  BY <1>1, <1>2 DEF AsCalled, Call
<1> HIDE DEF next
<1>4. AbstractCall' = AbstractCall
  BY <1>1, <1>2, <1>3, AsSeen DEF AbstractCall
<1>5. Range(push[p].batch) \in SUBSET AbstractCall[p].posts /\ AbstractCall[p].pc # "idle"
  BY <1>1, <1>2, BatchIsGiven DEF AbstractCall, AsCalled
<1> QED
  BY <1>2, <1>4, <1>5 DEF Promise!Arrive, AbstractCall

\* A request that fails ends the call as the promise's Throw does.
LEMMA FailureIsPromised ==
  ASSUME PushInv, NEW p \in Pushers, BatchRefused(p) \/ RequestFails(p)
  PROVE  Promise!Throw(p)
<1>1. push[p] \in Call /\ push \in [Pushers -> Call]
  BY DEF PushInv, PushTypeOK
<1> DEFINE next == [push[p] EXCEPT !.pc = "failed"]
<1>2. /\ push[p].pc \in {"sending", "taken"} /\ push' = [push EXCEPT ![p] = next]
      /\ network' = network
  BY DEF BatchRefused, RequestFails
<1>3. /\ AbstractCall[p] = AsCalled(push[p]) /\ AbstractCall[p].pc = "sending"
      /\ AsCalled(next) = [AbstractCall[p] EXCEPT !.pc = "failed"]
  BY <1>1, <1>2 DEF AbstractCall, AsCalled, Call
<1> HIDE DEF next
<1>4. AbstractCall' = [AbstractCall EXCEPT ![p] = AsCalled(next)]
  BY <1>1, <1>2, AsSeen
<1>5. AbstractCall' = [AbstractCall EXCEPT ![p].pc = "failed"]
  BY <1>3, <1>4
<1> QED
  BY <1>2, <1>3, <1>5 DEF Promise!Throw, AbstractCall

\* An answer is unseen, or the call returns with all its posts delivered.
LEMMA AnswerIsPromised ==
  ASSUME PushInv, NEW p \in Pushers, BatchAnswered(p)
  PROVE  Promise!Return(p) \/ UNCHANGED << AbstractCall, network >>
<1>1. push[p] \in Call /\ push \in [Pushers -> Call]
  BY DEF PushInv, PushTypeOK
<1>2. push[p].pc = "taken" /\ UNCHANGED << late, network >>
  BY DEF BatchAnswered
<1>3. PICK next \in WithNextBatch(Counted(push[p])) : push' = [push EXCEPT ![p] = next]
  BY DEF BatchAnswered
<1>4. /\ next.given = push[p].given /\ next.pc \in {"sending", "done"}
      /\ next.pc = "done" => Range(next.given) \subseteq network
  BY <1>2, <1>3, AnswerKeepsInv
<1>5. AbstractCall' = [AbstractCall EXCEPT ![p] = AsCalled(next)]
  BY <1>1, <1>3, AsSeen
<1>6. /\ AbstractCall[p] = [pc |-> "sending", posts |-> Range(push[p].given)]
      /\ AsCalled(next) = [pc |-> next.pc, posts |-> Range(push[p].given)]
  BY <1>2, <1>4 DEF AbstractCall, AsCalled
<1>7. CASE next.pc = "sending"
  <2>1. AbstractCall' = AbstractCall
    BY <1>5, <1>6, <1>7 DEF AbstractCall
  <2> QED
    BY <1>2, <2>1
<1>8. CASE next.pc = "done"
  <2>1. AsCalled(next) = [AbstractCall[p] EXCEPT !.pc = "done"]
    BY <1>6, <1>8
  <2>2. AbstractCall' = [AbstractCall EXCEPT ![p].pc = "done"]
    BY <1>5, <2>1
  <2> QED
    BY <1>2, <1>4, <1>6, <1>8, <2>2 DEF Promise!Return, AbstractCall
<1> QED
  BY <1>4, <1>7, <1>8

\* A late batch is the Arrive of the call it was cut from.
LEMMA LateIsPromised ==
  ASSUME PushInv, BatchArrivesLate
  PROVE  \E p \in Pushers : Promise!Arrive(p)
<1>1. PICK batch \in late :
        /\ network' = IF RegistryTakes(batch) THEN network \cup Range(batch) ELSE network
        /\ push' = push
  BY DEF BatchArrivesLate
<1>2. PICK p \in Pushers : push[p].pc # "idle" /\ Range(batch) \subseteq Range(push[p].given)
  BY <1>1 DEF PushInv, LateIsGiven
<1>3. AbstractCall' = AbstractCall
  BY <1>1 DEF AbstractCall
<1>4. AbstractCall[p].pc # "idle" /\ Range(batch) \in SUBSET AbstractCall[p].posts
  BY <1>2 DEF AbstractCall, AsCalled
<1>5. \E some \in SUBSET AbstractCall[p].posts : network' = network \cup some
  <2>1. CASE RegistryTakes(batch)
    BY <1>1, <1>4, <2>1
  <2>2. CASE ~RegistryTakes(batch)
    <3>1. {} \in SUBSET AbstractCall[p].posts /\ network' = network \cup {}
      BY <1>1, <2>2
    <3> QED
      BY <3>1
  <2> QED
    BY <2>1, <2>2
<1> QED
  BY <1>3, <1>4, <1>5 DEF Promise!Arrive, AbstractCall

\* push(), batches and failures included, does what the daemon and the commands
\* rely on.
THEOREM PushKeepsPromise == PushSpec => PushesAsPromised
<1>1. PushInit => Promise!PromiseInit
  BY InitIsPromised
<1>2. PushInv /\ [PushNext]_pushVars => [Promise!PromiseNext]_(Promise!promiseVars)
  <2> SUFFICES ASSUME PushInv, [PushNext]_pushVars
               PROVE  Promise!PromiseNext \/ UNCHANGED << AbstractCall, network >>
    BY DEF Promise!promiseVars, AbstractCall
  <2>1. ASSUME NEW p \in Pushers, NEW posts \in Given, BeginPush(p, posts)
        PROVE  Promise!PromiseNext
    BY <2>1, BeginIsPromised DEF Promise!PromiseNext
  <2>2. ASSUME NEW p \in Pushers, BatchArrives(p) PROVE Promise!PromiseNext
    BY <2>2, ArrivalIsPromised DEF Promise!PromiseNext
  <2>3. ASSUME NEW p \in Pushers, BatchRefused(p) \/ RequestFails(p)
        PROVE  Promise!PromiseNext
    BY <2>3, FailureIsPromised DEF Promise!PromiseNext
  <2>4. ASSUME NEW p \in Pushers, BatchAnswered(p)
        PROVE  Promise!PromiseNext \/ UNCHANGED << AbstractCall, network >>
    BY <2>4, AnswerIsPromised DEF Promise!PromiseNext
  <2>5. CASE BatchArrivesLate
    BY <2>5, LateIsPromised DEF Promise!PromiseNext
  <2>6. CASE UNCHANGED pushVars
    BY <2>6 DEF pushVars, AbstractCall
  <2> QED
    BY <2>1, <2>2, <2>3, <2>4, <2>5, <2>6 DEF PushNext, PushStep
<1> QED
  BY <1>1, <1>2, PushInvariance, PTL DEF PushSpec, PushesAsPromised, Promise!PromiseSpec

-----------------------------------------------------------------------------
(* What a request holds *)

\* A batch is cut so that the registry takes it, whatever the limits are.
LEMMA NextBatchIsTaken ==
  ASSUME NEW c \in Call, NEW next \in WithNextBatch(c), next.pc = "sending"
  PROVE  RegistryTakes(next.batch)
<1>1. c.rest \in Seq(Pushable) /\ Len(c.rest) \in Nat
  BY LenProperties DEF Call
<1>2. c.rest # << >>
  <2>1. SUFFICES ASSUME c.rest = << >> PROVE FALSE
    OBVIOUS
  <2>2. next = [c EXCEPT !.pc = "done", !.batch = << >>]
    BY <2>1 DEF WithNextBatch
  <2>3. next.pc = "done"
    BY <2>2 DEF Call
  <2> QED
    BY <2>3
<1>3. PICK n \in DOMAIN c.rest :
        /\ FillsBatch(n, c.rest)
        /\ next = [c EXCEPT !.pc = "sending", !.batch = SubSeq(c.rest, 1, n),
                            !.rest = SubSeq(c.rest, n + 1, Len(c.rest))]
  BY <1>2 DEF WithNextBatch
<1> DEFINE batch == SubSeq(c.rest, 1, n)
<1>4. n \in 1 .. Len(c.rest) /\ n \in Nat
  BY <1>1, <1>3, LenProperties
<1>5. next.batch = batch
  BY <1>3 DEF Call
<1>6. /\ batch \in Seq(Pushable) /\ Len(batch) = n
      /\ \A i \in 1 .. n : batch[i] = c.rest[i]
  <2>1. 1 \in Nat /\ 1 <= n + 1 /\ n <= Len(c.rest)
    BY ONLY <1>1, <1>4
  <2>2. /\ SubSeq(c.rest, 1, n) \in Seq(Pushable) /\ Len(SubSeq(c.rest, 1, n)) = n - 1 + 1
        /\ \A i \in 1 .. n - 1 + 1 : SubSeq(c.rest, 1, n)[i] = c.rest[1 + i - 1]
    BY ONLY <1>1, <1>4, <2>1, Cut
  <2> QED
    BY <1>4, <2>2
<1>7. Bytes(batch) <= BatchBytes \/ n = 1
  BY <1>3 DEF FillsBatch
<1> HIDE DEF batch
<1>8. DOMAIN batch = 1 .. n /\ \A i \in 1 .. n : batch[i] \in Pushable
  BY <1>6, ElementOfSeq, LenProperties
<1>9. Bytes(batch) \in Nat /\ (n = 1 => Bytes(batch) = PostBytes[batch[1]])
  <2> DEFINE f == [i \in DOMAIN batch |-> PostBytes[batch[i]]]
             dom == 1 .. n
  <2>1. f \in [dom -> Nat]
    BY <1>8, PushAssumption
  <2>2. IsFiniteSet(dom)
    BY <1>4, FS_Interval
  <2>3. Bytes(batch) = SumFunction(f)
    BY DEF Bytes
  <2>4. n = 1 => dom = {1} /\ f[1] = PostBytes[batch[1]]
    BY <1>8
  <2> HIDE DEF f, dom
  <2>5. SumFunction(f) \in Nat
    BY <2>1, <2>2, SumType
  <2>6. n = 1 => SumFunction(f) = f[1]
    BY <2>1, <2>4, SumOfOne
  <2> QED
    BY <2>3, <2>4, <2>5, <2>6
<1>10. Bytes(batch) <= RegistryBytes
  <2>1. CASE n = 1
    <3>1. batch[1] \in Pushable
      BY <1>8, <2>1
    <3> QED
      BY <1>9, <2>1, <3>1, PushAssumption
  <2>2. CASE Bytes(batch) <= BatchBytes
    BY <1>9, <2>2, PushAssumption
  <2> QED
    BY <1>7, <2>1, <2>2
<1>11. n <= BatchSize
  BY <1>3 DEF FillsBatch
<1> QED
  BY <1>5, <1>6, <1>8, <1>10, <1>11 DEF RegistryTakes

\* No request is refused for what it holds: the batches pushPosts cuts keep to
\* both limits, the single post that is over the batch limit included.
THEOREM RegistryTakesEveryBatch == PushSpec => []BatchesAreAcceptable
<1>1. PushInit => BatchesAreAcceptable
  BY DEF PushInit, BatchesAreAcceptable, NoCall
<1>2. PushInv /\ BatchesAreAcceptable /\ [PushNext]_pushVars => BatchesAreAcceptable'
  <2> SUFFICES ASSUME PushInv, BatchesAreAcceptable, [PushNext]_pushVars,
                      NEW p \in Pushers, (push[p].pc = "sending")'
               PROVE  RegistryTakes(push[p].batch)'
    BY DEF BatchesAreAcceptable
  <2>1. push[p] \in Call /\ push \in [Pushers -> Call]
    BY DEF PushInv, PushTypeOK
  <2>2. CASE push'[p] = push[p]
    BY <2>2 DEF BatchesAreAcceptable, RegistryTakes, Bytes
  <2>3. ASSUME NEW c \in Call, push'[p] \in WithNextBatch(c)
        PROVE  RegistryTakes(push[p].batch)'
    <3>1. RegistryTakes(push'[p].batch)
      BY <2>3, NextBatchIsTaken
    <3> QED
      BY <3>1 DEF RegistryTakes, Bytes
  <2>4. ASSUME NEW q \in Pushers, NEW posts \in Given, BeginPush(q, posts)
        PROVE  push'[p] = push[p] \/ \E c \in Call : push'[p] \in WithNextBatch(c)
    <3>1. PICK mapped \in KeepPushable(posts) :
            \E next \in WithNextBatch(NewCall(mapped)) : push' = [push EXCEPT ![q] = next]
      BY <2>4 DEF BeginPush
    <3>2. mapped \in Seq(Pushable)
      BY MappingIsPushable
    <3>3. NewCall(mapped) \in Call
      BY <3>2, EmptySeq DEF NewCall, NoCall, Call
    <3> QED
      BY <2>1, <3>1, <3>3
  <2>5. ASSUME NEW q \in Pushers, BatchArrives(q) \/ BatchRefused(q) \/ RequestFails(q)
        PROVE  push'[p] = push[p]
    <3>1. \E n : \E pc \in {"taken", "failed"} :
             \/ push' = [push EXCEPT ![q].pc = pc, ![q].fresh = n]
             \/ push' = [push EXCEPT ![q].pc = pc]
      BY <2>5 DEF BatchArrives, BatchRefused, RequestFails
    <3>2. q # p
      BY <2>1, <3>1 DEF Call
    <3> QED
      BY <2>1, <3>1, <3>2
  <2>6. ASSUME NEW q \in Pushers, BatchAnswered(q)
        PROVE  push'[p] = push[p] \/ \E c \in Call : push'[p] \in WithNextBatch(c)
    <3>1. PICK next \in WithNextBatch(Counted(push[q])) : push' = [push EXCEPT ![q] = next]
      BY <2>6 DEF BatchAnswered
    <3>2. Counted(push[q]) \in Call
      BY CountedIsCall DEF PushInv, PushTypeOK
    <3> QED
      BY <2>1, <3>1, <3>2
  <2>7. CASE BatchArrivesLate \/ UNCHANGED pushVars
    BY <2>2, <2>7 DEF BatchArrivesLate, pushVars
  <2> QED
    BY <2>2, <2>3, <2>4, <2>5, <2>6, <2>7 DEF PushNext, PushStep
<1> QED
  BY <1>1, <1>2, PushInvariance, PTL DEF PushSpec

-----------------------------------------------------------------------------
(* What is counted as accepted *)

\* What a call has counted, or will if the answer under way reaches it.
Claimed(c) == c.accepted + (IF c.pc = "taken" THEN c.fresh ELSE 0)

ClaimsOf(calls) == [p \in Pushers |-> Claimed(calls[p])]

Claims == ClaimsOf(push)

\* The posts that answers have called new, counted or still to be counted, were
\* new each time: together they are no more than the registry holds.
ClaimsInv ==
  /\ IsFiniteSet(network)
  /\ SumFunction(Claims) <= Cardinality(network)

LEMMA ClaimsType ==
  ASSUME NEW calls \in [Pushers -> Call]
  PROVE  /\ ClaimsOf(calls) \in [Pushers -> Nat]
         /\ SumFunction(ClaimsOf(calls)) \in Nat
<1>1. \A p \in Pushers : Claimed(calls[p]) \in Nat
  BY DEF Call, Claimed
<1>2. ClaimsOf(calls) \in [Pushers -> Nat]
  BY <1>1 DEF ClaimsOf
<1> QED
  BY <1>2, SumType, PushAssumption

\* What a step of one call does to the claims.
LEMMA ClaimsOfAStep ==
  ASSUME PushTypeOK, PushTypeOK', NEW p \in Pushers, NEW next,
         push' = [push EXCEPT ![p] = next]
  PROVE  /\ SumFunction(Claims) \in Nat /\ SumFunction(Claims') \in Nat
         /\ SumFunction(Claims') + Claimed(push[p]) = SumFunction(Claims) + Claimed(next)
<1>1. push \in [Pushers -> Call] /\ push' \in [Pushers -> Call]
  BY DEF PushTypeOK
<1>2. /\ Claims \in [Pushers -> Nat] /\ SumFunction(Claims) \in Nat
      /\ Claims' \in [Pushers -> Nat] /\ SumFunction(Claims') \in Nat
  BY <1>1, ClaimsType DEF Claims
<1>3. /\ Claims[p] = Claimed(push[p]) /\ Claims'[p] = Claimed(next)
      /\ \A q \in Pushers \ {p} : Claims'[q] = Claims[q]
  BY <1>1 DEF Claims, ClaimsOf
<1>4. SumFunction(Claims') + Claims[p] = SumFunction(Claims) + Claims'[p]
  <2>1. PICK old, new : old = Claims /\ new = Claims'
    OBVIOUS
  <2>2. /\ old \in [Pushers -> Nat] /\ new \in [Pushers -> Nat]
        /\ \A q \in Pushers \ {p} : new[q] = old[q]
    BY <1>2, <1>3, <2>1
  <2>3. IsFiniteSet(Pushers)
    BY PushAssumption
  <2>4. SumFunction(new) + old[p] = SumFunction(old) + new[p]
    BY <2>2, <2>3, SumChanged
  <2> QED
    BY <2>1, <2>4
<1> QED
  BY <1>2, <1>3, <1>4

LEMMA InitHasNoClaims ==
  ASSUME PushInit
  PROVE  ClaimsInv
<1>1. PushTypeOK
  BY InitEstablishesInv DEF PushInv
<1>2. Claims \in [Pushers -> Nat]
  BY <1>1, ClaimsType DEF Claims, PushTypeOK
<1>3. \A p \in Pushers : Claims[p] = 0
  BY DEF PushInit, NoCall, Claims, ClaimsOf, Claimed
<1>4. SumFunction(Claims) = 0
  <2>1. Pushers \in SUBSET Pushers /\ IsFiniteSet(Pushers)
    BY PushAssumption
  <2>2. SumFunctionOnSet(Claims, Pushers) = 0
    BY <1>2, <1>3, <2>1, SumOfZeros
  <2> QED
    BY <1>2, <2>2 DEF SumFunction
<1>5. IsFiniteSet({}) /\ Cardinality({}) = 0
  BY FS_EmptySet
<1> QED
  BY <1>4, <1>5 DEF PushInit, ClaimsInv

\* A step of a call that claims no more than before.
LEMMA NoNewClaims ==
  ASSUME PushTypeOK, PushTypeOK', ClaimsInv, NEW p \in Pushers, NEW next \in Call,
         push' = [push EXCEPT ![p] = next], network' = network,
         Claimed(next) <= Claimed(push[p])
  PROVE  ClaimsInv'
<1>1. SumFunction(Claims') + Claimed(push[p]) = SumFunction(Claims) + Claimed(next)
  BY ClaimsOfAStep
<1>2. SumFunction(Claims) \in Nat /\ SumFunction(Claims') \in Nat
  BY ClaimsOfAStep
<1>3. Claimed(push[p]) \in Nat /\ Claimed(next) \in Nat
  BY DEF PushTypeOK, Call, Claimed
<1>4. IsFiniteSet(network) /\ Cardinality(network) \in Nat /\ SumFunction(Claims) <= Cardinality(network)
  BY FS_CardinalityType DEF ClaimsInv
<1>5. SumFunction(Claims') <= Cardinality(network)
  BY <1>1, <1>2, <1>3, <1>4
<1> QED
  BY <1>4, <1>5 DEF ClaimsInv

\* A next batch claims nothing by itself.
LEMMA NextBatchClaimsNothing ==
  ASSUME NEW c \in Call, NEW next \in WithNextBatch(c)
  PROVE  Claimed(next) = c.accepted
<1>1. next.accepted = c.accepted /\ next.pc \in {"done", "sending"}
  BY DEF WithNextBatch, Call
<1> QED
  BY <1>1 DEF Claimed, Call

LEMMA ArrivalClaims ==
  ASSUME PushTypeOK, PushTypeOK', ClaimsInv, NEW p \in Pushers, BatchArrives(p)
  PROVE  ClaimsInv'
<1> DEFINE new == Range(push[p].batch) \ network
           next == [push[p] EXCEPT !.pc = "taken", !.fresh = Cardinality(new)]
<1>1. push[p] \in Call /\ push[p].pc = "sending" /\ push' = [push EXCEPT ![p] = next]
      /\ network' = network \cup new
  BY DEF PushTypeOK, BatchArrives
<1>2. IsFiniteSet(new)
  <2>1. push[p].batch \in Seq(Pushable)
    BY <1>1 DEF Call
  <2> DEFINE batch == push[p].batch
  <2>2. DOMAIN batch = 1 .. Len(batch) /\ Len(batch) \in Nat
    BY <2>1, LenProperties
  <2>3. IsFiniteSet(1 .. Len(batch))
    <3>1. 1 \in Int /\ Len(batch) \in Int
      BY <2>2
    <3> QED
      BY ONLY <3>1, FS_Interval
  <2>4. batch \in Surjection(1 .. Len(batch), Range(batch))
    BY <2>1, <2>2 DEF Range, Surjection
  <2>5. IsFiniteSet(Range(batch))
    BY ONLY <2>3, <2>4, FS_Surjection
  <2> QED
    BY <2>5, FS_Difference
<1>3. Cardinality(new) \in Nat
  BY <1>2, FS_CardinalityType
<1>4. /\ IsFiniteSet(network) /\ Cardinality(network) \in Nat
      /\ SumFunction(Claims) <= Cardinality(network)
  BY FS_CardinalityType DEF ClaimsInv
<1>5. /\ IsFiniteSet(network \cup new)
      /\ Cardinality(network \cup new) = Cardinality(network) + Cardinality(new)
  <2>1. network \cap new = {}
    OBVIOUS
  <2> HIDE DEF new
  <2>2. /\ IsFiniteSet(network \cup new)
        /\ Cardinality(network \cup new)
             = Cardinality(network) + Cardinality(new) - Cardinality(network \cap new)
    BY <1>2, <1>4, FS_Union
  <2> QED
    BY <1>3, <1>4, <2>1, <2>2, FS_EmptySet
<1>6. Claimed(push[p]) = push[p].accepted /\ Claimed(next) = push[p].accepted + Cardinality(new)
  <2>1. next.pc = "taken" /\ next.fresh = Cardinality(new) /\ next.accepted = push[p].accepted
    BY <1>1 DEF Call
  <2>2. push[p].accepted \in Nat
    BY <1>1 DEF Call
  <2> QED
    BY <1>1, <2>1, <2>2 DEF Claimed
<1>7. push[p].accepted \in Nat
  BY <1>1 DEF Call
<1> HIDE DEF next, new
<1>8. /\ SumFunction(Claims) \in Nat /\ SumFunction(Claims') \in Nat
      /\ SumFunction(Claims') + Claimed(push[p]) = SumFunction(Claims) + Claimed(next)
  BY <1>1, ClaimsOfAStep
<1>9. SumFunction(Claims') <= Cardinality(network \cup new)
  BY <1>3, <1>4, <1>5, <1>6, <1>7, <1>8
<1> QED
  BY <1>1, <1>5, <1>9 DEF ClaimsInv

\* A batch that arrives late makes the network larger, and claims nothing.
LEMMA LateClaims ==
  ASSUME PushTypeOK, ClaimsInv, BatchArrivesLate
  PROVE  ClaimsInv'
<1>1. PICK batch \in late :
        network' = IF RegistryTakes(batch) THEN network \cup Range(batch) ELSE network
  BY DEF BatchArrivesLate
<1>2. IsFiniteSet(Range(batch))
  <2>1. batch \in Seq(Pushable)
    BY DEF PushTypeOK
  <2>2. DOMAIN batch = 1 .. Len(batch) /\ Len(batch) \in Nat
    BY <2>1, LenProperties
  <2>3. IsFiniteSet(1 .. Len(batch))
    <3>1. 1 \in Int /\ Len(batch) \in Int
      BY <2>2
    <3> QED
      BY ONLY <3>1, FS_Interval
  <2>4. batch \in Surjection(1 .. Len(batch), Range(batch))
    BY <2>1, <2>2 DEF Range, Surjection
  <2> QED
    BY ONLY <2>3, <2>4, FS_Surjection
<1>3. IsFiniteSet(network) /\ IsFiniteSet(network \cup Range(batch))
  BY <1>2, FS_Union DEF ClaimsInv
<1>4. IsFiniteSet(network') /\ network \subseteq network'
  BY <1>1, <1>3
<1>5. Cardinality(network) <= Cardinality(network')
  BY <1>4, FS_Subset
<1>6. Claims' = Claims
  BY DEF BatchArrivesLate, Claims
<1>7. Cardinality(network) \in Nat /\ Cardinality(network') \in Nat
  BY <1>3, <1>4, FS_CardinalityType
<1>8. SumFunction(Claims) \in Nat
  BY ClaimsType DEF PushTypeOK, Claims
<1> QED
  BY <1>4, <1>5, <1>6, <1>7, <1>8 DEF ClaimsInv

\* However the pushes, the late requests and the lost answers interleave, the
\* new posts the callers are told of are no more than the registry has taken.
THEOREM NothingAcceptedTwice == PushSpec => []AcceptedOnce
<1>1. PushInit => ClaimsInv
  BY InitHasNoClaims
<1>2. PushInv /\ PushInv' /\ ClaimsInv /\ [PushNext]_pushVars => ClaimsInv'
  <2> SUFFICES ASSUME PushInv, PushInv', ClaimsInv, [PushNext]_pushVars PROVE ClaimsInv'
    OBVIOUS
  <2>1. PushTypeOK /\ PushTypeOK'
    BY DEF PushInv
  <2>2. ASSUME NEW p \in Pushers, NEW posts \in Given, BeginPush(p, posts)
        PROVE  ClaimsInv'
    <3>1. PICK mapped \in KeepPushable(posts) :
            \E next \in WithNextBatch(NewCall(mapped)) : push' = [push EXCEPT ![p] = next]
      BY <2>2 DEF BeginPush
    <3>2. PICK next \in WithNextBatch(NewCall(mapped)) : push' = [push EXCEPT ![p] = next]
      BY <3>1
    <3>3. mapped \in Seq(Pushable)
      BY MappingIsPushable
    <3>4. NewCall(mapped) \in Call /\ NewCall(mapped).accepted = 0
      BY <3>3, EmptySeq DEF NewCall, NoCall, Call
    <3>5. Claimed(next) = 0
      BY <3>4, NextBatchClaimsNothing
    <3>6. next \in Call /\ Claimed(push[p]) \in Nat
      <4>1. push'[p] = next /\ push[p] \in Call
        BY <2>1, <3>2 DEF PushTypeOK
      <4> QED
        BY <2>1, <4>1 DEF PushTypeOK, Call, Claimed
    <3>7. network' = network
      BY <2>2 DEF BeginPush
    <3>8. Claimed(next) <= Claimed(push[p])
      BY <3>5, <3>6
    <3> QED
      BY <2>1, <3>2, <3>6, <3>7, <3>8, NoNewClaims
  <2>3. ASSUME NEW p \in Pushers, BatchArrives(p) PROVE ClaimsInv'
    BY <2>1, <2>3, ArrivalClaims
  <2>4. ASSUME NEW p \in Pushers, BatchRefused(p) \/ RequestFails(p) PROVE ClaimsInv'
    <3> DEFINE next == [push[p] EXCEPT !.pc = "failed"]
    <3>1. push[p] \in Call /\ push' = [push EXCEPT ![p] = next] /\ network' = network
      BY <2>1, <2>4 DEF PushTypeOK, BatchRefused, RequestFails
    <3>2. next \in Call /\ next.pc = "failed" /\ next.accepted = push[p].accepted
      BY <3>1 DEF Call
    <3> HIDE DEF next
    <3>3. Claimed(next) <= Claimed(push[p])
      BY <3>1, <3>2 DEF Claimed, Call
    <3> QED
      BY <2>1, <3>1, <3>2, <3>3, NoNewClaims
  <2>5. ASSUME NEW p \in Pushers, BatchAnswered(p) PROVE ClaimsInv'
    <3>1. PICK next \in WithNextBatch(Counted(push[p])) : push' = [push EXCEPT ![p] = next]
      BY <2>5 DEF BatchAnswered
    <3>2. push[p] \in Call /\ push[p].pc = "taken" /\ network' = network
      BY <2>1, <2>5 DEF PushTypeOK, BatchAnswered
    <3>3. Counted(push[p]) \in Call /\ Counted(push[p]).accepted = push[p].accepted + push[p].fresh
      BY <3>2, CountedIsCall DEF Counted, Call
    <3>4. Claimed(next) = Claimed(push[p])
      BY <3>2, <3>3, NextBatchClaimsNothing DEF Claimed
    <3>5. next \in Call /\ Claimed(push[p]) \in Nat
      <4>1. push'[p] = next
        BY <2>1, <3>1 DEF PushTypeOK
      <4> QED
        BY <2>1, <3>2, <4>1 DEF PushTypeOK, Call, Claimed
    <3>6. Claimed(next) <= Claimed(push[p])
      BY <3>4, <3>5
    <3> QED
      BY <2>1, <3>1, <3>2, <3>5, <3>6, NoNewClaims
  <2>6. CASE BatchArrivesLate
    BY <2>1, <2>6, LateClaims
  <2>7. CASE UNCHANGED pushVars
    BY <2>7 DEF pushVars, ClaimsInv, Claims
  <2> QED
    BY <2>2, <2>3, <2>4, <2>5, <2>6, <2>7 DEF PushNext, PushStep
<1>3. PushInv /\ ClaimsInv => AcceptedOnce
  <2> SUFFICES ASSUME PushInv, ClaimsInv PROVE AcceptedOnce
    OBVIOUS
  <2> DEFINE accepted == [p \in Pushers |-> push[p].accepted]
  <2>1. PushTypeOK /\ \A p \in Pushers : push[p] \in Call
    BY DEF PushInv, PushTypeOK
  <2>2. accepted \in [Pushers -> Nat] /\ DOMAIN accepted = Pushers
    BY <2>1 DEF Call
  <2>3. Claims \in [Pushers -> Nat] /\ DOMAIN Claims = Pushers
    BY ClaimsType DEF PushInv, PushTypeOK, Claims, ClaimsOf
  <2>4. \A p \in Pushers : accepted[p] <= Claims[p]
    BY <2>1 DEF Claims, ClaimsOf, Claimed, Call
  <2>5. AcceptedOnce <=> SumFunction(accepted) <= Cardinality(network)
    BY DEF AcceptedOnce
  <2> HIDE DEF accepted
  <2>6. Pushers \in SUBSET Pushers
    OBVIOUS
  <2>7. SumFunctionOnSet(accepted, Pushers) <= SumFunctionOnSet(Claims, Pushers)
    BY <2>2, <2>3, <2>4, <2>6, SumMonotone, PushAssumption
  <2>8. SumFunctionOnSet(accepted, Pushers) \in Nat /\ SumFunctionOnSet(Claims, Pushers) \in Nat
    BY <2>2, <2>3, <2>6, SumFacts, PushAssumption DEF AddsUp
  <2>9. SumFunction(accepted) <= SumFunction(Claims)
    BY <2>2, <2>3, <2>7 DEF SumFunction
  <2>10. /\ SumFunction(accepted) \in Nat /\ SumFunction(Claims) \in Nat
         /\ Cardinality(network) \in Nat /\ SumFunction(Claims) <= Cardinality(network)
    BY <2>2, <2>3, <2>8, FS_CardinalityType DEF SumFunction, ClaimsInv
  <2> QED
    BY <2>5, <2>9, <2>10
<1> QED
  BY <1>1, <1>2, <1>3, PushInvariance, PTL DEF PushSpec
=============================================================================
