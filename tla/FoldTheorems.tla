---------------------------- MODULE FoldTheorems ----------------------------
(***************************************************************************)
(* Induction over the naturals, and what the folds of the community        *)
(* modules compute.  The library states these facts about an operator that *)
(* is a parameter, which no prover at hand can instantiate; here a set or  *)
(* a function takes its place.                                             *)
(***************************************************************************)
EXTENDS Naturals, FiniteSets, FiniteSetsExt, Functions, FiniteSetTheorems, WellFoundedInduction, TLAPS

\* A set of naturals that is not empty has a least member.
LEMMA Least ==
  ASSUME NEW T \in SUBSET Nat, T # {}
  PROVE  \E n \in T : \A k \in T : n <= k
<1> DEFINE U == { 0 .. n : n \in T }
<1>1. U \subseteq FiniteSubsetsOf(Nat) /\ U # {}
  <2>1. \A n \in T : IsFiniteSet(0 .. n)
    BY FS_Interval
  <2>2. \A n \in T : 0 .. n \subseteq Nat
    OBVIOUS
  <2>3. QED
    BY <2>1, <2>2 DEF FiniteSubsetsOf
<1>2. PICK x \in U : \A y \in U : ~ (<< y, x >> \in StrictSubsetOrdering(Nat))
  <2> HIDE DEF U
  <2> QED
    BY <1>1, FS_StrictSubsetOrderingWellFounded, WFMin
<1>3. PICK n \in T : x = 0 .. n
  OBVIOUS
<1>4. ASSUME NEW k \in T PROVE n <= k
  <2>1. SUFFICES ASSUME k < n PROVE FALSE
    OBVIOUS
  <2>2. 0 .. k \subseteq 0 .. n /\ 0 .. k # 0 .. n
    <3>1. n \in 0 .. n /\ n \notin 0 .. k
      BY <2>1
    <3>2. QED
      BY <2>1, <3>1
  <2>3. 0 .. k \in U /\ 0 .. k \in SUBSET Nat /\ 0 .. n \in SUBSET Nat
    OBVIOUS
  <2>4. << 0 .. k, 0 .. n >> \in StrictSubsetOrdering(Nat)
    <3> DEFINE lo == 0 .. k
               hi == 0 .. n
    <3>1. lo \in SUBSET Nat /\ hi \in SUBSET Nat /\ lo \subseteq hi /\ lo # hi
      BY <2>2, <2>3
    <3> HIDE DEF lo, hi
    <3>2. << lo, hi >> \in StrictSubsetOrdering(Nat)
      BY <3>1 DEF StrictSubsetOrdering
    <3>3. QED
      BY <3>2 DEF lo, hi
  <2>5. QED
    BY <1>2, <1>3, <2>3, <2>4
<1>5. QED
  BY <1>4

\* Induction, with a set in the place of a predicate.
LEMMA SetInduction ==
  ASSUME NEW S, 0 \in S, \A n \in Nat : n \in S => n + 1 \in S
  PROVE  Nat \subseteq S
<1>1. SUFFICES ASSUME Nat \ S # {} PROVE FALSE
  OBVIOUS
<1>2. PICK n \in Nat \ S : \A k \in Nat \ S : n <= k
  BY <1>1, Least
<1>3. n # 0 /\ n - 1 \in Nat /\ n = (n - 1) + 1
  BY <1>2
<1>4. n - 1 \in S
  BY <1>2, <1>3
<1>5. QED
  BY <1>2, <1>3, <1>4

\* Induction up to a bound.
LEMMA BoundedInduction ==
  ASSUME NEW m \in Nat, NEW S, 0 \in S, \A n \in 0 .. m : n \in S /\ n + 1 <= m => n + 1 \in S
  PROVE  0 .. m \subseteq S
<1> DEFINE T == { n \in Nat : n <= m => n \in S }
<1>1. 0 \in T
  OBVIOUS
<1>2. ASSUME NEW n \in Nat, n \in T PROVE n + 1 \in T
  BY <1>2
<1>3. Nat \subseteq T
  <2> HIDE DEF T
  <2> QED
    BY <1>1, <1>2, SetInduction
<1>4. QED
  BY <1>3

\* Max of the community modules, on sets of numbers up to a bound.
LEMMA MaxUpTo ==
  ASSUME NEW m \in Nat, NEW s \in SUBSET (1 .. m), s # {}
  PROVE  Max(s) \in s /\ \A x \in s : x <= Max(s)
<1> DEFINE T == { n \in Nat : \A x \in s : x <= n }
<1>1. T \in SUBSET Nat /\ m \in T
  OBVIOUS
<1>2. PICK n \in T : \A k \in T : n <= k
  <2> HIDE DEF T
  <2> QED
    BY <1>1, Least
<1>3. n \in s
  <2>1. SUFFICES ASSUME n \notin s PROVE FALSE
    OBVIOUS
  <2>2. PICK x \in s : TRUE
    OBVIOUS
  <2>3. n # 0 /\ n - 1 \in Nat
    BY <2>2
  <2>4. \A y \in s : y <= n - 1
    BY <2>1, <2>3
  <2>5. QED
    BY <1>2, <2>3, <2>4
<1>4. \E x \in s : \A y \in s : x >= y
  BY <1>3
<1>5. Max(s) \in s /\ \A y \in s : Max(s) >= y
  BY <1>4 DEF Max
<1>6. QED
  BY <1>5

LEMMA MaxOfInterval ==
  ASSUME NEW m \in Nat, NEW k \in 0 .. m, k + 1 <= m
  PROVE  Max(1 .. k + 1) = k + 1 /\ (1 .. k + 1) \ {k + 1} = 1 .. k
<1>1. 1 .. k + 1 \in SUBSET (1 .. m) /\ k + 1 \in 1 .. k + 1
  OBVIOUS
<1>2. Max(1 .. k + 1) \in 1 .. k + 1 /\ k + 1 <= Max(1 .. k + 1)
  <2> DEFINE s == 1 .. k + 1
  <2>1. s \in SUBSET (1 .. m) /\ k + 1 \in s
    OBVIOUS
  <2> HIDE DEF s
  <2>2. Max(s) \in s /\ k + 1 <= Max(s)
    BY <2>1, MaxUpTo
  <2>3. QED
    BY <2>2 DEF s
<1>3. QED
  BY <1>2

\* A choice of a member for every set, and the recursion of a fold that takes
\* the members of S one after the other, as it is chosen.
Picks(S, pick) == \A s \in SUBSET S : s # {} => pick[s] \in s

Recurs(S, base, pick, op, g) ==
  \A s \in SUBSET S : g[s] = IF s = {} THEN base ELSE op[<< pick[s], g[s \ {pick[s]}] >>]

\* What a fold recurs on exists.
LEMMA Recursion ==
  ASSUME NEW S, IsFiniteSet(S), NEW V, NEW base, base \in V, NEW pick, Picks(S, pick),
         NEW op, op \in [S \X V -> V]
  PROVE  \E g : g \in [SUBSET S -> V] /\ Recurs(S, base, pick, op, g)
<1> DEFINE Small(n) == { s \in SUBSET S : Cardinality(s) <= n }
           At(g, s) == g[s] = IF s = {} THEN base ELSE op[<< pick[s], g[s \ {pick[s]}] >>]
           Reached(n) == \E g \in [Small(n) -> V] : \A s \in Small(n) : At(g, s)
           Good == { n \in Nat : Reached(n) }
<1>0. \A s \in SUBSET S : s # {} => pick[s] \in s
  BY DEF Picks
<1>1. \A s \in SUBSET S : IsFiniteSet(s) /\ Cardinality(s) \in Nat /\ Cardinality(s) <= Cardinality(S)
  BY FS_Subset, FS_CardinalityType
<1>2. \A s \in SUBSET S : Cardinality(s) = 0 <=> s = {}
  BY <1>1, FS_EmptySet
<1>3. \A s \in SUBSET S : s # {} =>
        /\ s \ {pick[s]} \in SUBSET S
        /\ Cardinality(s \ {pick[s]}) = Cardinality(s) - 1
  BY <1>0, <1>1, FS_RemoveElement
<1>4. 0 \in Good
  <2>1. \A s \in Small(0) : s = {}
    BY <1>1, <1>2
  <2>2. [s \in Small(0) |-> base] \in [Small(0) -> V]
    OBVIOUS
  <2>3. QED
    BY <2>1, <2>2
<1>5. ASSUME NEW n \in Nat, n \in Good
      PROVE  n + 1 \in Good
  <2>1. PICK g \in [Small(n) -> V] : \A s \in Small(n) : At(g, s)
    BY <1>5
  <2> DEFINE h == [s \in Small(n + 1) |->
                     IF s = {} THEN base ELSE op[<< pick[s], g[s \ {pick[s]}] >>]]
  <2>2. \A s \in Small(n + 1) : s # {} => s \ {pick[s]} \in Small(n)
    BY <1>1, <1>3
  <2>3. h \in [Small(n + 1) -> V]
    <3>1. ASSUME NEW s \in Small(n + 1), s # {}
          PROVE  op[<< pick[s], g[s \ {pick[s]}] >>] \in V
      <4>1. g[s \ {pick[s]}] \in V /\ pick[s] \in S
        BY <1>0, <2>2, <3>1
      <4>2. QED
        BY <4>1
    <3>2. QED
      BY <3>1
  <2>4. ASSUME NEW s \in Small(n) PROVE s \in Small(n + 1) /\ h[s] = g[s]
    <3>1. s \in Small(n + 1)
      BY <1>1
    <3>2. QED
      BY <2>1, <3>1
  <2>5. ASSUME NEW s \in Small(n + 1) PROVE At(h, s)
    BY <2>2, <2>4
  <2>6. Reached(n + 1)
    <3> HIDE DEF h, Small, At
    <3> QED
      BY <2>3, <2>5
  <2>7. QED
    <3> HIDE DEF Reached
    <3> QED
      BY <2>6
<1>6. Cardinality(S) \in Good
  <2>1. Nat \subseteq Good
    <3> HIDE DEF Good
    <3> QED
      BY <1>4, <1>5, SetInduction
  <2>2. QED
    BY <1>1, <2>1
<1>7. Small(Cardinality(S)) = SUBSET S
  BY <1>1
<1>8. QED
  BY <1>6, <1>7 DEF Recurs
-----------------------------------------------------------------------------
(* Sums *)

\* The recursion of a sum over a finite set, which takes the members as they
\* are chosen.
Adds(S, f, pick, g) ==
  \A s \in SUBSET S : g[s] = IF s = {} THEN 0 ELSE f[pick[s]] + g[s \ {pick[s]}]

\* What the recursion computes does not depend on which function of it is taken.
LEMMA AddsOnce ==
  ASSUME NEW S, IsFiniteSet(S), NEW f, NEW pick, Picks(S, pick),
         NEW g, NEW h, Adds(S, f, pick, g), Adds(S, f, pick, h)
  PROVE  \A s \in SUBSET S : g[s] = h[s]
<1> DEFINE Same == { n \in Nat : \A s \in SUBSET S : Cardinality(s) <= n => g[s] = h[s] }
<1>1. \A s \in SUBSET S : IsFiniteSet(s) /\ Cardinality(s) \in Nat /\ (Cardinality(s) = 0 <=> s = {})
  BY FS_Subset, FS_CardinalityType, FS_EmptySet
<1>2. \A s \in SUBSET S : s # {} =>
        /\ pick[s] \in s /\ s \ {pick[s]} \in SUBSET S
        /\ Cardinality(s \ {pick[s]}) = Cardinality(s) - 1
  BY <1>1, FS_RemoveElement DEF Picks
<1>3. 0 \in Same
  <2>1. \A s \in SUBSET S : Cardinality(s) <= 0 => s = {}
    BY <1>1
  <2>2. g[{}] = 0 /\ h[{}] = 0
    BY DEF Adds
  <2>3. QED
    BY <2>1, <2>2
<1>4. ASSUME NEW n \in Nat, n \in Same
      PROVE  n + 1 \in Same
  <2>1. ASSUME NEW s \in SUBSET S, Cardinality(s) <= n + 1, s # {}
        PROVE  g[s] = h[s]
    <3>1. s \ {pick[s]} \in SUBSET S /\ Cardinality(s \ {pick[s]}) <= n
      BY <1>1, <1>2, <2>1
    <3>2. g[s \ {pick[s]}] = h[s \ {pick[s]}]
      BY <1>4, <3>1
    <3>3. QED
      BY <2>1, <3>2 DEF Adds
  <2>2. g[{}] = h[{}]
    BY DEF Adds
  <2>3. QED
    BY <2>1, <2>2
<1>5. Nat \subseteq Same
  <2> HIDE DEF Same
  <2>1. QED
    BY <1>3, <1>4, SetInduction
<1>6. QED
  BY <1>1, <1>5

\* The sum of the community modules, over any part of a finite domain.
IsSumOf(S, f, g) ==
  /\ g \in [SUBSET S -> Nat]
  /\ g[{}] = 0
  /\ \A s \in SUBSET S : s # {} => \E x \in s : g[s] = f[x] + g[s \ {x}]
  /\ \A s \in SUBSET S : SumFunctionOnSet(f, s) = g[s]

LEMMA SumRecurs ==
  ASSUME NEW S, IsFiniteSet(S), NEW f \in [S -> Nat]
  PROVE  \E g : IsSumOf(S, f, g)
<1> DEFINE pick == [s \in SUBSET S |-> CHOOSE x \in s : TRUE]
           op == [q \in S \X Nat |-> f[q[1]] + q[2]]
<1>1. Picks(S, pick)
  BY DEF Picks
<1>2. op \in [S \X Nat -> Nat]
  OBVIOUS
<1>3. PICK g : g \in [SUBSET S -> Nat] /\ Recurs(S, 0, pick, op, g)
  <2> HIDE DEF pick, op
  <2>1. 0 \in Nat
    OBVIOUS
  <2>2. QED
    BY <1>1, <1>2, <2>1, Recursion
<1>4. g[{}] = 0
  BY <1>3 DEF Recurs
<1>5. ASSUME NEW s \in SUBSET S, s # {}
      PROVE  /\ pick[s] \in s /\ pick[s] = CHOOSE x \in s : TRUE
             /\ g[s] = f[pick[s]] + g[s \ {pick[s]}]
  <2>1. pick[s] \in s /\ pick[s] = CHOOSE x \in s : TRUE
    BY <1>1, <1>5 DEF Picks
  <2>2. g[s] = op[<< pick[s], g[s \ {pick[s]}] >>]
    BY <1>3, <1>5 DEF Recurs
  <2>3. << pick[s], g[s \ {pick[s]}] >> \in S \X Nat
    BY <1>3, <2>1
  <2>4. QED
    BY <2>1, <2>2, <2>3
<1>6. ASSUME NEW T \in SUBSET S
      PROVE  SumFunctionOnSet(f, T) = g[T]
  <2> DEFINE Step(i) == [s \in SUBSET T |->
                           IF s = {} THEN 0
                           ELSE f[CHOOSE x \in s : TRUE] + i[s \ {CHOOSE x \in s : TRUE}]]
             sum == CHOOSE i : i = Step(i)
             part == [s \in SUBSET T |-> g[s]]
  <2>1. SumFunctionOnSet(f, T) = sum[T]
    BY DEF SumFunctionOnSet, FoldFunctionOnSet, MapThenFoldSet
  <2>2. part = Step(part)
    <3>1. ASSUME NEW s \in SUBSET T, s # {}
          PROVE  part[s] = f[CHOOSE x \in s : TRUE] + part[s \ {CHOOSE x \in s : TRUE}]
      <4>1. s \in SUBSET S /\ s \ {CHOOSE x \in s : TRUE} \in SUBSET T
        OBVIOUS
      <4>2. QED
        BY <1>5, <3>1, <4>1
    <3>2. part[{}] = 0
      BY <1>4
    <3> QED
      BY <3>1, <3>2
  <2>3. sum = Step(sum)
    <3> HIDE DEF Step, part
    <3> QED
      BY <2>2
  <2>4. Adds(T, f, pick, part) /\ Adds(T, f, pick, sum)
    <3> HIDE DEF sum, part
    <3>1. ASSUME NEW s \in SUBSET T
          PROVE  /\ part[s] = IF s = {} THEN 0 ELSE f[pick[s]] + part[s \ {pick[s]}]
                 /\ sum[s] = IF s = {} THEN 0 ELSE f[pick[s]] + sum[s \ {pick[s]}]
      <4>1. s \in SUBSET S /\ pick[s] = CHOOSE x \in s : TRUE
        OBVIOUS
      <4> HIDE DEF pick
      <4> QED
        BY <2>2, <2>3, <4>1
    <3> HIDE DEF pick
    <3> QED
      BY <3>1 DEF Adds
  <2>5. IsFiniteSet(T) /\ Picks(T, pick)
    <3>1. Picks(T, pick)
      <4> HIDE DEF pick
      <4> QED
        BY <1>1 DEF Picks
    <3>2. QED
      BY <3>1, FS_Subset
  <2>6. part[T] = sum[T]
    <3> HIDE DEF part, sum, pick
    <3> QED
      BY <2>4, <2>5, AddsOnce
  <2> QED
    BY <2>1, <2>6
<1>7. QED
  BY <1>3, <1>4, <1>5, <1>6 DEF IsSumOf

\* The order in which the members are added does not matter.
AddsUp(S, f) ==
  /\ SumFunctionOnSet(f, {}) = 0
  /\ \A s \in SUBSET S : SumFunctionOnSet(f, s) \in Nat
  /\ \A s \in SUBSET S : \A x \in s :
       SumFunctionOnSet(f, s) = f[x] + SumFunctionOnSet(f, s \ {x})

LEMMA SumFacts ==
  ASSUME NEW S, IsFiniteSet(S), NEW f \in [S -> Nat]
  PROVE  AddsUp(S, f)
<1>0. PICK g : IsSumOf(S, f, g)
  BY SumRecurs
<1>1. /\ g \in [SUBSET S -> Nat]
      /\ g[{}] = 0
      /\ \A s \in SUBSET S : s # {} => \E x \in s : g[s] = f[x] + g[s \ {x}]
      /\ \A s \in SUBSET S : SumFunctionOnSet(f, s) = g[s]
  BY <1>0 DEF IsSumOf
<1> DEFINE AnyOrder(s) == \A x \in s : g[s] = f[x] + g[s \ {x}]
           Good == { n \in Nat : \A s \in SUBSET S : Cardinality(s) <= n => AnyOrder(s) }
<1>2. \A s \in SUBSET S : IsFiniteSet(s) /\ Cardinality(s) \in Nat /\ (Cardinality(s) = 0 <=> s = {})
  BY FS_Subset, FS_CardinalityType, FS_EmptySet
<1>3. \A s \in SUBSET S : \A x \in s :
        s \ {x} \in SUBSET S /\ Cardinality(s \ {x}) = Cardinality(s) - 1
  BY <1>2, FS_RemoveElement
<1>4. 0 \in Good
  BY <1>2
<1>5. ASSUME NEW n \in Nat, n \in Good
      PROVE  n + 1 \in Good
  <2>1. ASSUME NEW s \in SUBSET S, Cardinality(s) <= n + 1, NEW x \in s
        PROVE  g[s] = f[x] + g[s \ {x}]
    <3>1. PICK y \in s : g[s] = f[y] + g[s \ {y}]
      BY <1>1
    <3>2. CASE x # y
      <4>1. /\ s \ {y} \in SUBSET S /\ Cardinality(s \ {y}) <= n /\ x \in s \ {y}
            /\ s \ {x} \in SUBSET S /\ Cardinality(s \ {x}) <= n /\ y \in s \ {x}
        BY <1>2, <1>3, <2>1, <3>2
      <4>2. g[s \ {y}] = f[x] + g[(s \ {y}) \ {x}]
        BY <1>5, <4>1
      <4>3. g[s \ {x}] = f[y] + g[(s \ {x}) \ {y}]
        BY <1>5, <4>1
      <4>4. (s \ {y}) \ {x} = (s \ {x}) \ {y} /\ (s \ {x}) \ {y} \in SUBSET S
        OBVIOUS
      <4>5. f[x] \in Nat /\ f[y] \in Nat /\ g[(s \ {x}) \ {y}] \in Nat
        BY <1>1, <4>4
      <4> DEFINE rest == g[(s \ {x}) \ {y}]
      <4>6. g[s] = f[y] + (f[x] + rest) /\ g[s \ {x}] = f[y] + rest
        BY <3>1, <4>2, <4>3, <4>4
      <4> HIDE DEF rest
      <4>7. rest \in Nat
        BY <4>5 DEF rest
      <4> QED
        BY <4>5, <4>6, <4>7
    <3> QED
      BY <3>1, <3>2
  <2> QED
    BY <2>1
<1>6. Nat \subseteq Good
  <2> HIDE DEF Good
  <2> QED
    BY <1>4, <1>5, SetInduction
<1>7. ASSUME NEW s \in SUBSET S PROVE AnyOrder(s)
  <2>1. Cardinality(s) \in Nat /\ Cardinality(s) <= Cardinality(s)
    BY <1>2
  <2>2. Cardinality(s) \in Good
    BY <1>6, <2>1
  <2> QED
    BY <2>1, <2>2
<1>8. \A s \in SUBSET S : \A x \in s : s \ {x} \in SUBSET S
  OBVIOUS
<1>9. {} \in SUBSET S
  OBVIOUS
<1>10. QED
  BY <1>1, <1>7, <1>8, <1>9 DEF AddsUp

LEMMA SumType ==
  ASSUME NEW S, IsFiniteSet(S), NEW f \in [S -> Nat]
  PROVE  SumFunction(f) \in Nat
<1>1. SumFunctionOnSet(f, S) \in Nat
  BY SumFacts DEF AddsUp
<1> QED
  BY <1>1 DEF SumFunction

LEMMA SumOfOne ==
  ASSUME NEW x, NEW f \in [{x} -> Nat]
  PROVE  SumFunction(f) = f[x]
<1> DEFINE F(s) == SumFunctionOnSet(f, s)
<1>1. IsFiniteSet({x})
  BY FS_Singleton
<1>2. F({}) = 0 /\ F({x}) = f[x] + F({x} \ {x})
  BY <1>1, SumFacts DEF AddsUp
<1>3. {x} \ {x} = {} /\ F({x}) = SumFunction(f)
  BY DEF SumFunction
<1> HIDE DEF F
<1>4. f[x] \in Nat
  OBVIOUS
<1> QED
  BY <1>2, <1>3, <1>4

\* A function that is pointwise at most another has at most its sum.
LEMMA SumMonotone ==
  ASSUME NEW S, IsFiniteSet(S), NEW f \in [S -> Nat], NEW h \in [S -> Nat],
         NEW T \in SUBSET S, \A x \in T : f[x] <= h[x]
  PROVE  SumFunctionOnSet(f, T) <= SumFunctionOnSet(h, T)
<1> DEFINE F(s) == SumFunctionOnSet(f, s)
           H(s) == SumFunctionOnSet(h, s)
           Good == { n \in Nat : \A s \in SUBSET T : Cardinality(s) <= n => F(s) <= H(s) }
<1>1. \A s \in SUBSET T : IsFiniteSet(s) /\ Cardinality(s) \in Nat /\ (Cardinality(s) = 0 <=> s = {})
  BY FS_Subset, FS_CardinalityType, FS_EmptySet
<1>2. \A s \in SUBSET T : \A x \in s :
        s \ {x} \in SUBSET T /\ Cardinality(s \ {x}) = Cardinality(s) - 1
  BY <1>1, FS_RemoveElement
<1>3. /\ F({}) = 0 /\ \A s \in SUBSET S : F(s) \in Nat
      /\ \A s \in SUBSET S : \A x \in s : F(s) = f[x] + F(s \ {x})
  BY SumFacts DEF AddsUp
<1>4. /\ H({}) = 0 /\ \A s \in SUBSET S : H(s) \in Nat
      /\ \A s \in SUBSET S : \A x \in s : H(s) = h[x] + H(s \ {x})
  BY SumFacts DEF AddsUp
<1> HIDE DEF F, H
<1>5. 0 \in Good
  BY <1>1, <1>3, <1>4
<1>6. ASSUME NEW n \in Nat, n \in Good
      PROVE  n + 1 \in Good
  <2>1. ASSUME NEW s \in SUBSET T, Cardinality(s) <= n + 1, s # {}
        PROVE  F(s) <= H(s)
    <3>1. PICK x \in s : TRUE
      BY <2>1
    <3>2. s \ {x} \in SUBSET T /\ Cardinality(s \ {x}) <= n
      BY <1>1, <1>2, <2>1
    <3>3. F(s \ {x}) <= H(s \ {x})
      BY <1>6, <3>2
    <3>4. F(s) = f[x] + F(s \ {x}) /\ H(s) = h[x] + H(s \ {x})
      BY <1>3, <1>4
    <3>5. F(s \ {x}) \in Nat /\ H(s \ {x}) \in Nat /\ f[x] \in Nat /\ h[x] \in Nat /\ f[x] <= h[x]
      BY <1>3, <1>4, <3>2
    <3> QED
      BY <3>3, <3>4, <3>5
  <2>2. F({}) <= H({})
    BY <1>3, <1>4
  <2> QED
    BY <2>1, <2>2
<1>7. Nat \subseteq Good
  <2> HIDE DEF Good
  <2> QED
    BY <1>5, <1>6, SetInduction
<1>8. F(T) <= H(T)
  BY <1>1, <1>7
<1> QED
  BY <1>8 DEF F, H

\* Nothing but zeros sums up to zero.
LEMMA SumOfZeros ==
  ASSUME NEW S, IsFiniteSet(S), NEW f \in [S -> Nat],
         NEW T \in SUBSET S, \A x \in T : f[x] = 0
  PROVE  SumFunctionOnSet(f, T) = 0
<1> DEFINE F(s) == SumFunctionOnSet(f, s)
           Good == { n \in Nat : \A s \in SUBSET T : Cardinality(s) <= n => F(s) = 0 }
<1>1. \A s \in SUBSET T : IsFiniteSet(s) /\ Cardinality(s) \in Nat /\ (Cardinality(s) = 0 <=> s = {})
  BY FS_Subset, FS_CardinalityType, FS_EmptySet
<1>2. \A s \in SUBSET T : \A x \in s :
        s \ {x} \in SUBSET T /\ Cardinality(s \ {x}) = Cardinality(s) - 1
  BY <1>1, FS_RemoveElement
<1>3. F({}) = 0 /\ \A s \in SUBSET S : \A x \in s : F(s) = f[x] + F(s \ {x})
  BY SumFacts DEF AddsUp
<1> HIDE DEF F
<1>5. 0 \in Good
  BY <1>1, <1>3
<1>6. ASSUME NEW n \in Nat, n \in Good
      PROVE  n + 1 \in Good
  <2>1. ASSUME NEW s \in SUBSET T, Cardinality(s) <= n + 1, NEW x \in s
        PROVE  F(s) = 0
    <3>1. s \ {x} \in SUBSET T /\ Cardinality(s \ {x}) <= n
      BY <1>1, <1>2, <2>1
    <3>2. F(s \ {x}) = 0 /\ f[x] = 0
      BY <1>6, <3>1
    <3> QED
      BY <1>3, <3>2
  <2>2. ASSUME NEW s \in SUBSET T, Cardinality(s) <= n + 1
        PROVE  F(s) = 0
    <3>1. CASE s = {}
      BY <1>3, <3>1
    <3>2. CASE s # {}
      BY <2>1, <2>2, <3>2
    <3> QED
      BY <3>1, <3>2
  <2>3. n + 1 \in Nat
    OBVIOUS
  <2> HIDE DEF F
  <2> QED
    BY <2>2, <2>3
<1>7. Nat \subseteq Good
  <2> HIDE DEF Good
  <2> QED
    BY <1>5, <1>6, SetInduction
<1>8. Cardinality(T) \in Nat /\ Cardinality(T) <= Cardinality(T) /\ T \in SUBSET T
  BY <1>1
<1>9. F(T) = 0
  BY <1>7, <1>8
<1> QED
  BY <1>9 DEF F

\* Functions that agree on a set have the same sum over it.
LEMMA SumAgrees ==
  ASSUME NEW S, IsFiniteSet(S), NEW f \in [S -> Nat], NEW h \in [S -> Nat],
         NEW T \in SUBSET S, \A x \in T : f[x] = h[x]
  PROVE  SumFunctionOnSet(f, T) = SumFunctionOnSet(h, T)
<1>1. (\A x \in T : f[x] <= h[x]) /\ (\A x \in T : h[x] <= f[x])
  OBVIOUS
<1>2. SumFunctionOnSet(f, T) <= SumFunctionOnSet(h, T)
  BY <1>1, SumMonotone
<1>3. SumFunctionOnSet(h, T) <= SumFunctionOnSet(f, T)
  BY <1>1, SumMonotone
<1>4. SumFunctionOnSet(f, T) \in Nat /\ SumFunctionOnSet(h, T) \in Nat
  BY SumFacts DEF AddsUp
<1> QED
  BY <1>2, <1>3, <1>4

\* One value changed: the sum changes by as much.
LEMMA SumChanged ==
  ASSUME NEW S, IsFiniteSet(S), NEW f \in [S -> Nat], NEW h \in [S -> Nat],
         NEW x \in S, \A y \in S \ {x} : f[y] = h[y]
  PROVE  SumFunction(f) + h[x] = SumFunction(h) + f[x]
<1> DEFINE F(s) == SumFunctionOnSet(f, s)
           H(s) == SumFunctionOnSet(h, s)
<1>1. F(S) = f[x] + F(S \ {x}) /\ H(S) = h[x] + H(S \ {x})
  BY SumFacts DEF AddsUp
<1>2. F(S \ {x}) \in Nat /\ H(S \ {x}) \in Nat
  BY SumFacts DEF AddsUp
<1>3. F(S \ {x}) = H(S \ {x})
  BY SumAgrees
<1>4. SumFunction(f) = F(S) /\ SumFunction(h) = H(S)
  BY DEF SumFunction
<1> HIDE DEF F, H
<1> QED
  BY <1>1, <1>2, <1>3, <1>4

\* A function moved up by one has, up to a, the sum that it had up to a - 1.
LEMMA SumMovedUp ==
  ASSUME NEW m \in Nat, NEW f \in [0 .. m -> Nat], NEW h \in [0 .. m -> Nat],
         h[0] = 0, \A i \in 1 .. m : h[i] = f[i - 1]
  PROVE  \A a \in 0 .. m : SumFunctionOnSet(h, 0 .. a) = SumFunctionOnSet(f, 0 .. a - 1)
<1> DEFINE F(s) == SumFunctionOnSet(f, s)
           H(s) == SumFunctionOnSet(h, s)
           Good == { a \in 0 .. m : H(0 .. a) = F(0 .. a - 1) }
           dom == 0 .. m
<1>0. 0 \in Int /\ m \in Int
  OBVIOUS
<1>1. IsFiniteSet(dom) /\ f \in [dom -> Nat] /\ h \in [dom -> Nat]
  BY <1>0, FS_Interval
<1>a. AddsUp(dom, f) /\ AddsUp(dom, h)
  <2> HIDE DEF dom
  <2> QED
    BY <1>1, SumFacts
<1>2. /\ F({}) = 0 /\ \A s \in SUBSET dom : F(s) \in Nat
      /\ \A s \in SUBSET dom : \A x \in s : F(s) = f[x] + F(s \ {x})
  BY <1>a DEF AddsUp
<1>3. /\ H({}) = 0 /\ \A s \in SUBSET dom : H(s) \in Nat
      /\ \A s \in SUBSET dom : \A x \in s : H(s) = h[x] + H(s \ {x})
  BY <1>a DEF AddsUp
<1> HIDE DEF F, H
<1>4. 0 \in Good
  <2>1. 0 .. 0 = {0} /\ 0 .. 0 - 1 = {} /\ {0} \in SUBSET dom /\ {0} \ {0} = {}
    OBVIOUS
  <2>2. H({0}) = h[0] + H({0} \ {0})
    BY <1>3, <2>1
  <2>3. H({0}) = 0
    <3>1. h[0] = 0 /\ H({}) = 0 /\ H({0} \ {0}) = H({})
      BY <1>3
    <3> QED
      BY <2>2, <3>1
  <2>4. H(0 .. 0) = H({0}) /\ F(0 .. 0 - 1) = F({})
    BY <2>1
  <2>5. H(0 .. 0) = F(0 .. 0 - 1) /\ 0 \in 0 .. m
    BY <1>2, <2>3, <2>4
  <2> HIDE DEF dom
  <2> QED
    BY <2>5
<1>5. ASSUME NEW a \in 0 .. m, a \in Good, a + 1 <= m
      PROVE  a + 1 \in Good
  <2>0. a \in Nat /\ a + 1 \in Nat /\ a + 1 \in 1 .. m /\ (a + 1) - 1 = a /\ a + 1 \in 0 .. m
    BY <1>5
  <2> DEFINE upto == 0 .. a
             below == 0 .. a - 1
             further == 0 .. a + 1
  <2>1. further \in SUBSET dom /\ a + 1 \in further
    BY <2>0
  <2>2. further \ {a + 1} = upto
    BY <2>0
  <2>3. upto \in SUBSET dom /\ a \in upto
    BY <2>0
  <2>4. upto \ {a} = below
    BY <2>0
  <2>5. H(upto) = F(below)
    BY <1>5
  <2>6. upto \in SUBSET dom /\ below \in SUBSET dom
    BY <2>0
  <2>7. (a + 1) - 1 = a
    BY <2>0
  <2> HIDE DEF upto, below, further, dom
  <2>8. H(further) = h[a + 1] + H(upto)
    BY <1>3, <2>1, <2>2
  <2>9. F(upto) = f[a] + F(below)
    BY <1>2, <2>3, <2>4
  <2>10. h[a + 1] = f[a]
    BY <2>0, <2>7
  <2>11. H(further) = F(upto)
    BY <2>5, <2>8, <2>9, <2>10
  <2>12. H(0 .. a + 1) = F(0 .. (a + 1) - 1)
    BY <2>7, <2>11 DEF upto, further
  <2> QED
    BY <2>0, <2>12
<1>6. 0 .. m \subseteq Good
  <2> HIDE DEF Good
  <2> QED
    BY <1>4, <1>5, BoundedInduction
<1>7. \A a \in 0 .. m : H(0 .. a) = F(0 .. a - 1)
  BY <1>6
<1> QED
  BY <1>7 DEF F, H
=============================================================================
