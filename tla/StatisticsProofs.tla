--------------------------- MODULE StatisticsProofs ---------------------------
(***************************************************************************)
(* What stats.json says is consistent whenever it is written, for every      *)
(* number of sessions, chunks and time entries.  The sums over the sessions   *)
(* are folds, which the first part turns into equations that do not depend    *)
(* on the order of the sessions.                                            *)
(***************************************************************************)
EXTENDS Statistics, FiniteSetTheorems, WellFoundedInduction, TLAPS

USE StatisticsAssumption

\* A nonempty set of naturals has a least element.
LEMMA LeastNatural ==
    ASSUME NEW T \in SUBSET Nat, T # {}
    PROVE  \E x \in T : \A y \in T : x <= y
<1> DEFINE R == OpToRel(<, Nat)
<1>1. \E x \in T : \A y \in T : ~ (<<y, x>> \in R)
  <2>1. IsWellFoundedOn(R, Nat)
    BY NatLessThanWellFounded
  <2> HIDE DEF R
  <2> QED BY <2>1, WFMin
<1>2. PICK x \in T : \A y \in T : ~ (<<y, x>> \in R)
  BY <1>1
<1>3. ASSUME NEW y \in T PROVE x <= y
  <2>1. ~ (<<y, x>> \in R) /\ <<y, x>> \in Nat \X Nat
    BY <1>2
  <2>2. ~ (y < x)
    BY <2>1 DEF OpToRel
  <2> QED BY <2>2
<1> QED BY <1>3

\* Among finite sets one is smallest.
LEMMA SmallestSet ==
    ASSUME NEW D, D # {}, \A s \in D : IsFiniteSet(s)
    PROVE  \E s \in D : \A t \in D : Cardinality(s) <= Cardinality(t)
<1> DEFINE T == {Cardinality(s) : s \in D}
<1>1. T \in SUBSET Nat /\ T # {}
  BY FS_CardinalityType
<1>2. PICK n \in T : \A m \in T : n <= m
  BY <1>1, LeastNatural
<1>3. PICK s \in D : n = Cardinality(s)
  OBVIOUS
<1> QED BY <1>2, <1>3

\* A set without one of its elements is finite as well, and smaller.
LEMMA OneLess ==
    ASSUME NEW s, IsFiniteSet(s), NEW x \in s
    PROVE  IsFiniteSet(s \ {x}) /\ Cardinality(s) \in Nat
           /\ Cardinality(s \ {x}) = Cardinality(s) - 1
           /\ ~ (Cardinality(s) <= Cardinality(s \ {x}))
<1>1. Cardinality(s) \in Nat
  BY FS_CardinalityType
<1>2. IsFiniteSet(s \ {x}) /\ Cardinality(s \ {x}) = Cardinality(s) - 1
  BY FS_RemoveElement
<1> QED BY <1>1, <1>2

\* A property of subsets that fails, fails for one of whose elements every
\* removal makes it hold.
LEMMA MinimalFailure ==
    ASSUME NEW S, IsFiniteSet(S), NEW D \in SUBSET (SUBSET S), D # {}
    PROVE  \E s \in D : \A x \in s : s \ {x} \notin D
<1>1. \A s \in D : IsFiniteSet(s)
  BY FS_Subset
<1>2. PICK s \in D : \A t \in D : Cardinality(s) <= Cardinality(t)
  BY <1>1, SmallestSet
<1>3. ASSUME NEW x \in s, s \ {x} \in D PROVE FALSE
  BY <1>1, <1>2, <1>3, OneLess
<1> QED BY <1>3

\* The element a fold takes out first.
Pick(s) == CHOOSE x \in s : TRUE

Folds(g, S, base, F) ==
    \A s \in SUBSET S :
        g[s] = IF s = {} THEN base ELSE F[<<Pick(s), g[s \ {Pick(s)}]>>]

\* A finite set can be folded: what iterates over its subsets exists.
LEMMA FoldExists ==
    ASSUME NEW S, IsFiniteSet(S), NEW V, NEW base \in V, NEW F \in [S \X V -> V]
    PROVE  \E g \in [SUBSET S -> V] : Folds(g, S, base, F)
<1> DEFINE Value(g, s) == IF s = {} THEN base ELSE F[<<Pick(s), g[s \ {Pick(s)}]>>]
           Solves(g, n) == \A s \in SUBSET S : Cardinality(s) <= n => g[s] = Value(g, s)
           Good(n) == \E g \in [SUBSET S -> V] : Solves(g, n)
           T == {n \in Nat : ~ Good(n)}
<1>1. \A s \in SUBSET S : IsFiniteSet(s) /\ Cardinality(s) \in Nat
  BY FS_Subset, FS_CardinalityType
<1>2. ASSUME NEW s \in SUBSET S, s # {}
      PROVE  /\ Pick(s) \in s /\ s \ {Pick(s)} \in SUBSET S
             /\ Cardinality(s \ {Pick(s)}) = Cardinality(s) - 1
  <2>1. Pick(s) \in s
    BY <1>2 DEF Pick
  <2> QED BY <1>1, <2>1, OneLess
<1>3. ASSUME NEW g \in [SUBSET S -> V], NEW s \in SUBSET S
      PROVE  Value(g, s) \in V
  <2>1. CASE s = {}
    BY <2>1
  <2>2. CASE s # {}
    <3>1. Pick(s) \in S /\ g[s \ {Pick(s)}] \in V
      BY <1>2, <2>2
    <3> QED BY <2>2, <3>1
  <2> QED BY <2>1, <2>2
<1>4. T = {}
  <2> SUFFICES ASSUME T # {} PROVE FALSE
    OBVIOUS
  <2>1. PICK n \in T : \A m \in T : n <= m
    <3> HIDE DEF Good
    <3> QED BY LeastNatural
  <2>2. n \in Nat /\ ~ Good(n)
    OBVIOUS
  <2>3. PICK g \in [SUBSET S -> V] : n = 0 \/ Solves(g, n - 1)
    <3>1. CASE n = 0
      <4> DEFINE h == [s \in SUBSET S |-> base]
      <4>1. h \in [SUBSET S -> V]
        OBVIOUS
      <4> HIDE DEF h, Solves
      <4> QED BY <3>1, <4>1
    <3>2. CASE n # 0
      <4>1. n - 1 \in Nat /\ ~ (n <= n - 1)
        BY <3>2, <2>2
      <4>2. Good(n - 1)
        <5> HIDE DEF Good
        <5> QED BY <2>1, <4>1
      <4> QED BY <4>2
    <3> QED BY <3>1, <3>2
  <2> DEFINE h == [s \in SUBSET S |-> Value(g, s)]
  <2>4. h \in [SUBSET S -> V] /\ \A s \in SUBSET S : h[s] = Value(g, s)
    <3> HIDE DEF Value
    <3> QED BY <1>3
  <2> HIDE DEF h, Value
  <2>5. ASSUME NEW s \in SUBSET S, Cardinality(s) <= n PROVE h[s] = Value(h, s)
    <3>1. CASE s = {}
      BY <2>4, <3>1 DEF Value
    <3>2. CASE s # {}
      <4> DEFINE r == s \ {Pick(s)}
      <4>1. r \in SUBSET S /\ Cardinality(r) = Cardinality(s) - 1
        BY <1>2, <3>2
      <4> HIDE DEF r
      <4>2. Cardinality(r) \in Nat /\ Cardinality(s) \in Nat
        BY <1>1, <4>1
      <4>3. n # 0 /\ Cardinality(r) <= n - 1
        BY <2>2, <2>5, <4>1, <4>2
      <4>4. g[r] = Value(g, r)
        BY <2>3, <4>1, <4>3
      <4>5. g[r] = h[r]
        BY <2>4, <4>1, <4>4
      <4> QED BY <2>4, <3>2, <4>5 DEF Value, r
    <3> QED BY <3>1, <3>2
  <2>6. Solves(h, n)
    BY <2>5
  <2>7. Good(n)
    <3> HIDE DEF Solves
    <3> QED BY <2>4, <2>6
  <2> QED BY <2>2, <2>7
<1>5. Cardinality(S) \in Nat
  BY <1>1
<1>6. PICK g \in [SUBSET S -> V] : Solves(g, Cardinality(S))
  <2>1. Good(Cardinality(S))
    <3> HIDE DEF Good
    <3> QED BY <1>4, <1>5
  <2> QED BY <2>1
<1>7. \A s \in SUBSET S : Cardinality(s) <= Cardinality(S)
  BY FS_Subset
<1> QED BY <1>6, <1>7 DEF Folds

-------------------------------------------------------------------------------
(***************************************************************************)
(* Sums.                                                                   *)
(***************************************************************************)

\* What Sum iterates over the subsets of S.
SumsUp(g, f, S) ==
    g = [s \in SUBSET S |-> IF s = {} THEN 0 ELSE g[s \ {Pick(s)}] + f[Pick(s)]]

LEMMA SumIsFold ==
    ASSUME NEW S, NEW f
    PROVE  Sum(f, S) = (CHOOSE g : SumsUp(g, f, S))[S]
BY DEF Sum, FoldSet, MapThenFoldSet, SumsUp, Pick

\* g adds up f over the subsets of S.
Adds(g, f, S) ==
    /\ g \in [SUBSET S -> Nat]
    /\ g[{}] = 0
    /\ \A s \in SUBSET S : s # {} => g[s] = g[s \ {Pick(s)}] + f[Pick(s)]

LEMMA PickIsElement ==
    ASSUME NEW s, s # {}
    PROVE  Pick(s) \in s
BY DEF Pick

LEMMA SumsUpIsAdds ==
    ASSUME NEW S, IsFiniteSet(S), NEW f, \A x \in S : f[x] \in Nat, NEW g, SumsUp(g, f, S)
    PROVE  Adds(g, f, S)
<1>1. ASSUME NEW s \in SUBSET S
      PROVE  g[s] = IF s = {} THEN 0 ELSE g[s \ {Pick(s)}] + f[Pick(s)]
  <2> DEFINE rhs(t) == IF t = {} THEN 0 ELSE g[t \ {Pick(t)}] + f[Pick(t)]
  <2>1. g = [t \in SUBSET S |-> rhs(t)]
    BY DEF SumsUp
  <2> HIDE DEF rhs
  <2>2. g[s] = rhs(s)
    BY <2>1
  <2> QED BY <2>2 DEF rhs
<1>2. g[{}] = 0
  BY <1>1
<1>3. \A s \in SUBSET S : s # {} => g[s] = g[s \ {Pick(s)}] + f[Pick(s)]
  BY <1>1
<1> DEFINE D == {s \in SUBSET S : g[s] \notin Nat}
<1>4. D = {}
  <2> SUFFICES ASSUME D # {} PROVE FALSE
    OBVIOUS
  <2>1. D \in SUBSET (SUBSET S)
    OBVIOUS
  <2>2. PICK s \in D : \A x \in s : s \ {x} \notin D
    <3> HIDE DEF D
    <3> QED BY <2>1, MinimalFailure
  <2>3. s \in SUBSET S /\ s # {}
    BY <1>2
  <2>4. Pick(s) \in s /\ s \ {Pick(s)} \in SUBSET S /\ f[Pick(s)] \in Nat
    BY <2>3, PickIsElement
  <2>5. g[s \ {Pick(s)}] \in Nat
    BY <2>2, <2>4
  <2>6. g[s] \in Nat
    BY <1>3, <2>3, <2>4, <2>5
  <2> QED BY <2>6
<1>5. \A s \in SUBSET S : g[s] \in Nat
  BY <1>4
<1>6. DOMAIN g = SUBSET S /\ g = [s \in SUBSET S |-> g[s]]
  BY DEF SumsUp
<1>7. g \in [SUBSET S -> Nat]
  BY <1>5, <1>6
<1> QED BY <1>2, <1>3, <1>7 DEF Adds

\* The fold of a finite set adds it up.
LEMMA SumAdds ==
    ASSUME NEW S, IsFiniteSet(S), NEW f, \A x \in S : f[x] \in Nat
    PROVE  \E g : Adds(g, f, S) /\ Sum(f, S) = g[S]
<1> DEFINE F == [p \in S \X Nat |-> p[2] + f[p[1]]]
           c == CHOOSE g : SumsUp(g, f, S)
<1>1. F \in [S \X Nat -> Nat]
  OBVIOUS
<1>2. PICK g \in [SUBSET S -> Nat] : Folds(g, S, 0, F)
  <2>1. 0 \in Nat
    OBVIOUS
  <2> HIDE DEF F
  <2> QED BY <1>1, <2>1, FoldExists
<1>3. ASSUME NEW s \in SUBSET S
      PROVE  g[s] = IF s = {} THEN 0 ELSE g[s \ {Pick(s)}] + f[Pick(s)]
  <2>1. CASE s = {}
    BY <1>2, <2>1 DEF Folds
  <2>2. CASE s # {}
    <3>1. Pick(s) \in S /\ g[s \ {Pick(s)}] \in Nat
      BY <2>2, PickIsElement
    <3>2. F[<<Pick(s), g[s \ {Pick(s)}]>>] = g[s \ {Pick(s)}] + f[Pick(s)]
      BY <3>1
    <3>3. g[s] = F[<<Pick(s), g[s \ {Pick(s)}]>>]
      BY <1>2, <2>2 DEF Folds
    <3> QED BY <2>2, <3>2, <3>3
  <2> QED BY <2>1, <2>2
<1>4. SumsUp(g, f, S)
  <2>1. g = [s \in SUBSET S |-> g[s]]
    OBVIOUS
  <2> QED BY <1>3, <2>1 DEF SumsUp
<1>5. SumsUp(c, f, S)
  BY <1>4
<1>6. Sum(f, S) = c[S]
  BY SumIsFold
<1> HIDE DEF c
<1>7. Adds(c, f, S)
  BY <1>5, SumsUpIsAdds
<1> QED BY <1>6, <1>7

\* The order in which the elements are taken out does not matter.
LEMMA AnyElementFirst ==
    ASSUME NEW S, IsFiniteSet(S), NEW f, \A x \in S : f[x] \in Nat, NEW g, Adds(g, f, S)
    PROVE  \A s \in SUBSET S : \A x \in s : g[s] = g[s \ {x}] + f[x]
<1> DEFINE Fails(s) == \E x \in s : g[s] # g[s \ {x}] + f[x]
           D == {s \in SUBSET S : Fails(s)}
<1>1. D = {}
  <2> SUFFICES ASSUME D # {} PROVE FALSE
    OBVIOUS
  <2>1. D \in SUBSET (SUBSET S)
    OBVIOUS
  <2>2. PICK s \in D : \A x \in s : s \ {x} \notin D
    <3> HIDE DEF D
    <3> QED BY <2>1, MinimalFailure
  <2>3. s \in SUBSET S /\ Fails(s)
    OBVIOUS
  <2>4. PICK x \in s : g[s] # g[s \ {x}] + f[x]
    BY <2>3
  <2> DEFINE p == Pick(s)
             rest == (s \ {p}) \ {x}
  <2>5. p \in s /\ g[s] = g[s \ {p}] + f[p]
    BY <2>3, <2>4, PickIsElement DEF Adds
  <2>6. x # p
    BY <2>4, <2>5
  <2>7. s \ {p} \in SUBSET S /\ s \ {x} \in SUBSET S /\ x \in s \ {p} /\ p \in s \ {x}
        /\ (s \ {x}) \ {p} = rest /\ rest \in SUBSET S
    BY <2>3, <2>5, <2>6
  <2> HIDE DEF p, rest
  <2>8. g[s \ {p}] = g[rest] + f[x]
    <3>1. ~ Fails(s \ {p})
      <4> HIDE DEF Fails
      <4> QED BY <2>2, <2>5, <2>7
    <3>2. (s \ {p}) \ {x} = rest
      BY DEF rest
    <3> QED BY <2>7, <3>1, <3>2
  <2>9. g[s \ {x}] = g[rest] + f[p]
    <3>1. ~ Fails(s \ {x})
      <4> HIDE DEF Fails
      <4> QED BY <2>2, <2>7
    <3> QED BY <2>7, <3>1
  <2>10. g[rest] \in Nat /\ f[x] \in Nat /\ f[p] \in Nat
    BY <2>3, <2>5, <2>7 DEF Adds
  <2>11. g[s] = g[s \ {x}] + f[x]
    BY <2>5, <2>8, <2>9, <2>10
  <2> QED BY <2>4, <2>11
<1> QED BY <1>1

\* Sums of counters that agree on the set agree, and so do sums reached over
\* different sets.
LEMMA AddsAgree ==
    ASSUME NEW S, NEW R, IsFiniteSet(R), S \subseteq R,
           NEW f, NEW h, \A x \in S : f[x] = h[x],
           NEW g, NEW k, Adds(g, f, S), Adds(k, h, R)
    PROVE  g[S] = k[S]
<1> DEFINE D == {s \in SUBSET S : g[s] # k[s]}
<1>1. IsFiniteSet(S)
  BY FS_Subset
<1>2. D = {}
  <2> SUFFICES ASSUME D # {} PROVE FALSE
    OBVIOUS
  <2>1. D \in SUBSET (SUBSET S)
    OBVIOUS
  <2>2. PICK s \in D : \A x \in s : s \ {x} \notin D
    <3> HIDE DEF D
    <3> QED BY <1>1, <2>1, MinimalFailure
  <2>3. s \in SUBSET S /\ s \in SUBSET R /\ s # {}
    BY DEF Adds
  <2>4. Pick(s) \in s /\ s \ {Pick(s)} \in SUBSET S
    BY <2>3, PickIsElement
  <2>5. g[s \ {Pick(s)}] = k[s \ {Pick(s)}]
    BY <2>2, <2>4
  <2>6. f[Pick(s)] = h[Pick(s)]
    BY <2>3, <2>4
  <2>7. g[s] = k[s]
    BY <2>3, <2>5, <2>6 DEF Adds
  <2> QED BY <2>7
<1> QED BY <1>2

\* What the proofs use of sums.
LEMMA SumIsNat ==
    ASSUME NEW S, IsFiniteSet(S), NEW f, \A x \in S : f[x] \in Nat
    PROVE  Sum(f, S) \in Nat
<1>1. PICK g : Adds(g, f, S) /\ Sum(f, S) = g[S]
  BY SumAdds
<1> QED BY <1>1 DEF Adds

LEMMA SumOfNone ==
    ASSUME NEW f
    PROVE  Sum(f, {}) = 0
<1>1. IsFiniteSet({}) /\ \A x \in {} : f[x] \in Nat
  BY FS_EmptySet
<1>2. PICK g : Adds(g, f, {}) /\ Sum(f, {}) = g[{}]
  BY <1>1, SumAdds
<1> QED BY <1>2 DEF Adds

LEMMA SumWithout ==
    ASSUME NEW S, IsFiniteSet(S), NEW f, \A x \in S : f[x] \in Nat, NEW x \in S
    PROVE  Sum(f, S) = Sum(f, S \ {x}) + f[x]
<1>1. PICK g : Adds(g, f, S) /\ Sum(f, S) = g[S]
  BY SumAdds
<1>2. IsFiniteSet(S \ {x}) /\ S \ {x} \subseteq S
  BY FS_RemoveElement
<1>3. PICK k : Adds(k, f, S \ {x}) /\ Sum(f, S \ {x}) = k[S \ {x}]
  BY <1>2, SumAdds
<1>4. k[S \ {x}] = g[S \ {x}]
  BY <1>1, <1>2, <1>3, AddsAgree
<1>5. g[S] = g[S \ {x}] + f[x]
  BY <1>1, AnyElementFirst
<1> QED BY <1>1, <1>3, <1>4, <1>5

LEMMA SumsAgree ==
    ASSUME NEW S, IsFiniteSet(S), NEW f, NEW h,
           \A x \in S : f[x] \in Nat, \A x \in S : f[x] = h[x]
    PROVE  Sum(f, S) = Sum(h, S)
<1>1. PICK g : Adds(g, f, S) /\ Sum(f, S) = g[S]
  BY SumAdds
<1>2. \A x \in S : h[x] \in Nat
  OBVIOUS
<1>3. PICK k : Adds(k, h, S) /\ Sum(h, S) = k[S]
  BY <1>2, SumAdds
<1> QED BY <1>1, <1>3, AddsAgree

-------------------------------------------------------------------------------
(***************************************************************************)
(* The hash rate and the best distance.                                     *)
(***************************************************************************)

\* What HashRate iterates over the subsets of S.
RatesUp(g, S) ==
    g = [s \in SUBSET S |->
            IF s = {} THEN 0 ELSE (g[s \ {Pick(s)}] + rate[Pick(s)]) % Space]

LEMMA HashRateIsFold == HashRate = (CHOOSE g : RatesUp(g, sessions))[sessions]
BY DEF HashRate, FoldSet, MapThenFoldSet, RatesUp, Pick

LEMMA InSpace == \A n \in Nat : n % Space \in 0 .. Space - 1
OBVIOUS

\* A published rate fits in 32 bits.
LEMMA HashRateFits ==
    ASSUME IsFiniteSet(sessions), \A c \in sessions : rate[c] \in Nat
    PROVE  HashRate \in 0 .. Space - 1
<1> DEFINE V == 0 .. Space - 1
           F == [p \in sessions \X V |-> (p[2] + rate[p[1]]) % Space]
           c == CHOOSE g : RatesUp(g, sessions)
<1>0. 0 \in V /\ V \subseteq Nat
  OBVIOUS
<1>1. F \in [sessions \X V -> V]
  <2>1. \A p \in sessions \X V : p[2] + rate[p[1]] \in Nat
    OBVIOUS
  <2> QED BY <2>1, InSpace
<1>2. PICK g \in [SUBSET sessions -> V] : Folds(g, sessions, 0, F)
  <2> HIDE DEF F, V
  <2> QED BY <1>0, <1>1, FoldExists
<1> HIDE DEF V
<1>3. ASSUME NEW s \in SUBSET sessions
      PROVE  g[s] = IF s = {} THEN 0 ELSE (g[s \ {Pick(s)}] + rate[Pick(s)]) % Space
  <2>1. CASE s = {}
    BY <1>2, <2>1 DEF Folds
  <2>2. CASE s # {}
    <3>1. Pick(s) \in sessions /\ g[s \ {Pick(s)}] \in V
      BY <2>2, PickIsElement
    <3>2. F[<<Pick(s), g[s \ {Pick(s)}]>>] = (g[s \ {Pick(s)}] + rate[Pick(s)]) % Space
      BY <3>1
    <3>3. g[s] = F[<<Pick(s), g[s \ {Pick(s)}]>>]
      BY <1>2, <2>2 DEF Folds
    <3> QED BY <2>2, <3>2, <3>3
  <2> QED BY <2>1, <2>2
<1>4. RatesUp(g, sessions)
  <2>1. g = [s \in SUBSET sessions |-> g[s]]
    OBVIOUS
  <2> QED BY <1>3, <2>1 DEF RatesUp
<1>5. RatesUp(c, sessions)
  BY <1>4
<1>6. HashRate = c[sessions]
  BY HashRateIsFold
<1> HIDE DEF c, F
<1>7. ASSUME NEW s \in SUBSET sessions
      PROVE  c[s] = IF s = {} THEN 0 ELSE (c[s \ {Pick(s)}] + rate[Pick(s)]) % Space
  <2> DEFINE rhs(t) == IF t = {} THEN 0 ELSE (c[t \ {Pick(t)}] + rate[Pick(t)]) % Space
  <2>1. c = [t \in SUBSET sessions |-> rhs(t)]
    BY <1>5 DEF RatesUp
  <2> HIDE DEF rhs
  <2>2. c[s] = rhs(s)
    BY <2>1
  <2> QED BY <2>2 DEF rhs
<1> DEFINE D == {s \in SUBSET sessions : c[s] \notin V}
<1>8. D = {}
  <2> SUFFICES ASSUME D # {} PROVE FALSE
    OBVIOUS
  <2>1. D \in SUBSET (SUBSET sessions)
    OBVIOUS
  <2>2. PICK s \in D : \A x \in s : s \ {x} \notin D
    <3> HIDE DEF D
    <3> QED BY <2>1, MinimalFailure
  <2>3. s \in SUBSET sessions /\ s # {}
    BY <1>0, <1>7
  <2>4. Pick(s) \in sessions /\ c[s \ {Pick(s)}] \in Nat
    BY <1>0, <2>2, <2>3, PickIsElement
  <2>5. c[s \ {Pick(s)}] + rate[Pick(s)] \in Nat
    BY <2>4
  <2>6. c[s] \in V
    BY <1>7, <2>3, <2>5, InSpace DEF V
  <2> QED BY <2>6
<1> QED BY <1>6, <1>8 DEF V

\* A nonempty finite set of naturals has a greatest element.
LEMMA GreatestNatural ==
    ASSUME NEW S \in SUBSET Nat, IsFiniteSet(S), S # {}
    PROVE  \E x \in S : \A y \in S : x >= y
<1> DEFINE HasMax(s) == \E x \in s : \A y \in s : x >= y
           D == {s \in SUBSET S : s # {} /\ ~ HasMax(s)}
<1>1. D = {}
  <2> SUFFICES ASSUME D # {} PROVE FALSE
    OBVIOUS
  <2>1. D \in SUBSET (SUBSET S)
    OBVIOUS
  <2>2. PICK s \in D : \A x \in s : s \ {x} \notin D
    <3> HIDE DEF D
    <3> QED BY <2>1, MinimalFailure
  <2>3. s \in SUBSET S /\ s # {} /\ ~ HasMax(s)
    OBVIOUS
  <2>4. PICK x \in s : TRUE
    BY <2>3
  <2>5. CASE s \ {x} = {}
    <3>1. s = {x}
      BY <2>4, <2>5
    <3>2. HasMax(s)
      BY <2>3, <3>1
    <3> QED BY <2>3, <3>2
  <2>6. CASE s \ {x} # {}
    <3>1. HasMax(s \ {x})
      <4> HIDE DEF HasMax
      <4>1. s \ {x} \in SUBSET S
        BY <2>3
      <4> QED BY <2>2, <2>6, <4>1
    <3>2. PICK m \in s \ {x} : \A y \in s \ {x} : m >= y
      BY <3>1
    <3>3. m \in Nat /\ x \in Nat /\ m \in s
      BY <2>3
    <3>4. \A y \in s : y = x \/ m >= y
      BY <3>2
    <3>5. CASE m >= x
      <4>1. \A y \in s : m >= y
        BY <3>4, <3>5
      <4> QED BY <2>3, <3>3, <4>1
    <3>6. CASE x >= m
      <4>1. \A y \in s : y \in Nat /\ x >= y
        BY <2>3, <3>3, <3>4, <3>6
      <4> QED BY <2>3, <4>1
    <3> QED BY <3>3, <3>5, <3>6
  <2> QED BY <2>5, <2>6
<1>2. S \notin D
  BY <1>1
<1> QED BY <1>2

\* The best distance is one that was reported for some extranonce2.
LEMMA BestIsReported ==
    ASSUME best \in [Extranonce2s -> Distances \cup {0}]
    PROVE  \E e \in Extranonce2s : GetBestDistance = best[e]
<1> DEFINE T == {best[e] : e \in Extranonce2s}
<1>1. T \in SUBSET Nat /\ T # {}
  <2>1. \A e \in Extranonce2s : best[e] \in Nat
    <3>1. \A e \in Extranonce2s : best[e] \in Distances \cup {0}
      OBVIOUS
    <3>2. Distances \cup {0} \subseteq Nat
      OBVIOUS
    <3> QED BY <3>1, <3>2
  <2>2. PICK e \in Extranonce2s : TRUE
    OBVIOUS
  <2>3. best[e] \in T
    OBVIOUS
  <2> QED BY <2>1, <2>3
<1>2. best \in Surjection(Extranonce2s, T)
  BY DEF Surjection
<1>3. IsFiniteSet(T)
  <2> HIDE DEF T
  <2> QED BY <1>2, FS_Surjection
<1>4. \E x \in T : \A y \in T : x >= y
  <2> HIDE DEF T
  <2> QED BY <1>1, <1>3, GreatestNatural
<1>5. Max(T) \in T
  <2> HIDE DEF T
  <2> QED BY <1>4 DEF Max
<1>6. GetBestDistance = Max(T)
  BY DEF GetBestDistance
<1> QED BY <1>5, <1>6

-------------------------------------------------------------------------------
(***************************************************************************)
(* The inductive invariant.                                                *)
(***************************************************************************)

LEMMA InitStatInv == Init => StatInv
<1> SUFFICES ASSUME Init PROVE StatInv
  OBVIOUS
<1>1. TypeOK
  <2>1. /\ Period \in Times /\ 0 \in Times /\ 0 \in 0 .. MaxChunks /\ 0 \in 0 .. MaxJobs
        /\ 0 \in 0 .. MaxBlocks /\ 0 \in 0 .. Space - 1
    BY DEF Times
  <2>2. NoEntry \in Entry
    BY <2>1 DEF NoEntry, Entry
  <2>3. <<>> \in Seq(Entry) /\ Len(<<>>) <= Ring
    OBVIOUS
  <2> QED BY <2>1, <2>2, <2>3 DEF Init, TypeOK
<1>2. IsFiniteSet(sessions)
  BY FS_EmptySet DEF Init
<1>3. CountersFit /\ \A c \in Clients \ sessions : completed[c] = 0
  BY SumOfNone DEF Init, CountersFit
<1>4. Period <= now
  BY DEF Init
<1>5. DistancesAreDated /\ EntryFits /\ EntriesAreSpaced /\ ClockKeepsAhead
  BY DEF Init, DistancesAreDated, EntryFits, EntriesAreSpaced, ClockKeepsAhead, NoEntry
<1> QED BY <1>1, <1>2, <1>3, <1>4, <1>5 DEF StatInv

\* What is counted chunk by chunk.
LEMMA CompletedIsNat ==
    ASSUME TypeOK
    PROVE  /\ \A c \in Clients : completed[c] \in Nat
           /\ jobChunks \in Nat /\ totalChunks \in Nat /\ sessions \subseteq Clients
BY DEF TypeOK

\* The counters a step of counting leaves.
CountersStep ==
    /\ IsFiniteSet(sessions')
    /\ \A c \in Clients \ sessions' : completed'[c] = 0
    /\ jobChunks' <= totalChunks'
    /\ Sum(completed', sessions') <= totalChunks'

LEMMA AcceptCounts ==
    ASSUME StatInv, NEW c \in Clients, Accept(c)
    PROVE  CountersStep
<1>1. TypeOK /\ IsFiniteSet(sessions)
  BY DEF StatInv
<1>2. /\ sessions' = sessions \cup {c} /\ c \notin sessions /\ completed' = completed
      /\ jobChunks' = jobChunks /\ totalChunks' = totalChunks
  BY DEF Accept, counters
<1>3. IsFiniteSet(sessions')
  BY <1>1, <1>2, FS_AddElement
<1>4. sessions' \ {c} = sessions /\ c \in sessions' /\ completed[c] = 0
  BY <1>2 DEF StatInv
<1>5. \A x \in sessions' : completed[x] \in Nat
  BY <1>1, <1>2, CompletedIsNat
<1>6. Sum(completed, sessions') = Sum(completed, sessions) + 0
  BY <1>3, <1>4, <1>5, SumWithout
<1>7. Sum(completed, sessions) \in Nat
  BY <1>1, <1>2, <1>5, SumIsNat
<1>8. Sum(completed, sessions') = Sum(completed, sessions)
  BY <1>6, <1>7
<1> QED BY <1>2, <1>3, <1>8 DEF CountersStep, StatInv, CountersFit

LEMMA LeaveCounts ==
    ASSUME StatInv, NEW c \in Clients, Leave(c)
    PROVE  CountersStep
<1>1. TypeOK /\ IsFiniteSet(sessions)
  BY DEF StatInv
<1>2. /\ sessions' = sessions \ {c} /\ c \in sessions
      /\ completed' = [completed EXCEPT ![c] = 0]
      /\ jobChunks' = jobChunks /\ totalChunks' = totalChunks
  BY DEF Leave, counters
<1>3. IsFiniteSet(sessions')
  BY <1>1, <1>2, FS_RemoveElement
<1>4. completed'[c] = 0 /\ \A x \in Clients : x # c => completed'[x] = completed[x]
  BY <1>1, <1>2 DEF TypeOK
<1>5. \A x \in sessions : completed[x] \in Nat /\ x \in Clients
  BY <1>1, CompletedIsNat
<1>6. \A x \in sessions' : completed[x] \in Nat /\ completed[x] = completed'[x]
  BY <1>2, <1>4, <1>5
<1>7. Sum(completed, sessions') = Sum(completed', sessions')
  BY <1>3, <1>6, SumsAgree
<1>8. Sum(completed, sessions) = Sum(completed, sessions') + completed[c]
  BY <1>1, <1>2, <1>5, SumWithout
<1>9. Sum(completed, sessions') \in Nat
  BY <1>3, <1>6, SumIsNat
<1>10. \A x \in Clients \ sessions' : completed'[x] = 0
  BY <1>2, <1>4 DEF StatInv
<1>11. totalChunks \in Nat /\ jobChunks <= totalChunks /\ Sum(completed, sessions) <= totalChunks
       /\ completed[c] \in Nat
  BY <1>1, CompletedIsNat DEF StatInv, CountersFit
<1>12. Sum(completed', sessions') <= totalChunks'
  BY <1>2, <1>7, <1>8, <1>9, <1>11
<1> QED BY <1>2, <1>3, <1>10, <1>11, <1>12 DEF CountersStep

\* A session has completed no more chunks than all together.
LEMMA OneOfTheSum ==
    ASSUME StatInv, NEW c \in Clients
    PROVE  completed[c] \in Nat /\ completed[c] <= totalChunks
<1>1. TypeOK /\ IsFiniteSet(sessions) /\ totalChunks \in Nat
  BY CompletedIsNat DEF StatInv
<1>2. \A x \in Clients : completed[x] \in Nat
  BY <1>1, CompletedIsNat
<1>3. CASE c \notin sessions
  BY <1>1, <1>3 DEF StatInv
<1>4. CASE c \in sessions
  <2>1. \A x \in sessions : completed[x] \in Nat
    BY <1>1, <1>2, CompletedIsNat
  <2>2. Sum(completed, sessions) = Sum(completed, sessions \ {c}) + completed[c]
    BY <1>1, <1>4, <2>1, SumWithout
  <2>3. IsFiniteSet(sessions \ {c})
    BY <1>1, FS_RemoveElement
  <2>4. Sum(completed, sessions \ {c}) \in Nat
    BY <2>1, <2>3, SumIsNat
  <2>5. Sum(completed, sessions) <= totalChunks
    BY DEF StatInv, CountersFit
  <2> QED BY <1>1, <1>2, <2>2, <2>4, <2>5
<1> QED BY <1>3, <1>4

LEMMA CompletedCounts ==
    ASSUME StatInv, NEW c \in Clients, Completed(c)
    PROVE  CountersStep
<1>1. TypeOK /\ IsFiniteSet(sessions)
  BY DEF StatInv
<1>2. /\ sessions' = sessions /\ c \in sessions
      /\ completed' = [completed EXCEPT ![c] = @ + 1]
      /\ jobChunks' = jobChunks + 1 /\ totalChunks' = totalChunks + 1
  BY DEF Completed
<1>3. completed'[c] = completed[c] + 1 /\ \A x \in Clients : x # c => completed'[x] = completed[x]
  BY <1>1, <1>2 DEF TypeOK
<1>4. \A x \in sessions : completed[x] \in Nat /\ completed'[x] \in Nat /\ x \in Clients
  BY <1>1, <1>3, CompletedIsNat
<1> DEFINE rest == sessions \ {c}
<1>5. IsFiniteSet(rest) /\ rest \subseteq sessions
  BY <1>1, FS_RemoveElement
<1>6. Sum(completed, rest) = Sum(completed', rest)
  <2>1. \A x \in rest : completed[x] \in Nat /\ completed[x] = completed'[x]
    BY <1>3, <1>4
  <2> HIDE DEF rest
  <2> QED BY <1>5, <2>1, SumsAgree
<1>7. Sum(completed, sessions) = Sum(completed, rest) + completed[c]
  BY <1>1, <1>2, <1>4, SumWithout
<1>8. Sum(completed', sessions) = Sum(completed', rest) + completed'[c]
  BY <1>1, <1>2, <1>4, SumWithout
<1>9. Sum(completed, rest) \in Nat
  BY <1>4, <1>5, SumIsNat
<1>10. /\ totalChunks \in Nat /\ jobChunks \in Nat /\ jobChunks <= totalChunks
       /\ Sum(completed, sessions) <= totalChunks /\ completed[c] \in Nat
  BY <1>1, CompletedIsNat DEF StatInv, CountersFit
<1>11. Sum(completed', sessions') <= totalChunks' /\ jobChunks' <= totalChunks'
  BY <1>2, <1>3, <1>6, <1>7, <1>8, <1>9, <1>10
<1>12. \A x \in Clients \ sessions' : completed'[x] = 0
  BY <1>2, <1>3 DEF StatInv
<1> QED BY <1>1, <1>2, <1>11, <1>12 DEF CountersStep

LEMMA NextCounts ==
    ASSUME StatInv, [Next]_vars
    PROVE  CountersStep
<1>1. CASE \E c \in Clients : Accept(c) \/ Leave(c) \/ Completed(c)
  BY <1>1, AcceptCounts, LeaveCounts, CompletedCounts
<1>2. CASE NewCleanJob
  <2>1. jobChunks' = 0 /\ totalChunks' = totalChunks /\ sessions' = sessions /\ completed' = completed
    BY <1>2 DEF NewCleanJob, clients
  <2>2. totalChunks \in Nat
    BY CompletedIsNat DEF StatInv
  <2> QED BY <2>1, <2>2 DEF CountersStep, StatInv, CountersFit
<1>3. CASE jobChunks' = jobChunks /\ totalChunks' = totalChunks /\ sessions' = sessions
           /\ completed' = completed
  BY <1>3 DEF CountersStep, StatInv, CountersFit
<1>4. \/ \E c \in Clients : Accept(c) \/ Leave(c) \/ Completed(c)
      \/ NewCleanJob
      \/ jobChunks' = jobChunks /\ totalChunks' = totalChunks /\ sessions' = sessions
           /\ completed' = completed
  BY DEF Next, Counts, Stats, Found, PoolLost, DumpBegins, AddTimeEntry, Stamp, Publish, Second,
         vars, counters, clients
<1> QED BY <1>1, <1>2, <1>3, <1>4

\* The time entries after a push: the newest is the entry, the others keep
\* their distance from it; the oldest is dropped when the ring is full.
LEMMA PushedIs ==
    ASSUME TypeOK
    PROVE  /\ Pushed \in Seq(Entry) /\ Len(Pushed) \in 1 .. Ring
           /\ Pushed[Len(Pushed)] = entry
           /\ \A i \in 1 .. Len(Pushed) - 1 :
                 LET j == i + (Len(timeStats) + 1 - Len(Pushed)) IN
                 j \in DOMAIN timeStats /\ Pushed[i] = timeStats[j]
<1> DEFINE longer == Append(timeStats, entry)
           n == Len(timeStats)
<1>1. /\ timeStats \in Seq(Entry) /\ entry \in Entry /\ n \in Nat /\ n <= Ring
  BY DEF TypeOK
<1>2. /\ longer \in Seq(Entry) /\ Len(longer) = n + 1
      /\ longer[n + 1] = entry /\ \A i \in 1 .. n : longer[i] = timeStats[i]
  BY <1>1
<1>3. Pushed = IF Len(longer) > Ring THEN Tail(longer) ELSE longer
  BY DEF Pushed
<1>4. DOMAIN timeStats = 1 .. n
  BY <1>1
<1> HIDE DEF longer, n
<1>5. CASE n + 1 > Ring
  <2>1. Pushed = Tail(longer) /\ longer # <<>>
    BY <1>1, <1>2, <1>3, <1>5
  <2>2. /\ Pushed \in Seq(Entry) /\ Len(Pushed) = n
        /\ \A i \in 1 .. n : Pushed[i] = longer[i + 1]
    BY <1>1, <1>2, <2>1
  <2>3. n \in 1 .. Ring
    BY <1>1, <1>5
  <2>4. Pushed[n] = entry
    BY <1>2, <2>2, <2>3
  <2>5. ASSUME NEW i \in 1 .. n - 1
        PROVE  i + (n + 1 - n) \in 1 .. n /\ Pushed[i] = timeStats[i + (n + 1 - n)]
    BY <1>1, <1>2, <2>2
  <2> QED BY <1>4, <2>2, <2>3, <2>4, <2>5 DEF n
<1>6. CASE ~ (n + 1 > Ring)
  <2>1. Pushed = longer /\ Len(Pushed) = n + 1 /\ n + 1 \in 1 .. Ring
    BY <1>1, <1>2, <1>3, <1>6
  <2>2. ASSUME NEW i \in 1 .. (n + 1) - 1
        PROVE  i + (n + 1 - (n + 1)) \in 1 .. n /\ Pushed[i] = timeStats[i + (n + 1 - (n + 1))]
    BY <1>1, <1>2, <2>1
  <2> QED BY <1>2, <1>4, <2>1, <2>2 DEF n
<1> QED BY <1>5, <1>6

LEMMA PushedEntries ==
    ASSUME TypeOK
    PROVE  \A i \in DOMAIN Pushed :
              Pushed[i] = entry \/ \E j \in DOMAIN timeStats : Pushed[i] = timeStats[j]
<1>1. Pushed \in Seq(Entry) /\ Len(Pushed) \in 1 .. Ring
  BY PushedIs
<1>2. ASSUME NEW i \in DOMAIN Pushed, i # Len(Pushed) PROVE i \in 1 .. Len(Pushed) - 1
  BY <1>1, <1>2
<1> QED BY <1>2, PushedIs

LEMMA NextTypeOK ==
    ASSUME StatInv, [Next]_vars
    PROVE  TypeOK'
<1>1. TypeOK
  BY DEF StatInv
<1>2. /\ 0 \in Rates \cup {0} /\ 0 \in 0 .. MaxChunks /\ 0 \in Distances \cup {0}
      /\ now \in Times
  BY <1>1 DEF TypeOK
<1>3. CASE \E c \in Clients : Accept(c) \/ Leave(c)
  <2>1. PICK c \in Clients : Accept(c) \/ Leave(c)
    BY <1>3
  <2>2. /\ sessions' \subseteq Clients /\ rate' \in [Clients -> Rates \cup {0}]
        /\ completed' \in [Clients -> 0 .. MaxChunks]
        /\ UNCHANGED <<now, counters, reported, written>>
    <3>1. CASE Accept(c)
      BY <1>1, <3>1 DEF TypeOK, Accept
    <3>2. CASE Leave(c)
      BY <1>1, <1>2, <3>2 DEF TypeOK, Leave
    <3> QED BY <2>1, <3>1, <3>2
  <2> QED BY <1>1, <2>2 DEF TypeOK, counters, reported, written
<1>4. CASE \E c \in Clients : Completed(c)
  <2>1. PICK c \in Clients : Completed(c)
    BY <1>4
  <2>2. /\ totalChunks < MaxChunks /\ completed' = [completed EXCEPT ![c] = @ + 1]
        /\ jobChunks' = jobChunks + 1 /\ totalChunks' = totalChunks + 1
        /\ UNCHANGED <<now, sessions, rate, totalJobs, totalBlocks, reported, written>>
    BY <2>1 DEF Completed
  <2>3. completed[c] \in Nat /\ completed[c] <= totalChunks
    BY OneOfTheSum
  <2>4. totalChunks \in Nat /\ jobChunks \in Nat /\ jobChunks <= totalChunks
    BY <1>1, CompletedIsNat DEF StatInv, CountersFit
  <2>5. /\ completed[c] + 1 \in 0 .. MaxChunks
        /\ jobChunks' \in 0 .. MaxChunks /\ totalChunks' \in 0 .. MaxChunks
    BY <2>2, <2>3, <2>4
  <2>6. completed' \in [Clients -> 0 .. MaxChunks]
    BY <1>1, <2>2, <2>5 DEF TypeOK
  <2> QED BY <1>1, <2>2, <2>5, <2>6 DEF TypeOK, reported, written
<1>5. CASE \E c \in Clients, e \in Extranonce2s, d \in Distances, r \in Rates : Stats(c, e, d, r)
  <2>1. PICK c \in Clients, e \in Extranonce2s, d \in Distances, r \in Rates : Stats(c, e, d, r)
    BY <1>5
  <2>2. /\ best' \in [Extranonce2s -> Distances \cup {0}]
        /\ dated' \in [Distances -> Times]
        /\ rate' \in [Clients -> Rates \cup {0}]
        /\ UNCHANGED <<now, sessions, completed, counters, written>>
    BY <1>1, <1>2, <2>1 DEF TypeOK, Stats
  <2> QED BY <1>1, <2>2 DEF TypeOK, counters, written
<1>6. CASE Found
  BY <1>1, <1>6 DEF Found, TypeOK, clients, reported, written
<1>7. CASE NewCleanJob
  <2>1. best' \in [Extranonce2s -> Distances \cup {0}]
    BY <1>2, <1>7 DEF NewCleanJob
  <2>2. jobChunks' \in 0 .. MaxChunks /\ totalJobs' \in 0 .. MaxJobs
    BY <1>1, <1>2, <1>7 DEF NewCleanJob, TypeOK
  <2> QED BY <1>1, <1>7, <2>1, <2>2 DEF NewCleanJob, TypeOK, clients, written
<1>8. CASE PoolLost
  <2>1. best' \in [Extranonce2s -> Distances \cup {0}]
    BY <1>2, <1>8 DEF PoolLost
  <2> QED BY <1>1, <1>8, <2>1 DEF PoolLost, TypeOK, clients, counters, written
<1>9. CASE DumpBegins
  <2>1. \A c \in sessions : rate[c] \in Nat
    <3>1. Rates \cup {0} \subseteq Nat
      OBVIOUS
    <3>2. \A c \in Clients : rate[c] \in Rates \cup {0}
      BY <1>1 DEF TypeOK
    <3> QED BY <1>1, <3>1, <3>2 DEF TypeOK
  <2>2. HashRate \in 0 .. Space - 1
    BY <2>1, HashRateFits DEF StatInv
  <2>3. GetBestDistance \in Distances \cup {0}
    BY <1>1, BestIsReported DEF TypeOK
  <2>4. entry' \in Entry
    BY <1>2, <1>9, <2>2, <2>3 DEF DumpBegins, Entry
  <2> QED BY <1>1, <1>9, <2>4 DEF DumpBegins, TypeOK, clients, counters, reported
<1>10. CASE AddTimeEntry
  <2>1. Pushed \in Seq(Entry) /\ Len(Pushed) <= Ring
    BY <1>1, PushedIs
  <2> QED BY <1>1, <1>10, <2>1 DEF AddTimeEntry, TypeOK, clients, counters, reported
<1>11. CASE Stamp
  BY <1>1, <1>2, <1>11 DEF Stamp, TypeOK, clients, counters, reported
<1>12. CASE Publish
  <2>1. NoEntry \in Entry
    <3>1. 0 \in Times /\ 0 \in 0 .. Space - 1
      BY DEF Times
    <3> QED BY <3>1 DEF NoEntry, Entry
  <2> QED BY <1>1, <1>2, <1>12, <2>1 DEF Publish, TypeOK, clients, counters, reported
<1>13. CASE Second
  <2>1. now' \in Times
    BY <1>2, <1>13 DEF Second, Times
  <2> QED BY <1>1, <1>13, <2>1 DEF Second, TypeOK, clients, counters, reported, written
<1>14. CASE UNCHANGED vars
  BY <1>1, <1>14 DEF TypeOK, vars, clients, counters, reported, written
<1> QED
  BY <1>3, <1>4, <1>5, <1>6, <1>7, <1>8, <1>9, <1>10, <1>11, <1>12, <1>13, <1>14 DEF Next, Counts

\* A distance that is dated.
IsDated(d) == d > 0 => dated[d] \in 1 .. now

\* Once dated, always dated: no step takes a date back.
LEMMA DatesStay ==
    ASSUME StatInv, [Next]_vars
    PROVE  \A d \in Distances \cup {0} : IsDated(d) => IsDated(d)'
<1>1. TypeOK /\ now \in Nat /\ now >= 1
  BY DEF StatInv, TypeOK, Times
<1>2. CASE \E c \in Clients, e \in Extranonce2s, d \in Distances, r \in Rates : Stats(c, e, d, r)
  <2>1. PICK c \in Clients, e \in Extranonce2s, d \in Distances, r \in Rates : Stats(c, e, d, r)
    BY <1>2
  <2>2. dated' = [dated EXCEPT ![d] = now] /\ now' = now
    BY <2>1 DEF Stats
  <2>3. ASSUME NEW x \in Distances \cup {0}, IsDated(x) PROVE IsDated(x)'
    <3>1. CASE x = d
      BY <1>1, <2>2, <3>1 DEF IsDated, TypeOK
    <3>2. CASE x # d
      BY <1>1, <2>2, <2>3, <3>2 DEF IsDated, TypeOK
    <3> QED BY <3>1, <3>2
  <2> QED BY <2>3
<1>3. CASE dated' = dated /\ (now' = now \/ now' = now + 1)
  BY <1>1, <1>3 DEF IsDated
<1>4. \/ \E c \in Clients, e \in Extranonce2s, d \in Distances, r \in Rates : Stats(c, e, d, r)
      \/ dated' = dated /\ (now' = now \/ now' = now + 1)
  BY DEF Next, Counts, Accept, Leave, Completed, Found, NewCleanJob, PoolLost, DumpBegins,
         AddTimeEntry, Stamp, Publish, Second, vars, clients, counters, reported, written
<1> QED BY <1>2, <1>3, <1>4

\* Every distance that is shown is dated, whether it is reported, about to be
\* recorded or among the time entries.
LEMMA NextDated ==
    ASSUME StatInv, [Next]_vars
    PROVE  DistancesAreDated' /\ IsDated(entry.distance)'
<1>1. TypeOK /\ now \in Nat /\ now >= 1
  BY DEF StatInv, TypeOK, Times
<1>2. /\ \A e \in Extranonce2s : best[e] \in Distances \cup {0} /\ IsDated(best[e])
      /\ \A i \in DOMAIN timeStats :
            timeStats[i].distance \in Distances \cup {0} /\ IsDated(timeStats[i].distance)
      /\ entry.distance \in Distances \cup {0} /\ IsDated(entry.distance)
  <2>1. \A i \in DOMAIN timeStats : timeStats[i] \in Entry
    BY <1>1 DEF TypeOK
  <2>2. \A x \in Entry : x.distance \in Distances \cup {0}
    BY DEF Entry
  <2>3. entry \in Entry /\ \A e \in Extranonce2s : best[e] \in Distances \cup {0}
    BY <1>1 DEF TypeOK
  <2> QED BY <2>1, <2>2, <2>3 DEF StatInv, DistancesAreDated, EntryFits, IsDated
<1>3. \A d \in Distances \cup {0} : IsDated(d) => IsDated(d)'
  BY DatesStay
<1>4. IsDated(0)'
  BY DEF IsDated
<1>5. \A e \in Extranonce2s : IsDated(best[e])'
  <2>1. CASE \E c \in Clients, e \in Extranonce2s, d \in Distances, r \in Rates : Stats(c, e, d, r)
    <3>1. PICK c \in Clients, e \in Extranonce2s, d \in Distances, r \in Rates : Stats(c, e, d, r)
      BY <2>1
    <3>2. /\ best' = [best EXCEPT ![e] = d] /\ dated' = [dated EXCEPT ![d] = now]
          /\ now' = now
      BY <3>1 DEF Stats
    <3>3. IsDated(d)'
      BY <1>1, <3>2 DEF IsDated, TypeOK
    <3>4. \A x \in Extranonce2s : best'[x] = d \/ best'[x] = best[x]
      BY <1>1, <3>2 DEF TypeOK
    <3> QED BY <1>2, <1>3, <3>3, <3>4 DEF IsDated
  <2>2. CASE best' = [e \in Extranonce2s |-> 0]
    BY <1>4, <2>2 DEF IsDated
  <2>3. CASE best' = best
    BY <1>2, <1>3, <2>3 DEF IsDated
  <2>4. \/ \E c \in Clients, e \in Extranonce2s, d \in Distances, r \in Rates : Stats(c, e, d, r)
        \/ best' = [e \in Extranonce2s |-> 0]
        \/ best' = best
    BY DEF Next, Counts, Accept, Leave, Completed, Found, NewCleanJob, PoolLost, DumpBegins,
           AddTimeEntry, Stamp, Publish, Second, vars, clients, counters, reported, written
  <2> QED BY <2>1, <2>2, <2>3, <2>4
<1>6. IsDated(entry.distance)'
  <2>1. CASE DumpBegins
    <3>1. PICK e \in Extranonce2s : GetBestDistance = best[e]
      BY <1>1, BestIsReported DEF TypeOK
    <3>2. entry'.distance = best[e] /\ best' = best
      BY <2>1, <3>1 DEF DumpBegins, reported
    <3> QED BY <1>5, <3>2 DEF IsDated
  <2>2. CASE Publish
    BY <1>4, <2>2 DEF Publish, NoEntry, IsDated
  <2>3. CASE entry' = entry
    BY <1>2, <1>3, <2>3 DEF IsDated
  <2>4. DumpBegins \/ Publish \/ entry' = entry
    BY DEF Next, Counts, Accept, Leave, Completed, Stats, Found, NewCleanJob, PoolLost,
           AddTimeEntry, Stamp, Second, vars, clients, counters, reported, written
  <2> QED BY <2>1, <2>2, <2>3, <2>4
<1>7. \A i \in DOMAIN timeStats' : IsDated(timeStats[i].distance)'
  <2>1. CASE timeStats' = Pushed
    <3>1. \A i \in DOMAIN Pushed :
              Pushed[i] = entry \/ \E j \in DOMAIN timeStats : Pushed[i] = timeStats[j]
      BY <1>1, PushedEntries
    <3>3. ASSUME NEW i \in DOMAIN timeStats' PROVE IsDated(timeStats[i].distance)'
      <4>1. PICK d \in Distances \cup {0} : d = timeStats'[i].distance /\ IsDated(d)
        BY <1>2, <2>1, <3>1
      <4>2. IsDated(d)'
        BY <1>3, <4>1
      <4> QED BY <4>1, <4>2 DEF IsDated
    <3> QED BY <3>3
  <2>2. CASE timeStats' = timeStats
    BY <1>2, <1>3, <2>2 DEF IsDated
  <2>3. timeStats' = Pushed \/ timeStats' = timeStats
    BY DEF Next, Counts, Accept, Leave, Completed, Stats, Found, NewCleanJob, PoolLost,
           DumpBegins, AddTimeEntry, Stamp, Publish, Second, vars, clients, counters, reported,
           written
  <2> QED BY <2>1, <2>2, <2>3
<1> QED BY <1>5, <1>6, <1>7 DEF DistancesAreDated, IsDated

-------------------------------------------------------------------------------
(***************************************************************************)
(* The time entries.                                                       *)
(***************************************************************************)

\* The positions of the entries and their times.
LEMMA EntriesAre ==
    ASSUME TypeOK
    PROVE  /\ Len(timeStats) \in Nat /\ DOMAIN timeStats = 1 .. Len(timeStats)
           /\ \A i \in DOMAIN timeStats : timeStats[i].epoch \in Nat
           /\ now \in Nat /\ lastTimeEntry \in Nat /\ entry.epoch \in Nat
<1>1. \A x \in Entry : x.epoch \in Nat
  BY DEF Entry, Times
<1>2. timeStats \in Seq(Entry) /\ entry \in Entry
  BY DEF TypeOK
<1>3. \A i \in DOMAIN timeStats : timeStats[i] \in Entry
  BY <1>2
<1>4. now \in Nat /\ lastTimeEntry \in Nat
  BY DEF TypeOK, Times
<1>5. Len(timeStats) \in Nat /\ DOMAIN timeStats = 1 .. Len(timeStats)
  BY <1>2
<1> QED BY <1>1, <1>2, <1>3, <1>4, <1>5

\* The products the spacing is stated with.
LEMMA Products ==
    ASSUME NEW k \in Nat
    PROVE  k * Period \in Nat /\ (k + 1) * Period = k * Period + Period
OBVIOUS

\* The push: the clock has moved on by a period since the stamp, and the new
\* entry was dated at most a second before.
LEMMA PushSpaces ==
    ASSUME StatInv, AddTimeEntry, now - lastTimeEntry >= Period
    PROVE  EntriesAreSpaced' /\ ClockKeepsAhead'
<1>1. TypeOK
  BY DEF StatInv
<1>2. /\ timeStats' = Pushed /\ dump' = "stamp" /\ dump = "entry" /\ now' = now
  BY DEF AddTimeEntry
<1> DEFINE n == Len(timeStats)
           m == Len(Pushed)
           shift == n + 1 - m
<1>3. /\ m \in Nat /\ m >= 1 /\ DOMAIN Pushed = 1 .. m /\ Pushed[m] = entry /\ n \in Nat
      /\ \A i \in 1 .. m - 1 : i + shift \in 1 .. n /\ Pushed[i] = timeStats[i + shift]
  BY <1>1, PushedIs, EntriesAre
<1>4. /\ \A i \in 1 .. n : timeStats[i].epoch \in Nat
      /\ now \in Nat /\ lastTimeEntry \in Nat /\ entry.epoch \in Nat
      /\ entry.epoch \in {now - 1, now}
  BY <1>1, <1>2, EntriesAre DEF StatInv, EntryFits
<1>5. \A i \in 1 .. n : lastTimeEntry - timeStats[i].epoch >= (n - i) * Period
  BY <1>1, <1>2, EntriesAre DEF StatInv, ClockKeepsAhead
<1>6. \A i, j \in 1 .. n :
          i < j => timeStats[j].epoch - timeStats[i].epoch >= (j - i) * Period - 1
  BY <1>1, EntriesAre DEF StatInv, EntriesAreSpaced
<1> HIDE DEF n, m, shift
<1>7. m + shift = n + 1 /\ shift \in Int
  BY <1>3 DEF shift
<1>8. ASSUME NEW i \in 1 .. m - 1
      PROVE  now - Pushed[i].epoch >= (m - i) * Period
  <2>1. i + shift \in 1 .. n /\ Pushed[i] = timeStats[i + shift]
    BY <1>3
  <2> DEFINE k == n - (i + shift)
             e == Pushed[i].epoch
  <2>2. lastTimeEntry - e >= k * Period /\ e \in Nat
    BY <1>4, <1>5, <2>1
  <2>3. k \in Nat /\ m - i = k + 1
    BY <1>3, <1>7, <2>1
  <2> HIDE DEF k, e
  <2>4. (m - i) * Period = k * Period + Period /\ k * Period \in Nat
    BY <2>3, Products
  <2> DEFINE kp == k * Period
  <2> HIDE DEF kp
  <2>5. kp \in Nat /\ lastTimeEntry - e >= kp /\ (m - i) * Period = kp + Period
    BY <2>2, <2>4 DEF kp
  <2>6. now - e >= kp + Period
    BY <1>4, <2>2, <2>5
  <2> QED BY <2>5, <2>6 DEF e
<1>9. ClockKeepsAhead'
  <2>1. ASSUME NEW i \in 1 .. m PROVE now - Pushed[i].epoch >= (m - i) * Period
    <3>1. CASE i = m
      <4>1. m - i = 0 /\ 0 * Period = 0
        BY <1>3, <3>1
      <4> QED BY <1>3, <1>4, <3>1, <4>1
    <3>2. CASE i # m
      <4>1. i \in 1 .. m - 1
        BY <1>3, <3>2
      <4> QED BY <4>1, <1>8
    <3> QED BY <3>1, <3>2
  <2> QED BY <1>2, <1>3, <2>1 DEF ClockKeepsAhead, m
<1>10. ASSUME NEW i \in 1 .. m, NEW j \in 1 .. m, i < j
       PROVE  Pushed[j].epoch - Pushed[i].epoch >= (j - i) * Period - 1
  <2>1. i \in 1 .. m - 1
    BY <1>3, <1>10
  <2>2. i + shift \in 1 .. n /\ Pushed[i] = timeStats[i + shift] /\ Pushed[i].epoch \in Nat
    BY <1>3, <1>4, <2>1
  <2>3. CASE j = m
    <3> DEFINE span == (m - i) * Period
               e == Pushed[i].epoch
    <3>1. now - e >= span
      BY <1>8, <2>1
    <3>2. span \in Nat
      BY <1>3, <2>1, Products
    <3> HIDE DEF span, e
    <3>3. entry.epoch - e >= span - 1
      BY <1>4, <2>2, <3>1, <3>2 DEF e
    <3> QED BY <1>3, <2>3, <3>3 DEF span, e
  <2>4. CASE j # m
    <3>1. j \in 1 .. m - 1
      BY <1>3, <2>4
    <3>2. j + shift \in 1 .. n /\ Pushed[j] = timeStats[j + shift]
      BY <1>3, <3>1
    <3>3. i + shift < j + shift /\ (j + shift) - (i + shift) = j - i
      BY <1>7, <1>10
    <3> QED BY <1>6, <2>2, <3>2, <3>3
  <2> QED BY <2>3, <2>4
<1>11. EntriesAreSpaced'
  BY <1>2, <1>3, <1>10 DEF EntriesAreSpaced
<1> QED BY <1>9, <1>11

\* Every other step leaves the entries and does not take the clock back.
LEMMA NextSpaced ==
    ASSUME StatInv, [Next]_vars
    PROVE  EntriesAreSpaced' /\ ClockKeepsAhead'
<1>1. TypeOK
  BY DEF StatInv
<1>2. CASE AddTimeEntry /\ now - lastTimeEntry >= Period
  BY <1>2, PushSpaces
<1> DEFINE reading == IF dump = "stamp" THEN now ELSE lastTimeEntry
           later == IF dump' = "stamp" THEN now' ELSE lastTimeEntry'
<1>3. CASE timeStats' = timeStats /\ later >= reading /\ later \in Nat
  <2>1. EntriesAreSpaced'
    BY <1>3 DEF StatInv, EntriesAreSpaced
  <2>2. reading \in Nat
    BY <1>1, EntriesAre
  <2>3. \A i \in DOMAIN timeStats :
            /\ reading - timeStats[i].epoch >= (Len(timeStats) - i) * Period
            /\ timeStats[i].epoch \in Nat
    BY <1>1, EntriesAre DEF StatInv, ClockKeepsAhead
  <2>4. ASSUME NEW i \in DOMAIN timeStats
        PROVE  later - timeStats[i].epoch >= (Len(timeStats) - i) * Period
    <3> DEFINE span == (Len(timeStats) - i) * Period
    <3>1. span \in Nat
      <4>1. Len(timeStats) - i \in Nat
        BY <1>1, EntriesAre
      <4> QED BY <4>1, Products
    <3>2. reading - timeStats[i].epoch >= span /\ timeStats[i].epoch \in Nat
      BY <2>3
    <3> HIDE DEF span, reading, later
    <3>3. later - timeStats[i].epoch >= span
      BY <1>3, <2>2, <3>1, <3>2
    <3> QED BY <3>3 DEF span
  <2> QED BY <1>3, <2>1, <2>4 DEF ClockKeepsAhead
<1>4. \/ AddTimeEntry /\ now - lastTimeEntry >= Period
      \/ timeStats' = timeStats /\ later >= reading /\ later \in Nat
  <2>1. now \in Nat /\ lastTimeEntry \in Nat
    BY <1>1, EntriesAre
  <2>2. CASE AddTimeEntry
    BY <2>1, <2>2 DEF AddTimeEntry
  <2>3. CASE Stamp
    BY <2>1, <2>3 DEF Stamp
  <2>4. CASE Second
    BY <2>1, <2>4 DEF Second, written
  <2>5. CASE DumpBegins \/ Publish
    BY <2>1, <2>5 DEF DumpBegins, Publish
  <2>6. CASE now' = now /\ UNCHANGED written
    BY <2>1, <2>6 DEF written
  <2>7. AddTimeEntry \/ Stamp \/ Second \/ DumpBegins \/ Publish
       \/ (now' = now /\ UNCHANGED written)
    BY DEF Next, Counts, Accept, Leave, Completed, Stats, Found, NewCleanJob, PoolLost, vars,
           written
  <2> QED BY <2>2, <2>3, <2>4, <2>5, <2>6, <2>7
<1> QED BY <1>2, <1>3, <1>4

\* A dump lasts less than a second.
LEMMA NextEntryFits ==
    ASSUME StatInv, [Next]_vars
    PROVE  EntryFits' /\ Period <= now'
<1>1. TypeOK /\ now \in Nat /\ entry.epoch \in Nat /\ Period <= now
  BY EntriesAre DEF StatInv
<1>2. dump # "idle" => entry.epoch \in {now - 1, now}
  BY DEF StatInv, EntryFits
<1>3. dump' # "idle" => entry'.epoch \in {now' - 1, now'}
  <2>1. CASE DumpBegins
    BY <1>1, <2>1 DEF DumpBegins
  <2>2. CASE Second
    BY <1>1, <2>2 DEF Second, written
  <2>3. CASE Publish
    BY <2>3 DEF Publish
  <2>4. CASE now' = now /\ entry' = entry /\ dump # "idle"
    BY <1>2, <2>4
  <2>5. CASE dump' = dump /\ now' = now /\ entry' = entry
    BY <1>2, <2>5
  <2>6. \/ DumpBegins \/ Second \/ Publish
        \/ now' = now /\ entry' = entry /\ dump # "idle"
        \/ dump' = dump /\ now' = now /\ entry' = entry
    BY DEF Next, Counts, Accept, Leave, Completed, Stats, Found, NewCleanJob, PoolLost, vars,
           AddTimeEntry, Stamp, written
  <2> QED BY <2>1, <2>2, <2>3, <2>4, <2>5, <2>6
<1>4. now' = now \/ now' = now + 1
  BY DEF Next, Counts, Accept, Leave, Completed, Stats, Found, NewCleanJob, PoolLost, vars,
         DumpBegins, AddTimeEntry, Stamp, Publish, Second
<1>5. IsDated(entry.distance)'
  BY NextDated
<1>6. Period <= now'
  BY <1>1, <1>4
<1> QED BY <1>3, <1>5, <1>6 DEF EntryFits, IsDated

LEMMA NextStatInv ==
    ASSUME StatInv, [Next]_vars
    PROVE  StatInv'
BY NextTypeOK, NextCounts, NextDated, NextSpaced, NextEntryFits
   DEF StatInv, CountersStep, CountersFit

\* The inductive invariant holds in every reachable state.
THEOREM StatisticsInvariance == Spec => []StatInv
<1>1. StatInv /\ [Next]_vars => StatInv'
  BY NextStatInv
<1> QED BY <1>1, InitStatInv, PTL DEF Spec

\* Every variable keeps its type: the published hash rate fits in 32 bits
\* whatever the miners report, and the ring of time entries keeps its size.
THEOREM StatisticsTypeCorrect == Spec => []TypeOK
<1>1. StatInv => TypeOK
  BY DEF StatInv
<1> QED BY <1>1, StatisticsInvariance, PTL

\* Whenever stats.json is written its counters fit together, every distance it
\* shows is in its history, and its time entries lie a period apart.
THEOREM WhatIsPublishedFits == Spec => []PublishedIsConsistent
<1>1. StatInv => PublishedIsConsistent
  BY DEF StatInv, PublishedIsConsistent
<1> QED BY <1>1, StatisticsInvariance, PTL
==============================================================================
