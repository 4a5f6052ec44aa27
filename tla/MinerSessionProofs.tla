--------------------------- MODULE MinerSessionProofs ---------------------------
(***************************************************************************)
(* Proofs about MinerSession, for every length of the stream and wherever   *)
(* TCP cuts it: the server handles the lines the miner sent, a chunk is      *)
(* handed out only to a miner that waits, and a session is closed only for   *)
(* one of the reasons the code knows.                                      *)
(***************************************************************************)
EXTENDS MinerSession, FiniteSetTheorems, SequenceTheorems, TLAPS

USE MinerSessionAssumption

-------------------------------------------------------------------------------
(***************************************************************************)
(* The line ends of a buffer and their order.                              *)
(***************************************************************************)

Rank(S, i) == Cardinality({j \in S : j < i})

\* The rank in a finite set of naturals counts from zero, strictly upwards.
LEMMA RankIncreases ==
    ASSUME NEW S \in SUBSET Nat, IsFiniteSet(S), NEW i \in S
    PROVE  /\ Rank(S, i) \in 0 .. Cardinality(S) - 1
           /\ \A j \in S : i < j => Rank(S, i) < Rank(S, j)
<1> DEFINE B(x) == {j \in S : j < x}
<1>1. ASSUME NEW T \in SUBSET S, i \in T PROVE Rank(S, i) \in Nat /\
             (B(i) \subseteq T => Rank(S, i) < Cardinality(T)) /\ Cardinality(T) \in Nat
  <2>1. IsFiniteSet(T) /\ IsFiniteSet(B(i))
    BY FS_Subset
  <2>2. Cardinality(T) \in Nat /\ Cardinality(B(i)) \in Nat
    BY <2>1, FS_CardinalityType
  <2>3. i \notin B(i)
    OBVIOUS
  <2>4. ASSUME B(i) \subseteq T PROVE Cardinality(B(i)) < Cardinality(T)
    <3> HIDE DEF B
    <3>1. /\ Cardinality(B(i)) <= Cardinality(T)
          /\ Cardinality(T) = Cardinality(B(i)) => T = B(i)
      BY <2>1, <2>4, FS_Subset
    <3> QED BY <3>1, <2>2, <2>3, <1>1
  <2> QED BY <2>2, <2>4 DEF Rank
<1>2. Rank(S, i) < Cardinality(S) /\ Rank(S, i) \in Nat /\ Cardinality(S) \in Nat
  BY <1>1
<1>3. ASSUME NEW j \in S, i < j PROVE Rank(S, i) < Rank(S, j)
  <2>1. i \in B(j) /\ B(j) \subseteq S
    BY <1>3
  <2>2. \A x \in S : x < i => x < j
    <3> TAKE x \in S
    <3>1. x \in Nat /\ i \in Nat /\ j \in Nat
      OBVIOUS
    <3> QED BY <3>1, <1>3
  <2>3. B(i) \subseteq B(j)
    BY <2>2
  <2> QED BY <2>1, <2>3, <1>1 DEF Rank
<1>4. Rank(S, i) \in 0 .. Cardinality(S) - 1
  BY <1>2
<1> QED BY <1>3, <1>4, Zenon

\* Every rank below the size of the set is the rank of exactly one element.
LEMMA RankIsTaken ==
    ASSUME NEW S \in SUBSET Nat, IsFiniteSet(S), NEW r \in 0 .. Cardinality(S) - 1
    PROVE  /\ \E i \in S : Rank(S, i) = r
           /\ \A i, j \in S : Rank(S, i) = r /\ Rank(S, j) = r => i = j
<1> DEFINE f == [i \in S |-> Rank(S, i)]
           T == 0 .. Cardinality(S) - 1
<1>1. \A i \in S : Rank(S, i) \in T
  BY RankIncreases
<1>2. \A i, j \in S : Rank(S, i) = Rank(S, j) => i = j
  <2> SUFFICES ASSUME NEW i \in S, NEW j \in S, i < j PROVE Rank(S, i) # Rank(S, j)
    OBVIOUS
  <2>1. Rank(S, i) < Rank(S, j) /\ Rank(S, i) \in T /\ Rank(S, j) \in T
    BY <1>1, RankIncreases
  <2> QED BY <2>1
<1>3. f \in Injection(S, T)
  BY <1>1, <1>2 DEF Injection, IsInjective
<1>4. Cardinality(S) \in Nat
  BY FS_CardinalityType
<1>5. IsFiniteSet(T) /\ Cardinality(T) = Cardinality(S)
  BY <1>4, FS_Interval
<1>6. f \in Surjection(S, T)
  <2> HIDE DEF f, T
  <2> QED BY <1>3, <1>5, FS_Injection
<1>7. \E i \in S : f[i] = r
  BY <1>6 DEF Surjection
<1> QED BY <1>7, <1>2

LEMMA LineEndsFinite ==
    ASSUME NEW b \in Seq(Tokens)
    PROVE  /\ LineEnds(b) \in SUBSET (1 .. Len(b) - 1)
           /\ LineEnds(b) \in SUBSET Nat
           /\ IsFiniteSet(LineEnds(b))
           /\ Cardinality(LineEnds(b)) \in Nat
           /\ \A i, j \in LineEnds(b) : i < j => i + 2 <= j
<1>1. Len(b) \in Nat
  OBVIOUS
<1>2. LineEnds(b) \in SUBSET (1 .. Len(b) - 1)
  BY DEF LineEnds
<1>3. IsFiniteSet(LineEnds(b))
  <2>1. IsFiniteSet(1 .. Len(b) - 1)
    BY <1>1, FS_Interval
  <2> QED BY <2>1, <1>2, FS_Subset
<1>4. \A i, j \in LineEnds(b) : i < j => i + 2 <= j
  BY <1>1 DEF LineEnds
<1>5. LineEnds(b) \in SUBSET Nat
  BY <1>1, <1>2
<1> QED BY <1>2, <1>3, <1>4, <1>5, FS_CardinalityType

\* LineEnd chooses the line end of that rank, the only one.
LEMMA LineEndIs ==
    ASSUME NEW b \in Seq(Tokens), NEW k \in 1 .. Cardinality(LineEnds(b))
    PROVE  /\ LineEnd(b, k) \in LineEnds(b)
           /\ Rank(LineEnds(b), LineEnd(b, k)) = k - 1
           /\ \A i \in LineEnds(b) : Rank(LineEnds(b), i) = k - 1 => i = LineEnd(b, k)
<1> DEFINE S == LineEnds(b)
<1>1. S \in SUBSET Nat /\ IsFiniteSet(S) /\ Cardinality(S) \in Nat
  BY LineEndsFinite
<1>2. k - 1 \in 0 .. Cardinality(S) - 1
  BY <1>1
<1>3. /\ \E i \in S : Rank(S, i) = k - 1
      /\ \A i, j \in S : Rank(S, i) = k - 1 /\ Rank(S, j) = k - 1 => i = j
  <2> HIDE DEF S
  <2> QED BY <1>1, <1>2, RankIsTaken
<1>4. LineEnd(b, k) = CHOOSE i \in S : Rank(S, i) = k - 1
  BY DEF LineEnd, Rank
<1> HIDE DEF S
<1>5. LineEnd(b, k) \in S /\ Rank(S, LineEnd(b, k)) = k - 1
  BY <1>3, <1>4
<1> QED BY <1>3, <1>5 DEF S

\* A line begins behind every line end before its own.
LEMMA LineBounds ==
    ASSUME NEW b \in Seq(Tokens), NEW k \in 1 .. Cardinality(LineEnds(b))
    PROVE  /\ LineStart(b, k) \in Nat /\ 1 <= LineStart(b, k)
           /\ LineStart(b, k) <= LineEnd(b, k)
           /\ \A i \in LineEnds(b) : i < LineEnd(b, k) => i + 2 <= LineStart(b, k)
<1> DEFINE S == LineEnds(b)
           e == LineEnd(b, k)
<1>1. /\ S \in SUBSET (1 .. Len(b) - 1) /\ S \in SUBSET Nat /\ IsFiniteSet(S)
      /\ Cardinality(S) \in Nat
      /\ \A i, j \in S : i < j => i + 2 <= j
  BY LineEndsFinite
<1>2. e \in S /\ Rank(S, e) = k - 1
  BY LineEndIs
<1>3. \A i \in S : i < e => Rank(S, i) < k - 1 /\ Rank(S, i) \in Nat
  <2> HIDE DEF S, e
  <2>1. ASSUME NEW i \in S, i < e PROVE Rank(S, i) < k - 1 /\ Rank(S, i) \in Nat
    <3>1. Rank(S, i) \in 0 .. Cardinality(S) - 1 /\ Rank(S, i) < Rank(S, e)
      BY <1>1, <1>2, <2>1, RankIncreases
    <3> QED BY <3>1, <1>2
  <2> QED BY <2>1
<1>4. e \in Nat /\ 1 <= e
  BY <1>1, <1>2
<1>5. CASE k = 1
  <2>1. LineStart(b, k) = 1
    BY <1>5 DEF LineStart
  <2>2. ~ \E i \in S : i < e
    BY <1>3, <1>5
  <2> QED BY <2>1, <2>2, <1>4
<1>6. CASE k # 1
  <2> DEFINE d == LineEnd(b, k - 1)
  <2>1. k - 1 \in 1 .. Cardinality(S)
    BY <1>1, <1>6
  <2>2. d \in S /\ Rank(S, d) = k - 2
    <3>1. (k - 1) - 1 = k - 2
      OBVIOUS
    <3> QED BY <2>1, <3>1, LineEndIs
  <2>3. LineStart(b, k) = d + 2
    BY <1>6 DEF LineStart
  <2> HIDE DEF S, d, e
  <2>4. ~ (e <= d)
    <3>1. CASE e = d
      BY <3>1, <1>2, <2>2
    <3>2. CASE e < d
      <4>1. Rank(S, e) < Rank(S, d)
        BY <1>1, <1>2, <2>2, <3>2, RankIncreases
      <4> QED BY <4>1, <1>2, <2>2
    <3>3. d \in Nat
      BY <2>2, <1>1
    <3> QED BY <3>1, <3>2, <3>3, <1>4
  <2>5. d \in Nat /\ d + 2 <= e
    BY <1>1, <1>2, <1>4, <2>2, <2>4
  <2>6. ASSUME NEW i \in S, i < e PROVE i <= d
    <3>1. CASE d < i
      <4>1. Rank(S, d) < Rank(S, i)
        BY <1>1, <2>2, <3>1, RankIncreases
      <4>2. Rank(S, i) < k - 1 /\ Rank(S, i) \in Nat
        BY <1>3, <2>6
      <4> QED BY <4>1, <4>2, <2>2
    <3>2. i \in Nat
      BY <1>1
    <3> QED BY <3>1, <3>2, <2>5
  <2>7. \A i \in S : i < e => i + 2 <= d + 2
    <3> TAKE i \in S
    <3> HAVE i < e
    <3>1. i <= d /\ i \in Nat
      BY <2>6, <1>1
    <3> QED BY <3>1, <2>5
  <2> QED BY <2>3, <2>5, <2>7 DEF S, e
<1> QED BY <1>5, <1>6

\* What Lines returns: for every line end one line, the tokens from its start.
LEMMA LinesAre ==
    ASSUME NEW b \in Seq(Tokens)
    PROVE  /\ Lines(b) \in Seq(Seq(Tokens))
           /\ Len(Lines(b)) = Cardinality(LineEnds(b))
           /\ \A k \in 1 .. Cardinality(LineEnds(b)) :
                /\ Lines(b)[k] \in Seq(Tokens)
                /\ Len(Lines(b)[k]) = LineEnd(b, k) - LineStart(b, k)
                /\ \A x \in 1 .. LineEnd(b, k) - LineStart(b, k) :
                    Lines(b)[k][x] = b[LineStart(b, k) + x - 1]
<1> DEFINE n == Cardinality(LineEnds(b))
<1>1. n \in Nat /\ LineEnds(b) \in SUBSET (1 .. Len(b) - 1) /\ Len(b) \in Nat
  BY LineEndsFinite
<1>2. ASSUME NEW k \in 1 .. n
      PROVE  /\ Lines(b)[k] \in Seq(Tokens)
             /\ Len(Lines(b)[k]) = LineEnd(b, k) - LineStart(b, k)
             /\ \A x \in 1 .. LineEnd(b, k) - LineStart(b, k) :
                 Lines(b)[k][x] = b[LineStart(b, k) + x - 1]
  <2> DEFINE m == LineStart(b, k)
             e == LineEnd(b, k)
  <2>1. Lines(b)[k] = SubSeq(b, m, e - 1)
    BY DEF Lines
  <2>2. m \in Nat /\ 1 <= m /\ m <= e
    BY LineBounds
  <2>3. e \in LineEnds(b)
    BY LineEndIs
  <2>4. e \in Nat /\ e < Len(b)
    BY <2>3, <1>1
  <2> HIDE DEF m, e
  <2>5. \A x \in m .. e - 1 : b[x] \in Tokens
    BY <2>2, <2>4
  <2>6. /\ SubSeq(b, m, e - 1) \in Seq(Tokens)
        /\ Len(SubSeq(b, m, e - 1)) = IF m <= e - 1 THEN (e - 1) - m + 1 ELSE 0
        /\ \A x \in 1 .. (e - 1) - m + 1 : SubSeq(b, m, e - 1)[x] = b[m + x - 1]
    <3>1. m \in Int /\ e - 1 \in Int
      BY <2>2, <2>4
    <3> QED BY <3>1, <2>5, SubSeqProperties
  <2>7. (e - 1) - m + 1 = e - m /\ (m > e - 1 => e - m = 0)
    BY <2>2, <2>4
  <2>8. Len(SubSeq(b, m, e - 1)) = e - m
    BY <2>2, <2>4, <2>6
  <2> QED BY <2>1, <2>6, <2>7, <2>8 DEF m, e
<1>3. Lines(b) = [k \in 1 .. n |-> Lines(b)[k]]
  BY DEF Lines
<1>4. Lines(b) \in [1 .. n -> Seq(Tokens)]
  <2> HIDE DEF n
  <2> QED BY <1>2, <1>3
<1>5. Lines(b) \in Seq(Seq(Tokens)) /\ Len(Lines(b)) = n
  BY <1>1, <1>4
<1> QED BY <1>2, <1>5

\* The whole of a is lines.
Complete(a) == a = <<>> \/ Len(a) - 1 \in LineEnds(a)

LEMMA ShiftedSize ==
    ASSUME NEW X \in SUBSET Nat, IsFiniteSet(X), NEW n \in Nat
    PROVE  /\ IsFiniteSet({n + x : x \in X})
           /\ Cardinality({n + x : x \in X}) = Cardinality(X)
<1> DEFINE Y == {n + x : x \in X}
           f == [x \in X |-> n + x]
<1>1. f \in [X -> Y]
  OBVIOUS
<1>2. \A x, y \in X : f[x] = f[y] => x = y
  OBVIOUS
<1>3. \A y \in Y : \E x \in X : f[x] = y
  OBVIOUS
<1>4. f \in Bijection(X, Y)
  <2> HIDE DEF f, Y
  <2> QED BY <1>1, <1>2, <1>3 DEF Bijection, Injection, Surjection, IsInjective
<1>5. ExistsBijection(X, Y)
  BY <1>4 DEF ExistsBijection
<1> HIDE DEF Y
<1> QED BY <1>5, FS_Bijection DEF Y

\* Behind whole lines the line ends of b keep their places.
LEMMA EndsOfConcat ==
    ASSUME NEW a \in Seq(Tokens), NEW b \in Seq(Tokens), Complete(a),
           NEW c, c = a \o b
    PROVE  /\ LineEnds(a) \subseteq LineEnds(c)
           /\ \A i \in LineEnds(b) : Len(a) + i \in LineEnds(c)
           /\ \A i \in LineEnds(c) : i \in LineEnds(a)
                                \/ (i > Len(a) /\ i - Len(a) \in LineEnds(b))
<1>1. /\ c \in Seq(Tokens) /\ Len(c) = Len(a) + Len(b) /\ Len(a) \in Nat /\ Len(b) \in Nat
      /\ \A i \in 1 .. Len(c) : c[i] = IF i <= Len(a) THEN a[i] ELSE b[i - Len(a)]
  BY ConcatProperties
<1>2. Len(a) # 0 => a[Len(a)] = "\n"
  BY <1>1 DEF Complete, LineEnds
<1>3. LineEnds(a) \subseteq LineEnds(c)
  BY <1>1 DEF LineEnds
<1>4. \A i \in LineEnds(b) : Len(a) + i \in LineEnds(c)
  <2> TAKE i \in LineEnds(b)
  <2>1. i \in 1 .. Len(b) - 1 /\ b[i] = "\r" /\ b[i + 1] = "\n"
    BY DEF LineEnds
  <2>2. c[Len(a) + i] = b[i] /\ c[Len(a) + i + 1] = b[i + 1]
    BY <1>1, <2>1
  <2> QED BY <1>1, <2>1, <2>2 DEF LineEnds
<1>5. ASSUME NEW i \in LineEnds(c)
      PROVE  i \in LineEnds(a) \/ (i > Len(a) /\ i - Len(a) \in LineEnds(b))
  <2>1. i \in 1 .. Len(c) - 1 /\ c[i] = "\r" /\ c[i + 1] = "\n"
    BY DEF LineEnds
  <2>2. CASE i < Len(a)
    BY <1>1, <2>1, <2>2 DEF LineEnds
  <2>3. CASE i = Len(a)
    BY <1>1, <1>2, <2>1, <2>3
  <2>4. CASE i > Len(a)
    <3>1. c[i] = b[i - Len(a)] /\ c[i + 1] = b[(i - Len(a)) + 1]
      BY <1>1, <2>1, <2>4
    <3> QED BY <1>1, <2>1, <2>4, <3>1 DEF LineEnds
  <2> QED BY <1>1, <2>1, <2>2, <2>3, <2>4
<1> QED BY <1>3, <1>4, <1>5

\* The lines of a come first, the k-th line of b is k lines behind them.
RanksShifted(a, b, c) ==
    /\ \A i \in LineEnds(a) : Rank(LineEnds(c), i) = Rank(LineEnds(a), i)
    /\ \A i \in LineEnds(b) :
        Rank(LineEnds(c), Len(a) + i) = Cardinality(LineEnds(a)) + Rank(LineEnds(b), i)
    /\ Cardinality(LineEnds(c)) = Cardinality(LineEnds(a)) + Cardinality(LineEnds(b))

LEMMA RanksOfConcat ==
    ASSUME NEW a \in Seq(Tokens), NEW b \in Seq(Tokens), Complete(a),
           NEW c, c = a \o b
    PROVE  RanksShifted(a, b, c)
<1> DEFINE A == LineEnds(a)
           B == LineEnds(b)
           C == LineEnds(c)
           n == Len(a)
<1>1. /\ A \subseteq C
      /\ \A i \in B : n + i \in C
      /\ \A i \in C : i \in A \/ (i > n /\ i - n \in B)
  BY EndsOfConcat
<1>2. /\ n \in Nat /\ A \in SUBSET Nat /\ B \in SUBSET Nat /\ C \in SUBSET Nat
      /\ IsFiniteSet(A) /\ IsFiniteSet(B) /\ Cardinality(A) \in Nat /\ Cardinality(B) \in Nat
      /\ \A i \in A : i < n
      /\ \A i \in B : 0 < i
  <2>1. c \in Seq(Tokens) /\ n \in Nat /\ Len(b) \in Nat
    BY ConcatProperties
  <2>2. A \in SUBSET (1 .. Len(a) - 1) /\ B \in SUBSET (1 .. Len(b) - 1)
    BY LineEndsFinite
  <2>3. (\A i \in A : i < n) /\ (\A i \in B : 0 < i)
    BY <2>1, <2>2
  <2> QED BY <2>1, <2>3, LineEndsFinite
<1> HIDE DEF A, B, C, n
<1>3. \A i \in A : Rank(C, i) = Rank(A, i)
  <2> TAKE i \in A
  <2>1. ASSUME NEW j \in C, j < i PROVE j \in A
    <3>1. i < n /\ i \in Nat /\ j \in Nat
      BY <1>2
    <3>2. ~ (j > n)
      BY <1>2, <2>1, <3>1
    <3> QED BY <1>1, <3>2
  <2>2. {j \in C : j < i} = {j \in A : j < i}
    BY <1>1, <2>1
  <2> QED BY <2>2 DEF Rank
<1>4. ASSUME NEW X \in SUBSET B
      PROVE  Cardinality(A \cup {n + x : x \in X}) = Cardinality(A) + Cardinality(X)
  <2> DEFINE Y == {n + x : x \in X}
  <2>1. IsFiniteSet(X) /\ X \in SUBSET Nat
    BY <1>2, FS_Subset
  <2>2. IsFiniteSet(Y) /\ Cardinality(Y) = Cardinality(X) /\ Cardinality(X) \in Nat
    BY <1>2, <2>1, ShiftedSize, FS_CardinalityType
  <2>3. A \cap Y = {}
    BY <1>2, <2>1
  <2> HIDE DEF Y
  <2>4. Cardinality(A \cup Y) = Cardinality(A) + Cardinality(Y) - Cardinality({})
    BY <1>2, <2>2, <2>3, FS_Union
  <2> QED BY <1>2, <2>2, <2>4, FS_EmptySet DEF Y
<1>5. \A i \in B : Rank(C, n + i) = Cardinality(A) + Rank(B, i)
  <2> TAKE i \in B
  <2> DEFINE X == {j \in B : j < i}
  <2>1. \A j \in C : j < n + i => j \in A \cup {n + x : x \in X}
    <3> TAKE j \in C
    <3> HAVE j < n + i
    <3>1. CASE j \in A
      BY <3>1
    <3>2. CASE j > n /\ j - n \in B
      <4>1. i \in Nat /\ j \in Nat /\ j - n < i /\ j = n + (j - n)
        BY <1>2, <3>2
      <4>2. j - n \in X
        BY <3>2, <4>1
      <4> HIDE DEF X
      <4> QED BY <4>1, <4>2
    <3> QED BY <1>1, <3>1, <3>2
  <2>2. \A j \in A : j \in C /\ j < n + i
    BY <1>1, <1>2
  <2>3. \A x \in X : n + x \in C /\ n + x < n + i
    BY <1>1, <1>2
  <2>4. {j \in C : j < n + i} = A \cup {n + x : x \in X}
    <3> HIDE DEF X
    <3> QED BY <2>1, <2>2, <2>3
  <2>5. X \in SUBSET B
    OBVIOUS
  <2> QED BY <2>4, <2>5, <1>4 DEF Rank
<1>6. C = A \cup {n + x : x \in B}
  <2>1. \A j \in C : j \in A \cup {n + x : x \in B}
    <3> TAKE j \in C
    <3>1. CASE j > n /\ j - n \in B
      <4>1. j = n + (j - n)
        BY <1>2
      <4> QED BY <3>1, <4>1
    <3> QED BY <1>1, <3>1
  <2> QED BY <2>1, <1>1
<1>7. Cardinality(C) = Cardinality(A) + Cardinality(B)
  BY <1>6, <1>4
<1> QED BY <1>3, <1>5, <1>7 DEF A, B, C, n, RanksShifted

\* The last line of whole lines ends two tokens before its end.
LEMMA LastLineEnd ==
    ASSUME NEW a \in Seq(Tokens), Complete(a), a # <<>>
    PROVE  LineEnd(a, Cardinality(LineEnds(a))) = Len(a) - 1
<1>1. /\ LineEnds(a) \in SUBSET Nat /\ IsFiniteSet(LineEnds(a))
      /\ Cardinality(LineEnds(a)) \in Nat /\ Len(a) \in Nat
      /\ \A i \in LineEnds(a) : i <= Len(a) - 1
  <2>1. LineEnds(a) \in SUBSET (1 .. Len(a) - 1) /\ Len(a) \in Nat
    BY LineEndsFinite
  <2> QED BY <2>1, LineEndsFinite
<1>2. Len(a) - 1 \in LineEnds(a)
  BY DEF Complete
<1> DEFINE n == Cardinality(LineEnds(a))
<1>3. n # 0
  BY <1>1, <1>2, FS_EmptySet
<1>4. n \in 1 .. n
  BY <1>1, <1>3
<1>5. LineEnd(a, n) \in LineEnds(a) /\ Rank(LineEnds(a), LineEnd(a, n)) = n - 1
  BY <1>4, LineEndIs
<1>6. Rank(LineEnds(a), Len(a) - 1) <= n - 1 /\ Rank(LineEnds(a), Len(a) - 1) \in Nat
  <2>1. Rank(LineEnds(a), Len(a) - 1) \in 0 .. n - 1
    BY <1>1, <1>2, RankIncreases
  <2> QED BY <1>1, <2>1
<1>7. n \in Nat
  BY <1>1
<1> HIDE DEF n
<1>8. ~ (LineEnd(a, n) < Len(a) - 1)
  <2> SUFFICES ASSUME LineEnd(a, n) < Len(a) - 1 PROVE FALSE
    OBVIOUS
  <2>1. Rank(LineEnds(a), LineEnd(a, n)) < Rank(LineEnds(a), Len(a) - 1)
    BY <1>1, <1>2, <1>5, RankIncreases
  <2> QED BY <2>1, <1>5, <1>6, <1>7
<1>9. LineEnd(a, n) \in Nat /\ LineEnd(a, n) <= Len(a) - 1
  BY <1>1, <1>5
<1>10. LineEnd(a, n) = Len(a) - 1
  BY <1>1, <1>8, <1>9
<1> QED BY <1>10 DEF n

\* Where the k-th line of a \o b begins and ends.
BoundsShifted(a, b, c, k) ==
    /\ k <= Cardinality(LineEnds(a)) =>
        /\ LineEnd(c, k) = LineEnd(a, k)
        /\ LineStart(c, k) = LineStart(a, k)
    /\ k > Cardinality(LineEnds(a)) =>
        /\ k - Cardinality(LineEnds(a)) \in 1 .. Cardinality(LineEnds(b))
        /\ LineEnd(c, k) = Len(a) + LineEnd(b, k - Cardinality(LineEnds(a)))
        /\ LineStart(c, k) = Len(a) + LineStart(b, k - Cardinality(LineEnds(a)))

LEMMA BoundsOfConcat ==
    ASSUME NEW a \in Seq(Tokens), NEW b \in Seq(Tokens), Complete(a),
           NEW c, c = a \o b
    PROVE  \A k \in 1 .. Cardinality(LineEnds(c)) : BoundsShifted(a, b, c, k)
<1> USE DEF BoundsShifted
<1> TAKE k \in 1 .. Cardinality(LineEnds(c))
<1> DEFINE A == LineEnds(a)
           B == LineEnds(b)
           C == LineEnds(c)
           nA == Cardinality(A)
           nB == Cardinality(B)
           nC == Cardinality(C)
<1>1. c \in Seq(Tokens) /\ Len(a) \in Nat
  BY ConcatProperties
<1>0. /\ \A i \in A : Rank(C, i) = Rank(A, i)
      /\ \A i \in B : Rank(C, Len(a) + i) = nA + Rank(B, i)
      /\ nC = nA + nB
  <2>1. RanksShifted(a, b, c)
    BY RanksOfConcat
  <2> QED BY <2>1 DEF RanksShifted
<1>2. nA \in Nat /\ nB \in Nat /\ nC = nA + nB
  BY <1>0, LineEndsFinite
<1>3. ASSUME NEW x \in 1 .. nA PROVE LineEnd(c, x) = LineEnd(a, x)
  <2>1. LineEnd(a, x) \in A /\ Rank(A, LineEnd(a, x)) = x - 1
    BY LineEndIs
  <2>2. Rank(C, LineEnd(a, x)) = x - 1
    <3> HIDE DEF A, C
    <3> QED BY <1>0, <2>1
  <2>3. LineEnd(a, x) \in C
    BY <2>1, EndsOfConcat
  <2>4. x \in 1 .. nC
    BY <1>2
  <2> QED BY <1>1, <2>2, <2>3, <2>4, LineEndIs
<1>4. ASSUME NEW x \in 1 .. nB PROVE LineEnd(c, nA + x) = Len(a) + LineEnd(b, x)
  <2>1. LineEnd(b, x) \in B /\ Rank(B, LineEnd(b, x)) = x - 1
    BY LineEndIs
  <2>2. Rank(C, Len(a) + LineEnd(b, x)) = (nA + x) - 1
    <3>1. nA + (x - 1) = (nA + x) - 1
      BY <1>2
    <3> HIDE DEF nA, B, C
    <3> QED BY <1>0, <2>1, <3>1
  <2>3. Len(a) + LineEnd(b, x) \in C
    BY <2>1, EndsOfConcat
  <2>4. nA + x \in 1 .. nC
    BY <1>2
  <2> QED BY <1>1, <2>2, <2>3, <2>4, LineEndIs
<1>5. nA # 0 => LineEnd(a, nA) = Len(a) - 1
  <2> HAVE nA # 0
  <2>1. a # <<>>
    <3>1. A # {}
      BY FS_EmptySet
    <3>2. Len(<<>>) = 0 /\ <<>> \in Seq(Tokens)
      BY EmptySeq
    <3>3. LineEnds(<<>>) = {}
      BY <3>2 DEF LineEnds
    <3> QED BY <3>1, <3>3
  <2> QED BY <2>1, LastLineEnd
<1>6. CASE k <= nA
  <2>1. k \in 1 .. nA /\ (k # 1 => k - 1 \in 1 .. nA)
    BY <1>2, <1>6
  <2>2. LineEnd(c, k) = LineEnd(a, k) /\ (k # 1 => LineEnd(c, k - 1) = LineEnd(a, k - 1))
    BY <1>3, <2>1
  <2>3. LineStart(c, k) = LineStart(a, k)
    BY <2>2 DEF LineStart
  <2>4. ~ (k > nA)
    BY <1>2, <1>6
  <2> QED BY <2>2, <2>3, <2>4
<1>7. CASE k > nA
  <2> DEFINE x == k - nA
  <2>1. x \in 1 .. nB /\ k = nA + x
    BY <1>2, <1>7
  <2>2. LineEnd(c, k) = Len(a) + LineEnd(b, x)
    <3> HIDE DEF x
    <3> QED BY <2>1, <1>4
  <2>3. LineStart(c, k) = Len(a) + LineStart(b, x)
    <3>1. CASE k = 1
      <4>1. nA = 0 /\ x = 1
        BY <1>2, <2>1, <3>1
      <4>2. A = {}
        BY <4>1, LineEndsFinite, FS_EmptySet
      <4>3. Len(a) = 0
        BY <4>2 DEF Complete
      <4> QED BY <4>1, <4>3, <3>1 DEF LineStart
    <3>2. CASE k # 1 /\ x = 1
      <4>1. nA # 0 /\ k - 1 = nA /\ nA \in 1 .. nA
        <5> HIDE DEF nA, nC
        <5>1. k = nA + 1 /\ nA \in Nat
          BY <1>2, <2>1, <3>2
        <5> HIDE DEF x
        <5> QED BY <5>1, <3>2
      <4>2. LineEnd(c, k - 1) = Len(a) - 1
        BY <4>1, <1>3, <1>5
      <4>3. (Len(a) - 1) + 2 = Len(a) + 1
        BY <1>1
      <4> HIDE DEF nA
      <4> QED BY <4>2, <4>3, <3>2 DEF LineStart
    <3>3. CASE k # 1 /\ x # 1
      <4>1. x - 1 \in 1 .. nB /\ k - 1 = nA + (x - 1)
        BY <1>2, <2>1, <3>3
      <4>2. LineEnd(c, k - 1) = Len(a) + LineEnd(b, x - 1)
        <5> HIDE DEF x
        <5> QED BY <4>1, <1>4
      <4>3. LineEnd(b, x - 1) \in Nat
        BY <4>1, LineEndIs, LineEndsFinite
      <4>4. (Len(a) + LineEnd(b, x - 1)) + 2 = Len(a) + (LineEnd(b, x - 1) + 2)
        <5> HIDE DEF x
        <5> QED BY <4>3, <1>1
      <4>5. LineStart(b, x) = LineEnd(b, x - 1) + 2
        BY <3>3 DEF LineStart
      <4> QED BY <4>2, <4>4, <4>5, <3>3 DEF LineStart
    <3> QED BY <3>1, <3>2, <3>3
  <2>4. ~ (k <= nA)
    BY <1>2, <1>7
  <2> QED BY <2>1, <2>2, <2>3, <2>4
<1>8. k <= nA \/ k > nA
  BY <1>2
<1> QED BY <1>6, <1>7, <1>8

\* Framing is compositional: whole lines, and then whatever follows.
LEMMA LinesConcat ==
    ASSUME NEW a \in Seq(Tokens), NEW b \in Seq(Tokens), Complete(a)
    PROVE  Lines(a \o b) = Lines(a) \o Lines(b)
<1> SUFFICES ASSUME NEW c, c = a \o b
             PROVE  Lines(c) = Lines(a) \o Lines(b)
  OBVIOUS
<1> DEFINE nA == Cardinality(LineEnds(a))
           nB == Cardinality(LineEnds(b))
           nC == Cardinality(LineEnds(c))
           L == Lines(a) \o Lines(b)
<1>1. c \in Seq(Tokens) /\ Len(a) \in Nat /\ Len(b) \in Nat /\ Len(c) = Len(a) + Len(b)
      /\ \A i \in 1 .. Len(c) : c[i] = IF i <= Len(a) THEN a[i] ELSE b[i - Len(a)]
  BY ConcatProperties
<1>2. nA \in Nat /\ nB \in Nat /\ nC = nA + nB
  <2>1. RanksShifted(a, b, c)
    BY RanksOfConcat
  <2> QED BY <2>1, LineEndsFinite DEF RanksShifted
<1>3. /\ L \in Seq(Seq(Tokens)) /\ Len(L) = nC
      /\ \A k \in 1 .. nC : L[k] = IF k <= nA THEN Lines(a)[k] ELSE Lines(b)[k - nA]
  <2>1. /\ Lines(a) \in Seq(Seq(Tokens)) /\ Len(Lines(a)) = nA
        /\ Lines(b) \in Seq(Seq(Tokens)) /\ Len(Lines(b)) = nB
    BY LinesAre
  <2> DEFINE x == Lines(a)
             y == Lines(b)
  <2> HIDE DEF nA, nB, nC, x, y
  <2>2. /\ x \o y \in Seq(Seq(Tokens)) /\ Len(x \o y) = Len(x) + Len(y)
        /\ \A k \in 1 .. Len(x) + Len(y) :
            (x \o y)[k] = IF k <= Len(x) THEN x[k] ELSE y[k - Len(x)]
    BY <2>1, ConcatProperties DEF x, y
  <2> QED BY <2>1, <2>2, <1>2, Zenon DEF x, y
<1>4. Lines(c) \in Seq(Seq(Tokens)) /\ Len(Lines(c)) = nC
  BY <1>1, LinesAre
<1>5. ASSUME NEW k \in 1 .. nC PROVE Lines(c)[k] = L[k]
  <2>0. /\ k <= nA => LineEnd(c, k) = LineEnd(a, k) /\ LineStart(c, k) = LineStart(a, k)
        /\ k > nA => /\ k - nA \in 1 .. nB
                     /\ LineEnd(c, k) = Len(a) + LineEnd(b, k - nA)
                     /\ LineStart(c, k) = Len(a) + LineStart(b, k - nA)
    <3>1. BoundsShifted(a, b, c, k)
      BY BoundsOfConcat
    <3> QED BY <3>1 DEF BoundsShifted
  <2>1. /\ Lines(c)[k] \in Seq(Tokens)
        /\ Len(Lines(c)[k]) = LineEnd(c, k) - LineStart(c, k)
        /\ \A x \in 1 .. LineEnd(c, k) - LineStart(c, k) :
            Lines(c)[k][x] = c[LineStart(c, k) + x - 1]
    BY <1>1, LinesAre
  <2>2. CASE k <= nA
    <3> DEFINE m == LineStart(a, k)
               e == LineEnd(a, k)
    <3>1. k \in 1 .. nA
      BY <2>2
    <3>2. LineEnd(c, k) = e /\ LineStart(c, k) = m
      BY <2>0, <2>2
    <3>3. /\ Lines(a)[k] \in Seq(Tokens)
          /\ Len(Lines(a)[k]) = e - m
          /\ \A x \in 1 .. e - m : Lines(a)[k][x] = a[m + x - 1]
      BY <3>1, LinesAre
    <3>4. m \in Nat /\ 1 <= m /\ m <= e /\ e \in Nat /\ e < Len(a)
      <4>1. m \in Nat /\ 1 <= m /\ m <= e
        BY <3>1, LineBounds
      <4>2. e \in LineEnds(a)
        BY <3>1, LineEndIs
      <4>3. e \in 1 .. Len(a) - 1
        BY <4>2, LineEndsFinite
      <4> QED BY <4>1, <4>3, <1>1
    <3> HIDE DEF m, e, nA, nC, L
    <3>5. \A x \in 1 .. e - m : c[m + x - 1] = a[m + x - 1]
      BY <1>1, <3>4
    <3>6. /\ Lines(c)[k] \in Seq(Tokens) /\ Len(Lines(c)[k]) = e - m
          /\ \A x \in 1 .. e - m : Lines(c)[k][x] = a[m + x - 1]
      <4>1. /\ Lines(c)[k] \in Seq(Tokens) /\ Len(Lines(c)[k]) = e - m
            /\ \A x \in 1 .. e - m : Lines(c)[k][x] = c[m + x - 1]
        BY <2>1, <3>2, Zenon
      <4> QED BY <4>1, <3>5, Zenon
    <3>7. Lines(c)[k] = Lines(a)[k]
      <4>1. \A x \in 1 .. Len(Lines(c)[k]) : Lines(c)[k][x] = Lines(a)[k][x]
        BY <3>3, <3>6
      <4>2. Len(Lines(c)[k]) = Len(Lines(a)[k])
        BY <3>3, <3>6
      <4> QED BY <3>3, <3>6, <4>1, <4>2, SeqEqual, Zenon
    <3> QED BY <3>7, <1>3, <2>2 DEF nC
  <2>3. CASE k > nA
    <3> DEFINE y == k - nA
               m == LineStart(b, y)
               e == LineEnd(b, y)
    <3>1. y \in 1 .. nB /\ LineEnd(c, k) = Len(a) + e /\ LineStart(c, k) = Len(a) + m
      BY <2>0, <2>3
    <3> HIDE DEF y
    <3>2. /\ Lines(b)[y] \in Seq(Tokens)
          /\ Len(Lines(b)[y]) = e - m
          /\ \A x \in 1 .. e - m : Lines(b)[y][x] = b[m + x - 1]
      BY <3>1, LinesAre
    <3>3. m \in Nat /\ 1 <= m /\ m <= e /\ e \in Nat /\ e < Len(b)
      <4>1. m \in Nat /\ 1 <= m /\ m <= e
        BY <3>1, LineBounds
      <4>2. e \in LineEnds(b)
        BY <3>1, LineEndIs
      <4>3. e \in 1 .. Len(b) - 1
        BY <4>2, LineEndsFinite
      <4> QED BY <4>1, <4>3, <1>1
    <3> HIDE DEF m, e, nA, nB, nC, L
    <3>4. (Len(a) + e) - (Len(a) + m) = e - m
      BY <1>1, <3>3
    <3>5. \A x \in 1 .. e - m : c[(Len(a) + m) + x - 1] = b[m + x - 1]
      <4> TAKE x \in 1 .. e - m
      <4>1. /\ (Len(a) + m) + x - 1 \in 1 .. Len(c)
            /\ ~ ((Len(a) + m) + x - 1 <= Len(a))
            /\ ((Len(a) + m) + x - 1) - Len(a) = m + x - 1
        BY <1>1, <3>3
      <4> QED BY <4>1, <1>1
    <3>6. /\ Lines(c)[k] \in Seq(Tokens) /\ Len(Lines(c)[k]) = e - m
          /\ \A x \in 1 .. e - m : Lines(c)[k][x] = b[m + x - 1]
      BY <2>1, <3>1, <3>4, <3>5
    <3>8. Lines(c)[k] = Lines(b)[y]
      <4>1. \A x \in 1 .. Len(Lines(c)[k]) : Lines(c)[k][x] = Lines(b)[y][x]
        BY <3>2, <3>6
      <4>2. Len(Lines(c)[k]) = Len(Lines(b)[y])
        BY <3>2, <3>6
      <4> QED BY <3>2, <3>6, <4>1, <4>2, SeqEqual, Zenon
    <3>9. ~ (k <= nA)
      BY <1>2, <2>3
    <3> QED BY <3>8, <3>9, <1>3 DEF y, nC
  <2>4. k <= nA \/ k > nA
    BY <1>2
  <2> QED BY <2>2, <2>3, <2>4
<1> HIDE DEF L, nC
<1>6. Lines(c) = L
  BY <1>3, <1>4, <1>5, SeqEqual
<1> QED BY <1>6 DEF L

\* Tokens without a line end are no lines.
LEMMA NoLines ==
    ASSUME NEW b \in Seq(Tokens), LineEnds(b) = {}
    PROVE  Lines(b) = <<>>
<1>1. Lines(b) \in Seq(Seq(Tokens)) /\ Len(Lines(b)) = 0
  BY LinesAre, FS_EmptySet
<1> QED BY <1>1

\* The lines of tokens without a stray carriage return or line feed hold texts.
LEMMA LinesHoldTexts ==
    ASSUME NEW b \in Seq(Tokens),
           \A i \in 1 .. Len(b) - 1 : b[i] = "\r" <=> b[i + 1] = "\n",
           b # <<>> => b[1] # "\n"
    PROVE  Lines(b) \in Seq(Seq(Texts))
<1> DEFINE n == Cardinality(LineEnds(b))
<1>1. /\ LineEnds(b) \in SUBSET (1 .. Len(b) - 1) /\ Len(b) \in Nat
      /\ n \in Nat
  BY LineEndsFinite
<1>2. ASSUME NEW k \in 1 .. n PROVE Lines(b)[k] \in Seq(Texts)
  <2> DEFINE m == LineStart(b, k)
             e == LineEnd(b, k)
             l == Lines(b)[k]
  <2>1. l \in Seq(Tokens) /\ Len(l) = e - m
        /\ \A x \in 1 .. e - m : l[x] = b[m + x - 1]
    BY LinesAre
  <2>2. /\ m \in Nat /\ 1 <= m /\ m <= e
        /\ \A i \in LineEnds(b) : i < e => i + 2 <= m
    BY LineBounds
  <2>3. e \in Nat /\ e < Len(b)
    <3>1. e \in LineEnds(b)
      BY LineEndIs
    <3> QED BY <3>1, <1>1
  <2> HIDE DEF m, e, l
  <2>4. ASSUME NEW i \in m .. e - 1 PROVE b[i] \in Texts
    <3>1. i \in 1 .. Len(b) - 1 /\ i < e /\ m <= i
      BY <2>2, <2>3
    <3>2. b[i] # "\r"
      <4> SUFFICES ASSUME b[i] = "\r" PROVE FALSE
        OBVIOUS
      <4>1. i \in LineEnds(b)
        BY <3>1 DEF LineEnds
      <4>2. i + 2 <= m
        BY <4>1, <3>1, <2>2
      <4> QED BY <4>2, <3>1, <2>2
    <3>3. b[i] # "\n"
      <4> SUFFICES ASSUME b[i] = "\n" PROVE FALSE
        OBVIOUS
      <4>1. i # 1
        BY <3>1
      <4>2. i - 1 \in 1 .. Len(b) - 1 /\ (i - 1) + 1 = i
        BY <3>1, <4>1, <1>1
      <4>3. i - 1 \in LineEnds(b)
        BY <4>2 DEF LineEnds
      <4>4. i - 1 < e
        BY <3>1, <2>3
      <4>5. (i - 1) + 2 <= m
        BY <4>3, <4>4, <2>2
      <4> QED BY <4>5, <3>1, <2>2
    <3>4. b[i] \in Tokens
      BY <3>1
    <3> QED BY <3>2, <3>3, <3>4 DEF Tokens
  <2>5. \A x \in 1 .. e - m : l[x] \in Texts
    <3> TAKE x \in 1 .. e - m
    <3>1. m + x - 1 \in m .. e - 1
      BY <2>2, <2>3
    <3> QED BY <3>1, <2>1, <2>4
  <2> QED BY <2>1, <2>5 DEF l
<1>3. Lines(b) \in Seq(Seq(Tokens)) /\ Len(Lines(b)) = n
  BY LinesAre
<1> HIDE DEF n
<1> QED BY <1>1, <1>2, <1>3

\* The last line end is the greatest.
LEMMA MaxOfLineEnds ==
    ASSUME NEW b \in Seq(Tokens), LineEnds(b) # {}
    PROVE  /\ Max(LineEnds(b)) \in LineEnds(b)
           /\ \A i \in LineEnds(b) : i <= Max(LineEnds(b))
<1> DEFINE S == LineEnds(b)
           n == Cardinality(S)
           e == LineEnd(b, n)
<1>1. S \in SUBSET Nat /\ IsFiniteSet(S) /\ n \in Nat
  BY LineEndsFinite
<1>2. n # 0
  BY <1>1, FS_EmptySet
<1>3. n \in 1 .. n
  BY <1>1, <1>2
<1>4. e \in S /\ Rank(S, e) = n - 1
  BY <1>3, LineEndIs
<1> HIDE DEF S, n, e
<1>5. \A i \in S : Rank(S, i) <= n - 1 /\ Rank(S, i) \in Nat
  <2> TAKE i \in S
  <2>1. Rank(S, i) \in 0 .. Cardinality(S) - 1
    BY <1>1, RankIncreases
  <2> QED BY <2>1, <1>1 DEF n
<1>6. \A i \in S : i <= e
  <2> TAKE i \in S
  <2>1. ~ (e < i)
    <3> SUFFICES ASSUME e < i PROVE FALSE
      OBVIOUS
    <3>1. Rank(S, e) < Rank(S, i)
      BY <1>1, <1>4, RankIncreases
    <3> QED BY <3>1, <1>1, <1>4, <1>5
  <2> QED BY <2>1, <1>1, <1>4
<1>7. Max(S) \in S /\ \A i \in S : i <= Max(S)
  <2>1. \E x \in S : \A y \in S : x >= y
    BY <1>1, <1>4, <1>6
  <2>2. Max(S) \in S /\ \A y \in S : Max(S) >= y
    BY <2>1, Zenon DEF Max
  <2> QED BY <2>2, <1>1
<1> QED BY <1>7 DEF S

\* What the while loop leaves: the tokens behind the last line end.  The tokens
\* before it are whole lines, and the loop has taken them all.
LEMMA RemainderIs ==
    ASSUME NEW b \in Seq(Tokens)
    PROVE  \E n \in 0 .. Len(b) :
              /\ Remainder(b) = SubSeq(b, n + 1, Len(b))
              /\ LineEnds(Remainder(b)) = {}
              /\ n = 0 \/ b[n] = "\n"
              /\ Lines(b) = Lines(SubSeq(b, 1, n))
<1>1. Len(b) \in Nat
  OBVIOUS
<1>2. CASE LineEnds(b) = {}
  <2>1. Remainder(b) = b /\ SubSeq(b, 1, Len(b)) = b /\ SubSeq(b, 1, 0) = <<>>
    BY <1>2, SubSeqFull, SubSeqEmpty DEF Remainder
  <2>2. Lines(b) = <<>>
    BY <1>2, NoLines
  <2>3. Lines(<<>>) = <<>>
    <3>1. <<>> \in Seq(Tokens) /\ LineEnds(<<>>) = {}
      BY EmptySeq DEF LineEnds
    <3> QED BY <3>1, NoLines
  <2> WITNESS 0 \in 0 .. Len(b)
  <2>4. 0 + 1 = 1
    OBVIOUS
  <2> QED BY <2>1, <2>2, <2>3, <2>4, <1>2
<1>3. CASE LineEnds(b) # {}
  <2> DEFINE e == Max(LineEnds(b))
             n == e + 1
             a == SubSeq(b, 1, n)
             r == SubSeq(b, n + 1, Len(b))
  <2>1. e \in LineEnds(b) /\ \A i \in LineEnds(b) : i <= e
    BY <1>3, MaxOfLineEnds
  <2>2. e \in 1 .. Len(b) - 1 /\ b[e] = "\r" /\ b[e + 1] = "\n"
    BY <2>1 DEF LineEnds
  <2> HIDE DEF e
  <2>3. n \in 1 .. Len(b) /\ b[n] = "\n" /\ n + 1 = e + 2
    BY <2>2, <1>1
  <2>4. Remainder(b) = r
    BY <1>3, <2>3 DEF Remainder, e
  <2> HIDE DEF n
  <2>5. /\ a \in Seq(Tokens) /\ Len(a) = n /\ \A i \in 1 .. n : a[i] = b[i]
        /\ r \in Seq(Tokens) /\ Len(r) = Len(b) - n
        /\ \A i \in 1 .. Len(b) - n : r[i] = b[n + i]
    <3>1. n \in Int /\ n + 1 \in Int /\ Len(b) \in Int /\ 1 \in Int
      BY <2>3, <1>1
    <3>2. (\A i \in 1 .. n : b[i] \in Tokens) /\ (\A i \in n + 1 .. Len(b) : b[i] \in Tokens)
      BY <2>3
    <3>3. /\ a \in Seq(Tokens) /\ Len(a) = IF 1 <= n THEN n - 1 + 1 ELSE 0
          /\ \A i \in 1 .. n - 1 + 1 : a[i] = b[1 + i - 1]
      BY <3>1, <3>2, SubSeqProperties
    <3>4. /\ r \in Seq(Tokens) /\ Len(r) = IF n + 1 <= Len(b) THEN Len(b) - (n + 1) + 1 ELSE 0
          /\ \A i \in 1 .. Len(b) - (n + 1) + 1 : r[i] = b[(n + 1) + i - 1]
      BY <3>1, <3>2, SubSeqProperties
    <3> HIDE DEF a, r
    <3>5. Len(a) = n /\ \A i \in 1 .. n : a[i] = b[i]
      BY <3>3, <2>3
    <3>6. Len(r) = Len(b) - n /\ \A i \in 1 .. Len(b) - n : r[i] = b[n + i]
      BY <3>4, <2>3, <1>1
    <3> QED BY <3>3, <3>4, <3>5, <3>6
  <2>6. b = a \o r
    <3>1. SubSeq(b, 1, n) \o SubSeq(b, n + 1, Len(b)) = SubSeq(b, 1, Len(b))
      <4>1. 1 \in 1 .. Len(b) + 1 /\ n \in 1 - 1 .. Len(b) /\ Len(b) \in n .. Len(b)
        BY <2>3, <1>1
      <4> QED BY <4>1, ConcatAdjacentSubSeq
    <3> QED BY <3>1, SubSeqFull
  <2> HIDE DEF a, r
  <2>7. Complete(a)
    BY <2>2, <2>3, <2>5 DEF Complete, LineEnds, n
  <2>8. LineEnds(r) = {}
    <3> SUFFICES ASSUME NEW i \in LineEnds(r) PROVE FALSE
      OBVIOUS
    <3>1. n + i \in LineEnds(b) /\ i \in Nat
      BY <2>5, <2>6, <2>7, EndsOfConcat, LineEndsFinite
    <3>2. n + i <= e
      BY <3>1, <2>1
    <3> QED BY <3>1, <3>2, <2>2, <1>1 DEF n
  <2>9. Lines(b) = Lines(a)
    <3>1. Lines(b) = Lines(a) \o Lines(r)
      BY <2>5, <2>6, <2>7, LinesConcat
    <3>2. Lines(r) = <<>> /\ Lines(a) \in Seq(Seq(Tokens))
      BY <2>5, <2>8, NoLines, LinesAre
    <3> QED BY <3>1, <3>2, ConcatEmptySeq
  <2>10. n \in 0 .. Len(b)
    BY <2>3, <1>1
  <2> QED BY <2>3, <2>4, <2>8, <2>9, <2>10 DEF a, r
<1> QED BY <1>2, <1>3

-------------------------------------------------------------------------------
(***************************************************************************)
(* The stream of the miner and its division.                               *)
(***************************************************************************)

\* A cut of a stream: its length, its tokens, and adjacent cuts joined.
LEMMA Cut ==
    ASSUME NEW s \in Seq(Tokens), NEW i \in 0 .. Len(s), NEW j \in i .. Len(s)
    PROVE  /\ SubSeq(s, i + 1, j) \in Seq(Tokens)
           /\ Len(SubSeq(s, i + 1, j)) = j - i
           /\ \A x \in 1 .. j - i : SubSeq(s, i + 1, j)[x] = s[i + x]
<1>1. i + 1 \in Int /\ j \in Int /\ i \in Nat /\ j \in Nat /\ Len(s) \in Nat /\ i <= j /\ j <= Len(s)
  OBVIOUS
<1>2. \A x \in i + 1 .. j : s[x] \in Tokens
  BY <1>1
<1>3. /\ SubSeq(s, i + 1, j) \in Seq(Tokens)
      /\ Len(SubSeq(s, i + 1, j)) = IF i + 1 <= j THEN j - (i + 1) + 1 ELSE 0
      /\ \A x \in 1 .. j - (i + 1) + 1 : SubSeq(s, i + 1, j)[x] = s[(i + 1) + x - 1]
  BY <1>1, <1>2, SubSeqProperties
<1> DEFINE c == SubSeq(s, i + 1, j)
<1> HIDE DEF c
<1>4. c \in Seq(Tokens) /\ Len(c) = j - i /\ \A x \in 1 .. j - i : c[x] = s[i + x]
  BY <1>1, <1>3 DEF c
<1> QED BY <1>4 DEF c

\* The same as one formula, for a cut that has a name.
IsCut(piece, s, i, j) ==
    /\ piece \in Seq(Tokens) /\ Len(piece) = j - i
    /\ \A x \in 1 .. j - i : piece[x] = s[i + x]

LEMMA CutIs ==
    ASSUME NEW s \in Seq(Tokens), NEW i \in 0 .. Len(s), NEW j \in i .. Len(s)
    PROVE  IsCut(SubSeq(s, i + 1, j), s, i, j)
BY Cut DEF IsCut

LEMMA JoinCuts ==
    ASSUME NEW s \in Seq(Tokens), NEW i \in 0 .. Len(s), NEW j \in i .. Len(s),
           NEW k \in j .. Len(s)
    PROVE  SubSeq(s, i + 1, j) \o SubSeq(s, j + 1, k) = SubSeq(s, i + 1, k)
<1>1. i + 1 \in 1 .. Len(s) + 1 /\ j \in (i + 1) - 1 .. Len(s)
  OBVIOUS
<1> QED BY <1>1, ConcatAdjacentSubSeq

\* A cut of a cut.
LEMMA CutOfCut ==
    ASSUME NEW s \in Seq(Tokens), NEW i \in 0 .. Len(s), NEW j \in i .. Len(s),
           NEW c, c = SubSeq(s, i + 1, j),
           NEW x \in 0 .. Len(c), NEW y \in x .. Len(c)
    PROVE  SubSeq(c, x + 1, y) = SubSeq(s, i + x + 1, i + y)
<1>1. /\ c \in Seq(Tokens) /\ Len(c) = j - i
      /\ \A z \in 1 .. j - i : c[z] = s[i + z]
  BY Cut
<1>2. /\ SubSeq(c, x + 1, y) \in Seq(Tokens) /\ Len(SubSeq(c, x + 1, y)) = y - x
      /\ \A z \in 1 .. y - x : SubSeq(c, x + 1, y)[z] = c[x + z]
  BY <1>1, Cut
<1>3. i + x \in 0 .. Len(s) /\ i + y \in i + x .. Len(s) /\ (i + y) - (i + x) = y - x
  <2>1. /\ Len(s) \in Nat /\ i \in Nat /\ j \in Nat /\ i <= j /\ j <= Len(s)
    OBVIOUS
  <2>2. x \in Nat /\ y \in Nat /\ x <= y /\ y <= j - i
    BY <1>1, <2>1
  <2> QED BY <2>1, <2>2
<1>4. /\ SubSeq(s, i + x + 1, i + y) \in Seq(Tokens)
      /\ Len(SubSeq(s, i + x + 1, i + y)) = y - x
      /\ \A z \in 1 .. y - x : SubSeq(s, i + x + 1, i + y)[z] = s[(i + x) + z]
  <2>1. (i + x) + 1 = i + x + 1
    OBVIOUS
  <2>2. IsCut(SubSeq(s, (i + x) + 1, i + y), s, i + x, i + y)
    BY <1>3, CutIs
  <2> QED BY <1>3, <2>2 DEF IsCut
<1>5. \A z \in 1 .. y - x : c[x + z] = s[(i + x) + z]
  <2> TAKE z \in 1 .. y - x
  <2>1. x + z \in 1 .. j - i /\ i + (x + z) = (i + x) + z
    BY <1>1
  <2> QED BY <1>1, <2>1, Zenon
<1> DEFINE l == SubSeq(c, x + 1, y)
           r == SubSeq(s, i + x + 1, i + y)
<1> HIDE DEF l, r
<1>6. Len(l) = Len(r) /\ \A z \in 1 .. Len(l) : l[z] = r[z]
  <2>1. Len(l) = y - x /\ \A z \in 1 .. y - x : l[z] = c[x + z]
    BY <1>2 DEF l
  <2>2. Len(r) = y - x /\ \A z \in 1 .. y - x : r[z] = s[(i + x) + z]
    BY <1>4 DEF r
  <2> QED BY <2>1, <2>2, <1>5, Zenon
<1>7. l = r
  BY <1>2, <1>4, <1>6, SeqEqual DEF l, r
<1> QED BY <1>7 DEF l, r

\* A stream that goes on keeps its cuts.
LEMMA CutOfLonger ==
    ASSUME NEW s \in Seq(Tokens), NEW t \in Seq(Tokens),
           NEW i \in 0 .. Len(s), NEW j \in i .. Len(s)
    PROVE  SubSeq(s \o t, i + 1, j) = SubSeq(s, i + 1, j)
<1> DEFINE u == s \o t
<1>1. /\ u \in Seq(Tokens) /\ Len(u) = Len(s) + Len(t) /\ Len(s) \in Nat /\ Len(t) \in Nat
      /\ \A x \in 1 .. Len(u) : u[x] = IF x <= Len(s) THEN s[x] ELSE t[x - Len(s)]
  BY ConcatProperties
<1> HIDE DEF u
<1>2. /\ SubSeq(s, i + 1, j) \in Seq(Tokens) /\ Len(SubSeq(s, i + 1, j)) = j - i
      /\ \A x \in 1 .. j - i : SubSeq(s, i + 1, j)[x] = s[i + x]
  BY Cut
<1>3. i \in 0 .. Len(u) /\ j \in i .. Len(u)
  BY <1>1
<1>4. /\ SubSeq(u, i + 1, j) \in Seq(Tokens) /\ Len(SubSeq(u, i + 1, j)) = j - i
      /\ \A x \in 1 .. j - i : SubSeq(u, i + 1, j)[x] = u[i + x]
  BY <1>1, <1>3, Cut
<1>5. \A x \in 1 .. j - i : u[i + x] = s[i + x]
  BY <1>1
<1> DEFINE l == SubSeq(u, i + 1, j)
           r == SubSeq(s, i + 1, j)
<1> HIDE DEF l, r
<1>6. Len(l) = Len(r) /\ \A x \in 1 .. Len(l) : l[x] = r[x]
  BY <1>2, <1>4, <1>5 DEF l, r
<1>7. l = r
  BY <1>2, <1>4, <1>6, SeqEqual DEF l, r
<1> QED BY <1>7 DEF l, r, u

\* What the order of tokens in the miner's messages says about single tokens.
LEMMA Grammar ==
    ASSUME TypeOK, SentInv
    PROVE  /\ sent \in Seq(Tokens) /\ Len(sent) \in Nat
           /\ \A i \in 1 .. Len(sent) : sent[i] \in Tokens
           /\ \A i \in 1 .. Len(sent) - 1 : sent[i] = "\r" <=> sent[i + 1] = "\n"
           /\ \A i \in 1 .. Len(sent) - 1 :
                sent[i] = "\n" \/ sent[i] = "found" => sent[i + 1] \in Texts
           /\ \A i \in 1 .. Len(sent) - 1 :
                sent[i] = "stats" \/ sent[i] = "completed" => sent[i + 1] = "\r"
           /\ \A i \in 1 .. Len(sent) - 1 : sent[i] = "found" => sent[i + 1] = "completed"
           /\ 1 <= Len(sent) => sent[1] \in Texts
           /\ 1 <= Len(sent) => sent[Len(sent)] \in {"found", "\n"}
<1>1. sent \in Seq(Tokens) /\ Len(sent) \in Nat
  BY DEF TypeOK
<1>2. \A i \in 1 .. Len(sent) : sent[i] \in Tokens
  BY <1>1
<1>3. ASSUME NEW i \in 1 .. Len(sent) - 1
      PROVE  /\ sent[i] = "\r" <=> sent[i + 1] = "\n"
             /\ sent[i] = "\n" \/ sent[i] = "found" => sent[i + 1] \in Texts
             /\ sent[i] = "stats" \/ sent[i] = "completed" => sent[i + 1] = "\r"
             /\ sent[i] = "found" => sent[i + 1] = "completed"
  <2>1. sent[i] \in {"stats", "found", "completed", "\r", "\n"}
    BY <1>1, <1>2 DEF Tokens, Texts
  <2>2. sent[i + 1] \in Follows(sent[i])
    BY DEF SentInv
  <2>3. CASE sent[i] \in {"stats", "completed"}
    BY <2>2, <2>3 DEF Follows
  <2>4. CASE sent[i] = "found"
    BY <2>2, <2>4 DEF Follows, Texts
  <2>5. CASE sent[i] = "\r"
    BY <2>2, <2>5 DEF Follows
  <2>6. CASE sent[i] = "\n"
    BY <2>2, <2>6 DEF Follows, Texts
  <2> QED BY <2>1, <2>3, <2>4, <2>5, <2>6
<1>4. 1 <= Len(sent) => sent # <<>>
  BY EmptySeq
<1>5. 1 <= Len(sent) => sent[1] \in Texts /\ sent[Len(sent)] \in {"found", "\n"}
  BY <1>4 DEF SentInv
<1> QED BY <1>1, <1>2, <1>3, <1>5

\* Between two boundaries the stream is whole lines.
LEMMA BoundariesAreComplete ==
    ASSUME TypeOK, SentInv, NEW h \in 0 .. Len(sent), NEW p \in h .. Len(sent),
           Boundary(h), Boundary(p)
    PROVE  Complete(SubSeq(sent, h + 1, p))
<1>1. /\ sent \in Seq(Tokens) /\ Len(sent) \in Nat
      /\ \A i \in 1 .. Len(sent) - 1 : sent[i] = "\r" <=> sent[i + 1] = "\n"
      /\ 1 <= Len(sent) => sent[1] \in Texts
  BY Grammar
<1> DEFINE c == SubSeq(sent, h + 1, p)
<1>2. c \in Seq(Tokens) /\ Len(c) = p - h /\ \A x \in 1 .. p - h : c[x] = sent[h + x]
  BY <1>1, Cut
<1> HIDE DEF c
<1>3. h \in Nat /\ p \in Nat /\ h <= p /\ p <= Len(sent)
  BY <1>1
<1>4. CASE p = h
  <2>1. c = <<>>
    BY <1>2, <1>3, <1>4
  <2> QED BY <2>1 DEF Complete, c
<1>5. CASE p # h
  <2>1. p # 0 /\ sent[p] = "\n"
    BY <1>3, <1>5 DEF Boundary
  <2>2. p # 1
    BY <1>1, <1>3, <2>1 DEF Texts
  <2>3. p - 1 \in 1 .. Len(sent) - 1 /\ (p - 1) + 1 = p
    BY <1>1, <1>3, <2>1, <2>2
  <2>4. sent[p - 1] = "\r"
    BY <1>1, <2>1, <2>3
  <2>5. p - 1 # h
    BY <2>3, <2>4 DEF Boundary
  <2>6. /\ p - h - 1 \in 1 .. p - h /\ p - h \in 1 .. p - h
        /\ h + (p - h - 1) = p - 1 /\ h + (p - h) = p
    BY <1>3, <1>5, <2>5
  <2>7. c[p - h - 1] = "\r" /\ c[p - h] = "\n"
    BY <1>2, <2>1, <2>4, <2>6
  <2>8. p - h - 1 \in LineEnds(c)
    BY <1>2, <1>3, <2>6, <2>7 DEF LineEnds
  <2> QED BY <1>2, <2>8 DEF Complete, c
<1> QED BY <1>4, <1>5

\* The lines of the stream up to q are those up to a boundary p and those behind.
LEMMA LinesOfStream ==
    ASSUME TypeOK, SentInv, NEW h \in 0 .. Len(sent), NEW p \in h .. Len(sent),
           NEW q \in p .. Len(sent), Boundary(h), Boundary(p)
    PROVE  Lines(SubSeq(sent, h + 1, q)) =
               Lines(SubSeq(sent, h + 1, p)) \o Lines(SubSeq(sent, p + 1, q))
<1>1. sent \in Seq(Tokens) /\ Len(sent) \in Nat
  BY Grammar
<1>2. p \in 0 .. Len(sent)
  BY <1>1
<1>3. SubSeq(sent, h + 1, p) \in Seq(Tokens) /\ SubSeq(sent, p + 1, q) \in Seq(Tokens)
  BY <1>1, <1>2, Cut
<1>4. Complete(SubSeq(sent, h + 1, p))
  BY BoundariesAreComplete
<1>5. SubSeq(sent, h + 1, p) \o SubSeq(sent, p + 1, q) = SubSeq(sent, h + 1, q)
  BY <1>1, JoinCuts
<1> QED BY <1>3, <1>4, <1>5, LinesConcat

\* The lines behind a boundary hold texts.
LEMMA StreamHoldsTexts ==
    ASSUME TypeOK, SentInv, NEW p \in 0 .. Len(sent), NEW q \in p .. Len(sent), Boundary(p)
    PROVE  Lines(SubSeq(sent, p + 1, q)) \in Seq(Seq(Texts))
<1>1. /\ sent \in Seq(Tokens) /\ Len(sent) \in Nat
      /\ \A i \in 1 .. Len(sent) - 1 : sent[i] = "\r" <=> sent[i + 1] = "\n"
      /\ \A i \in 1 .. Len(sent) - 1 : sent[i] = "\n" => sent[i + 1] \in Texts
      /\ 1 <= Len(sent) => sent[1] \in Texts
  BY Grammar
<1> DEFINE c == SubSeq(sent, p + 1, q)
<1>2. c \in Seq(Tokens) /\ Len(c) = q - p /\ \A x \in 1 .. q - p : c[x] = sent[p + x]
  BY <1>1, Cut
<1> HIDE DEF c
<1>3. p \in Nat /\ q \in Nat /\ p <= q /\ q <= Len(sent)
  BY <1>1
<1>4. ASSUME NEW i \in 1 .. Len(c) - 1 PROVE c[i] = "\r" <=> c[i + 1] = "\n"
  <2>1. /\ p + i \in 1 .. Len(sent) - 1 /\ i \in 1 .. q - p /\ i + 1 \in 1 .. q - p
        /\ p + (i + 1) = (p + i) + 1
    BY <1>1, <1>2, <1>3
  <2> QED BY <1>1, <1>2, <2>1
<1>5. c # <<>> => c[1] # "\n"
  <2> HAVE c # <<>>
  <2>1. q - p # 0
    BY <1>2
  <2>2. 1 \in 1 .. q - p /\ p + 1 <= Len(sent)
    BY <1>1, <1>3, <2>1
  <2>3. c[1] = sent[p + 1]
    BY <1>2, <2>2
  <2>4. sent[p + 1] \in Texts
    BY <1>1, <1>3, <2>2 DEF Boundary
  <2> QED BY <2>3, <2>4 DEF Texts
<1>6. Lines(c) \in Seq(Seq(Texts))
  BY <1>2, <1>4, <1>5, LinesHoldTexts
<1> QED BY <1>6 DEF c

\* What is unfinished behind a boundary is three tokens at most.
LEMMA UnfinishedIsShort ==
    ASSUME TypeOK, SentInv, NEW p \in 0 .. Len(sent), NEW m \in p .. Len(sent), Boundary(p),
           LineEnds(SubSeq(sent, p + 1, m)) = {}
    PROVE  m - p <= 3
<1>1. /\ sent \in Seq(Tokens) /\ Len(sent) \in Nat
      /\ \A i \in 1 .. Len(sent) - 1 : sent[i] = "\r" <=> sent[i + 1] = "\n"
      /\ \A i \in 1 .. Len(sent) - 1 : sent[i] = "\n" => sent[i + 1] \in Texts
      /\ \A i \in 1 .. Len(sent) - 1 :
            sent[i] = "stats" \/ sent[i] = "completed" => sent[i + 1] = "\r"
      /\ \A i \in 1 .. Len(sent) - 1 : sent[i] = "found" => sent[i + 1] = "completed"
      /\ 1 <= Len(sent) => sent[1] \in Texts
  BY Grammar
<1> SUFFICES ASSUME m - p > 3 PROVE FALSE
  BY <1>1
<1> DEFINE c == SubSeq(sent, p + 1, m)
<1>2. c \in Seq(Tokens) /\ Len(c) = m - p /\ \A x \in 1 .. m - p : c[x] = sent[p + x]
  BY <1>1, Cut
<1> HIDE DEF c
<1>3. /\ p \in Nat /\ m \in Nat /\ p + 4 <= m /\ m <= Len(sent)
      /\ p + 1 \in 1 .. Len(sent) - 1 /\ p + 2 \in 1 .. Len(sent) - 1
      /\ p + 3 \in 1 .. Len(sent) - 1
      /\ (p + 1) + 1 = p + 2 /\ (p + 2) + 1 = p + 3 /\ (p + 3) + 1 = p + 4
  BY <1>1
<1>4. ASSUME NEW i \in 1 .. 3 PROVE sent[p + i] # "\r"
  <2> SUFFICES ASSUME sent[p + i] = "\r" PROVE FALSE
    OBVIOUS
  <2>1. p + i \in 1 .. Len(sent) - 1 /\ p + (i + 1) = (p + i) + 1
    BY <1>1, <1>3
  <2>2. sent[p + (i + 1)] = "\n"
    BY <1>1, <2>1
  <2>3. i \in 1 .. m - p /\ i + 1 \in 1 .. m - p /\ i \in 1 .. (m - p) - 1
    BY <1>1, <1>3
  <2>4. c[i] = "\r" /\ c[i + 1] = "\n"
    BY <1>2, <2>2, <2>3
  <2>5. i \in LineEnds(c)
    BY <1>2, <2>3, <2>4 DEF LineEnds
  <2> QED BY <2>5 DEF c
<1>5. sent[p + 1] # "\r" /\ sent[p + 2] # "\r" /\ sent[p + 3] # "\r"
  BY <1>4
<1>6. sent[p + 1] \in Texts
  BY <1>1, <1>3 DEF Boundary
<1>7. sent[p + 1] = "found"
  BY <1>1, <1>3, <1>5, <1>6 DEF Texts
<1>8. sent[p + 2] = "completed"
  BY <1>1, <1>3, <1>7
<1>9. sent[p + 3] = "\r"
  BY <1>1, <1>3, <1>8
<1> QED BY <1>5, <1>9

-------------------------------------------------------------------------------
(***************************************************************************)
(* The inductive invariant.                                                *)
(***************************************************************************)

\* The positions that divide the stream, named.
Divided(h, p, m, q) ==
    /\ h \in Nat /\ p \in Nat /\ m \in Nat /\ q \in Nat
    /\ h <= p /\ p <= m /\ m <= q /\ q <= Len(sent)
    /\ Handled(h) /\ Taken(h, p) /\ Buffered(p, m) /\ UnderWay(m, q) /\ ExchangeInv(h, q)

LEMMA StreamIsDivided ==
    ASSUME TypeOK
    PROVE  StreamInv <=> \E h, p, m, q \in Nat : Divided(h, p, m, q)
<1>1. Len(sent) \in Nat
  BY DEF TypeOK
<1>2. ASSUME StreamInv PROVE \E h, p, m, q \in Nat : Divided(h, p, m, q)
  <2>1. PICK h \in 0 .. Len(sent) :
            /\ Handled(h)
            /\ \E p \in h .. Len(sent) :
                /\ Taken(h, p)
                /\ \E m \in p .. Len(sent) :
                    /\ Buffered(p, m)
                    /\ \E q \in m .. Len(sent) : UnderWay(m, q) /\ ExchangeInv(h, q)
    BY <1>2 DEF StreamInv
  <2>2. PICK p \in h .. Len(sent) :
            /\ Taken(h, p)
            /\ \E m \in p .. Len(sent) :
                /\ Buffered(p, m)
                /\ \E q \in m .. Len(sent) : UnderWay(m, q) /\ ExchangeInv(h, q)
    BY <2>1
  <2>3. PICK m \in p .. Len(sent) :
            /\ Buffered(p, m)
            /\ \E q \in m .. Len(sent) : UnderWay(m, q) /\ ExchangeInv(h, q)
    BY <2>2
  <2>4. PICK q \in m .. Len(sent) : UnderWay(m, q) /\ ExchangeInv(h, q)
    BY <2>3
  <2>5. /\ h \in Nat /\ p \in Nat /\ m \in Nat /\ q \in Nat
        /\ h <= p /\ p <= m /\ m <= q /\ q <= Len(sent)
    BY <1>1
  <2>6. Divided(h, p, m, q)
    BY <2>1, <2>2, <2>3, <2>4, <2>5 DEF Divided
  <2> QED BY <2>5, <2>6
<1>3. ASSUME NEW h \in Nat, NEW p \in Nat, NEW m \in Nat, NEW q \in Nat, Divided(h, p, m, q)
      PROVE  StreamInv
  <2>1. /\ h \in 0 .. Len(sent) /\ p \in h .. Len(sent) /\ m \in p .. Len(sent)
        /\ q \in m .. Len(sent)
    BY <1>1, <1>3 DEF Divided
  <2>2. Handled(h) /\ Taken(h, p) /\ Buffered(p, m) /\ UnderWay(m, q) /\ ExchangeInv(h, q)
    BY <1>3 DEF Divided
  <2> QED BY <2>1, <2>2 DEF StreamInv
<1> QED BY <1>2, <1>3

LEMMA StreamIsDividedNext ==
    TypeOK' => (StreamInv' <=> \E h, p, m, q \in Nat : Divided(h, p, m, q)')
<1> DEFINE E == \E h, p, m, q \in Nat : Divided(h, p, m, q)
<1>1. TypeOK => (StreamInv <=> E)
  BY StreamIsDivided
<1> HIDE DEF E
<1>2. TypeOK' => (StreamInv' <=> E')
  BY <1>1, PTL
<1> QED BY <1>2 DEF E

LEMMA InitIndInv == Init => IndInv
<1> SUFFICES ASSUME Init PROVE IndInv
  OBVIOUS
<1>1. TypeOK /\ SentInv /\ NothingHeldBack
  <2>1. \A S : <<>> \in Seq(S) /\ Len(<<>>) = 0
    BY EmptySeq
  <2>2. TypeOK
    <3>1. Len(buffer) = 0 /\ 0 <= 2 * MaxBuffer
      BY <2>1 DEF Init
    <3> QED BY <2>1, <3>1 DEF Init, TypeOK
  <2>3. SentInv
    <3>1. 1 .. Len(sent) - 1 = {}
      BY <2>1 DEF Init
    <3> QED BY <3>1 DEF Init, SentInv
  <2>4. NothingHeldBack
    BY <2>1 DEF Init, NothingHeldBack, LineEnds
  <2> QED BY <2>2, <2>3, <2>4
<1>2. SubSeq(<<>>, 1, 0) = <<>>
  BY SubSeqEmpty
<1>3. Lines(<<>>) = <<>>
  <2>1. <<>> \in Seq(Tokens) /\ LineEnds(<<>>) = {}
    BY EmptySeq DEF LineEnds
  <2> QED BY <2>1, NoLines
<1>4. Divided(0, 0, 0, 0)
  <2>1. Len(sent) = 0 /\ 0 + 1 = 1 /\ 0 <= 0 /\ 0 \in Nat
    BY EmptySeq DEF Init
  <2>2. ExchangeInv(0, 0)
    <3>1. Answers(0, 0) = {}
      BY DEF Answers
    <3> QED BY <3>1 DEF Init, ExchangeInv
  <2> QED BY <2>1, <2>2, <1>2, <1>3
      DEF Init, Divided, Handled, Taken, Buffered, UnderWay, Boundary
<1>5. StreamInv
  BY <1>1, <1>4, StreamIsDivided
<1> QED BY <1>1, <1>5 DEF IndInv, Init

\* What every step needs to know of the state before it.
LEMMA Known ==
    ASSUME IndInv
    PROVE  /\ TypeOK /\ SentInv /\ sent \in Seq(Tokens) /\ Len(sent) \in Nat
           /\ \E h, p, m, q \in Nat : Divided(h, p, m, q)
BY StreamIsDivided, Grammar DEF IndInv

\* A step that leaves the stream alone keeps its division.
LEMMA SameStream ==
    ASSUME IndInv, TypeOK', UNCHANGED <<sent, buffer, commands, handled>>,
           NEW h \in Nat, NEW p \in Nat, NEW m \in Nat, NEW q \in Nat, NEW r \in Nat,
           Divided(h, p, m, q), m <= r, r <= q,
           UnderWay(m, r)', ExchangeInv(h, r)'
    PROVE  StreamInv'
<1>1. Divided(h, p, m, r)'
  BY DEF Divided, Handled, Taken, Buffered, Boundary, TypeOK
<1> QED BY <1>1, StreamIsDividedNext

\* The miner begins to hash what was handed out.
LEMMA ReceiveWorkKeeps == ASSUME IndInv, ReceiveWork PROVE IndInv'
<1> USE DEF ReceiveWork, sessionVars
<1>1. PICK h, p, m, q \in Nat : Divided(h, p, m, q)
  BY Known
<1>2. TypeOK' /\ NothingHeldBack' /\ (commands # <<>> => session = "live")'
  BY DEF IndInv, TypeOK, NothingHeldBack, LineEnds
<1>3. SentInv'
  BY DEF IndInv, SentInv
<1>4. UnderWay(m, q)' /\ ExchangeInv(h, q)'
  BY <1>1 DEF Divided, UnderWay, ExchangeInv, Answers
<1>5. StreamInv'
  BY <1>1, <1>2, <1>4, SameStream DEF Divided
<1> QED BY <1>2, <1>3, <1>5 DEF IndInv

\* The miner goes; what was under way may be lost.
LEMMA LeaveKeeps == ASSUME IndInv, Leave PROVE IndInv'
<1> USE DEF Leave, sessionVars
<1>1. PICK h, p, m, q \in Nat : Divided(h, p, m, q)
  BY Known
<1>2. TypeOK' /\ NothingHeldBack' /\ (commands # <<>> => session = "live")'
  <2>1. wire' \in Seq(Tokens)
    BY EmptySeq DEF IndInv, TypeOK
  <2> QED BY <2>1 DEF IndInv, TypeOK, NothingHeldBack, LineEnds
<1>3. SentInv'
  BY DEF IndInv, SentInv
<1>4. PICK r \in {m, q} : wire' = SubSeq(sent, m + 1, r)
  <2>1. wire = SubSeq(sent, m + 1, q)
    BY <1>1 DEF Divided, UnderWay
  <2>2. SubSeq(sent, m + 1, m) = <<>>
    BY SubSeqEmpty
  <2> QED BY <2>1, <2>2
<1>5. r \in Nat /\ m <= r /\ r <= q
  BY <1>1, <1>4 DEF Divided
<1>6. UnderWay(m, r)'
  BY <1>4 DEF UnderWay
<1>7. ExchangeInv(h, r)'
  <2>1. Answers(h, r) \subseteq Answers(h, q)
    BY <1>1, <1>5 DEF Answers
  <2>2. Answers(h, r)' = Answers(h, r)
    BY DEF Answers
  <2> QED BY <1>1, <2>1, <2>2 DEF Divided, ExchangeInv
<1>8. StreamInv'
  BY <1>1, <1>2, <1>5, <1>6, <1>7, SameStream
<1> QED BY <1>2, <1>3, <1>8 DEF IndInv

\* The server hands out a chunk: no answer is under way, and the miner waits.
LEMMA HandOutKeeps == ASSUME IndInv, HandOut PROVE IndInv'
<1> USE DEF HandOut
<1>1. PICK h, p, m, q \in Nat : Divided(h, p, m, q)
  BY Known
<1>2. TypeOK' /\ NothingHeldBack' /\ (commands # <<>> => session = "live")'
  BY DEF IndInv, TypeOK, NothingHeldBack, LineEnds
<1>3. SentInv'
  BY DEF IndInv, SentInv
<1>4. UnderWay(m, q)' /\ ExchangeInv(h, q)'
  <2>1. ExchangeInv(h, q) /\ UnderWay(m, q)
    BY <1>1 DEF Divided
  <2>2. Answers(h, q) = {} /\ miner \in {"waiting", "gone"} /\ busy' = TRUE
    BY <2>1 DEF ExchangeInv, IndInv, TypeOK
  <2>3. Answers(h, q)' = Answers(h, q)
    BY DEF Answers
  <2>4. ExchangeInv(h, q)'
    BY <2>2, <2>3 DEF ExchangeInv
  <2> QED BY <2>1, <2>4 DEF UnderWay
<1>5. StreamInv'
  BY <1>1, <1>2, <1>4, SameStream DEF Divided
<1> QED BY <1>2, <1>3, <1>5 DEF IndInv

\* The session ends, by the loss of the miner or by the timeout.
LEMMA CloseKeeps == ASSUME IndInv, TickLosesPeer \/ Timeout PROVE IndInv'
<1>0. /\ commands = <<>> /\ session' = "closed"
      /\ UNCHANGED <<minerVars, buffer, commands, busy, late, handled, stalled>>
  BY DEF TickLosesPeer, Timeout
<1> USE <1>0 DEF minerVars
<1>1. PICK h, p, m, q \in Nat : Divided(h, p, m, q)
  BY Known
<1>2. TypeOK' /\ NothingHeldBack' /\ (commands # <<>> => session = "live")'
  BY DEF IndInv, TypeOK, NothingHeldBack, LineEnds
<1>3. SentInv'
  BY DEF IndInv, SentInv
<1>4. UnderWay(m, q)' /\ ExchangeInv(h, q)'
  BY <1>1 DEF Divided, UnderWay, ExchangeInv, Answers
<1>5. StreamInv'
  BY <1>1, <1>2, <1>4, SameStream DEF Divided
<1> QED BY <1>2, <1>3, <1>5 DEF IndInv

\* The text of a one-text line stands in the tokens it was cut from.
LEMMA TextIsThere ==
    ASSUME NEW b \in Seq(Tokens), NEW k \in 1 .. Len(Lines(b)), NEW t, Lines(b)[k] = <<t>>
    PROVE  \E x \in 1 .. Len(b) : b[x] = t
<1>1. k \in 1 .. Cardinality(LineEnds(b))
  BY LinesAre
<1> DEFINE m == LineStart(b, k)
           e == LineEnd(b, k)
<1>2. /\ Len(Lines(b)[k]) = e - m
      /\ \A x \in 1 .. e - m : Lines(b)[k][x] = b[m + x - 1]
  BY <1>1, LinesAre
<1>3. m \in Nat /\ 1 <= m /\ m <= e
  BY <1>1, LineBounds
<1>4. e \in 1 .. Len(b) - 1 /\ Len(b) \in Nat
  <2>1. e \in LineEnds(b)
    BY <1>1, LineEndIs
  <2> QED BY <2>1, LineEndsFinite
<1> HIDE DEF m, e
<1>5. e - m = 1 /\ 1 \in 1 .. e - m
  BY <1>2, <1>3, <1>4
<1>6. b[m + 1 - 1] = t
  BY <1>2, <1>5
<1>7. m \in 1 .. Len(b) /\ m + 1 - 1 = m
  BY <1>3, <1>4
<1> QED BY <1>6, <1>7

\* The server handles the lines it has taken; an answer among them frees the
\* session, and then no other is under way.
LEMMA HandleCommandsKeeps == ASSUME IndInv, HandleCommands PROVE IndInv'
<1> USE DEF HandleCommands, minerVars
<1>1. PICK h, p, m, q \in Nat : Divided(h, p, m, q)
  BY Known
<1>2. /\ h <= p /\ p <= m /\ m <= q /\ q <= Len(sent)
      /\ Handled(h) /\ Taken(h, p) /\ Buffered(p, m) /\ UnderWay(m, q) /\ ExchangeInv(h, q)
  BY <1>1 DEF Divided
<1>3. TypeOK /\ SentInv /\ sent \in Seq(Tokens) /\ Len(sent) \in Nat
  BY Known
<1>4. TypeOK' /\ NothingHeldBack' /\ (commands # <<>> => session = "live")'
  <2>1. commands' \in Seq(Seq(Texts)) /\ handled' \in Seq(Seq(Texts))
    BY <1>3, EmptySeq, ConcatProperties DEF TypeOK
  <2>2. busy' \in BOOLEAN /\ late' \in BOOLEAN /\ session' \in {"live", "closed"}
    BY <1>3 DEF TypeOK
  <2>3. UNCHANGED <<miner, work, wire, buffer, sent, stalled>>
    OBVIOUS
  <2>4. TypeOK'
    BY <1>3, <2>1, <2>2, <2>3 DEF TypeOK
  <2> QED BY <2>3, <2>4 DEF IndInv, NothingHeldBack, LineEnds
<1>5. SentInv'
  BY <1>3 DEF SentInv
<1>6. /\ h \in 0 .. Len(sent) /\ p \in h .. Len(sent) /\ 0 \in 0 .. Len(sent)
      /\ h \in 0 .. Len(sent) /\ p \in 0 .. Len(sent) /\ 0 + 1 = 1
  BY <1>2, <1>3
<1>7. Handled(p)'
  <2>1. Lines(SubSeq(sent, 0 + 1, p)) =
            Lines(SubSeq(sent, 0 + 1, h)) \o Lines(SubSeq(sent, h + 1, p))
    <3>1. Boundary(0) /\ Boundary(h)
      BY <1>2 DEF Boundary, Handled
    <3> QED BY <1>3, <1>6, <3>1, LinesOfStream
  <2>2. handled \o commands = Lines(SubSeq(sent, 1, p))
    BY <1>2, <1>6, <2>1 DEF Handled, Taken
  <2> QED BY <1>2, <2>2 DEF Handled, Taken, Boundary
<1>8. Taken(p, p)'
  <2>1. SubSeq(sent, p + 1, p) = <<>>
    BY SubSeqEmpty
  <2>2. Lines(<<>>) = <<>>
    <3>1. <<>> \in Seq(Tokens) /\ LineEnds(<<>>) = {}
      BY EmptySeq DEF LineEnds
    <3> QED BY <3>1, NoLines
  <2> QED BY <1>2, <2>1, <2>2 DEF Taken, Boundary
<1>9. Answers(p, q) \subseteq Answers(h, q)
  BY <1>2 DEF Answers
<1>10. ASSUME busy' # busy
       PROVE  Answers(p, q) = {} /\ Answers(h, q) # {}
  <2>1. PICK k \in DOMAIN commands : commands[k] = <<"completed">>
    BY <1>3, <1>10 DEF TypeOK
  <2> DEFINE c == SubSeq(sent, h + 1, p)
  <2>2. c \in Seq(Tokens) /\ Len(c) = p - h /\ \A x \in 1 .. p - h : c[x] = sent[h + x]
    BY <1>3, <1>6, Cut
  <2>3. commands = Lines(c)
    BY <1>2 DEF Taken
  <2> HIDE DEF c
  <2>4. k \in 1 .. Len(Lines(c)) /\ Lines(c)[k] = <<"completed">>
    BY <2>1, <2>2, <2>3, LinesAre
  <2>5. PICK x \in 1 .. p - h : c[x] = "completed"
    <3>1. \E x \in 1 .. Len(c) : c[x] = "completed"
      BY Zenon, <2>2, <2>4, TextIsThere
    <3> QED BY <2>2, <3>1
  <2>6. h + x \in Answers(h, q) /\ h + x <= p
    BY <1>2, <1>3, <2>2, <2>5 DEF Answers
  <2>7. Answers(p, q) = {}
    <3> SUFFICES ASSUME NEW y \in Answers(p, q) PROVE FALSE
      OBVIOUS
    <3>1. y \in Answers(h, q) /\ y > p /\ y \in Nat
      BY <1>9 DEF Answers
    <3>2. y = h + x
      BY <1>2, <2>6, <3>1 DEF ExchangeInv
    <3> QED BY <2>6, <3>1, <3>2
  <2> QED BY <2>6, <2>7
<1>11. ExchangeInv(p, q)'
  <2>1. Answers(p, q)' = Answers(p, q)
    BY DEF Answers
  <2>2. CASE busy' = busy
    BY <1>2, <1>9, <2>1, <2>2 DEF ExchangeInv
  <2>3. CASE busy' # busy
    BY <1>2, <1>10, <2>1, <2>3 DEF ExchangeInv
  <2> QED BY <2>2, <2>3
<1>12. Divided(p, p, m, q)'
  BY <1>2, <1>7, <1>8, <1>11 DEF Divided, Buffered, UnderWay
<1>13. StreamInv'
  BY <1>4, <1>12, StreamIsDividedNext
<1> QED BY <1>4, <1>5, <1>13 DEF IndInv

\* What the miner sends goes to the end of the stream, under way.
Extended(tokens, h, p, m, q) ==
    /\ sent' \in Seq(Tokens) /\ wire' \in Seq(Tokens)
    /\ Len(sent') = Len(sent) + Len(tokens) /\ q = Len(sent)
    /\ \A i \in 1 .. Len(sent') :
        sent'[i] = IF i <= Len(sent) THEN sent[i] ELSE tokens[i - Len(sent)]
    /\ Handled(h)' /\ Taken(h, p)' /\ Buffered(p, m)'
    /\ wire' = SubSeq(sent', m + 1, Len(sent'))

LEMMA SendExtends ==
    ASSUME IndInv, NEW tokens \in Seq(Tokens), Send(tokens), miner # "gone",
           UNCHANGED sessionVars,
           NEW h \in Nat, NEW p \in Nat, NEW m \in Nat, NEW q \in Nat, Divided(h, p, m, q)
    PROVE  Extended(tokens, h, p, m, q)
<1> USE DEF sessionVars
<1>1. /\ h <= p /\ p <= m /\ m <= q /\ q <= Len(sent)
      /\ Handled(h) /\ Taken(h, p) /\ Buffered(p, m) /\ UnderWay(m, q)
  BY DEF Divided
<1>2. TypeOK /\ sent \in Seq(Tokens) /\ Len(sent) \in Nat /\ Len(tokens) \in Nat
  BY Known
<1>3. sent' = sent \o tokens /\ wire' = wire \o tokens
  BY DEF Send
<1>4. /\ sent' \in Seq(Tokens) /\ wire' \in Seq(Tokens)
      /\ Len(sent') = Len(sent) + Len(tokens)
      /\ \A i \in 1 .. Len(sent') :
           sent'[i] = IF i <= Len(sent) THEN sent[i] ELSE tokens[i - Len(sent)]
  BY <1>2, <1>3, ConcatProperties DEF TypeOK
<1>5. q = Len(sent)
  BY <1>1 DEF UnderWay
<1>6. /\ h \in 0 .. Len(sent) /\ p \in h .. Len(sent) /\ m \in p .. Len(sent)
      /\ p \in 0 .. Len(sent) /\ m \in 0 .. Len(sent) /\ 0 \in 0 .. Len(sent) /\ 0 + 1 = 1
  BY <1>1, <1>2
<1>7. /\ SubSeq(sent', 0 + 1, h) = SubSeq(sent, 0 + 1, h)
      /\ SubSeq(sent', h + 1, p) = SubSeq(sent, h + 1, p)
      /\ SubSeq(sent', p + 1, m) = SubSeq(sent, p + 1, m)
  BY <1>2, <1>3, <1>6, CutOfLonger
<1>8. /\ h # 0 => h \in 1 .. Len(sent') /\ h <= Len(sent)
      /\ p # 0 => p \in 1 .. Len(sent') /\ p <= Len(sent)
  BY <1>2, <1>4, <1>6
<1>9. Boundary(h)' /\ Boundary(p)'
  BY <1>1, <1>4, <1>8 DEF Handled, Taken, Boundary
<1>10. Handled(h)' /\ Taken(h, p)' /\ Buffered(p, m)'
  BY <1>1, <1>6, <1>7, <1>9 DEF Handled, Taken, Buffered
<1>11. wire' = SubSeq(sent', m + 1, Len(sent'))
  <2> DEFINE n == Len(sent)
  <2>1. wire = SubSeq(sent, m + 1, n)
    BY <1>1, <1>5 DEF UnderWay
  <2>2. SubSeq(sent', m + 1, n) = SubSeq(sent, m + 1, n)
    <3>1. n \in m .. Len(sent)
      BY <1>2, <1>6
    <3> QED BY <1>2, <1>3, <1>6, <3>1, CutOfLonger
  <2>3. m \in 0 .. Len(sent') /\ n \in m .. Len(sent') /\ Len(sent') \in n .. Len(sent')
    BY <1>2, <1>4, <1>6
  <2>4. SubSeq(sent', m + 1, n) \o SubSeq(sent', n + 1, Len(sent')) = SubSeq(sent', m + 1, Len(sent'))
    BY <1>4, <2>3, JoinCuts
  <2>5. SubSeq(sent', n + 1, Len(sent')) = tokens
    <3> DEFINE c == SubSeq(sent', n + 1, Len(sent'))
    <3>1. /\ c \in Seq(Tokens) /\ Len(c) = Len(sent') - n
          /\ \A x \in 1 .. Len(sent') - n : c[x] = sent'[n + x]
      <4>1. n \in 0 .. Len(sent')
        BY <2>3, <1>2
      <4> QED BY <1>4, <2>3, <4>1, Cut
    <3> HIDE DEF c
    <3>2. Len(c) = Len(tokens)
      BY <1>2, <1>4, <3>1
    <3>3. \A x \in 1 .. Len(c) : c[x] = tokens[x]
      <4> TAKE x \in 1 .. Len(c)
      <4>1. /\ n + x \in 1 .. Len(sent') /\ ~ (n + x <= Len(sent)) /\ (n + x) - Len(sent) = x
            /\ x \in 1 .. Len(sent') - n
        BY <1>2, <1>4, <3>1
      <4> QED BY <4>1, <3>1, <1>4
    <3>4. c = tokens
      BY <3>1, <3>2, <3>3, SeqEqual
    <3> QED BY <3>4 DEF c
  <2> QED BY <1>3, <2>1, <2>2, <2>4, <2>5
<1> QED BY <1>4, <1>5, <1>10, <1>11 DEF Extended

\* The messages of the miner follow each other as Follows says; the answer is
\* sent only when no other is under way.
LEMMA SendKeeps == ASSUME IndInv, SendStats \/ SendFound \/ SendCompleted PROVE IndInv'
<1>1. PICK h, p, m, q \in Nat : Divided(h, p, m, q)
  BY Known
<1>2. /\ h <= p /\ p <= m /\ m <= q /\ q <= Len(sent) /\ ExchangeInv(h, q)
      /\ miner # "gone" => q = Len(sent)
  BY <1>1 DEF Divided, UnderWay
<1>3. TypeOK /\ SentInv /\ sent \in Seq(Tokens) /\ Len(sent) \in Nat
  BY Known
\* The three messages at once: the tokens, and the miner behind them.
<1> DEFINE Message(t) == /\ t \in Seq(Tokens)
                         /\ t[1] \in Texts
                         /\ t[Len(t)] \in {"found", "\n"}
                         /\ Len(t) \in {1, 3}
                         /\ \A i \in 1 .. Len(t) - 1 : t[i + 1] \in Follows(t[i])
                         /\ (miner' = "found" <=> t[Len(t)] = "found")
                         /\ (miner = "found" => t[1] = "completed")
<1>4. PICK t \in Seq(Tokens) :
            /\ Message(t) /\ Send(t)
            /\ miner \in {"hashing", "found"} /\ miner' \in {"hashing", "found", "waiting"}
            /\ (\E i \in 1 .. Len(t) : t[i] = "completed") => t[1] = "completed" /\ miner' = "waiting"
            /\ \A i \in 2 .. Len(t) : t[i] # "completed"
            /\ work' = work /\ UNCHANGED <<sessionVars, stalled>>
  <2>1. CASE SendStats
    <3> DEFINE t == <<"stats", "\r", "\n">>
    <3>1. t \in Seq(Tokens) /\ Len(t) = 3 /\ t[1] = "stats" /\ t[2] = "\r" /\ t[3] = "\n"
      BY DEF Tokens, Texts
    <3> HIDE DEF t
    <3>2. \A i \in 1 .. Len(t) - 1 : t[i + 1] \in Follows(t[i])
      BY <3>1 DEF Follows
    <3>3. \A i \in 1 .. Len(t) : t[i] # "completed"
      BY <3>1
    <3>4. /\ miner = "hashing" /\ miner' = miner /\ work' = work
          /\ UNCHANGED <<sessionVars, stalled>> /\ Send(t)
      BY <2>1 DEF SendStats, t
    <3>5. Message(t)
      BY <3>1, <3>2, <3>4 DEF Texts
    <3>6. \A i \in 2 .. Len(t) : t[i] # "completed"
      BY <3>1, <3>3
    <3> QED BY <3>1, <3>3, <3>4, <3>5, <3>6
  <2>2. CASE SendFound
    <3> DEFINE t == <<"found">>
    <3>1. t \in Seq(Tokens) /\ Len(t) = 1 /\ t[1] = "found"
      BY DEF Tokens, Texts
    <3> HIDE DEF t
    <3>2. \A i \in 1 .. Len(t) - 1 : t[i + 1] \in Follows(t[i])
      BY <3>1
    <3>3. \A i \in 1 .. Len(t) : t[i] # "completed"
      BY <3>1
    <3>4. /\ miner = "hashing" /\ miner' = "found" /\ work' = work
          /\ UNCHANGED <<sessionVars, stalled>> /\ Send(t)
      BY <2>2 DEF SendFound, t
    <3>5. Message(t)
      BY <3>1, <3>2, <3>4 DEF Texts
    <3>6. \A i \in 2 .. Len(t) : t[i] # "completed"
      BY <3>1, <3>3
    <3> QED BY <3>1, <3>3, <3>4, <3>5, <3>6
  <2>3. CASE SendCompleted
    <3> DEFINE t == <<"completed", "\r", "\n">>
    <3>1. t \in Seq(Tokens) /\ Len(t) = 3 /\ t[1] = "completed" /\ t[2] = "\r" /\ t[3] = "\n"
      BY DEF Tokens, Texts
    <3> HIDE DEF t
    <3>2. \A i \in 1 .. Len(t) - 1 : t[i + 1] \in Follows(t[i])
      BY <3>1 DEF Follows
    <3>3. \A i \in 2 .. Len(t) : t[i] # "completed"
      BY <3>1
    <3>4. /\ miner \in {"hashing", "found"} /\ miner' = "waiting" /\ work' = work
          /\ UNCHANGED <<sessionVars, stalled>> /\ Send(t)
      BY <2>3 DEF SendCompleted, t
    <3>5. Message(t)
      BY <3>1, <3>2, <3>4 DEF Texts
    <3> QED BY <3>1, <3>3, <3>4, <3>5
  <2> QED BY <2>1, <2>2, <2>3
<1>5. PICK n \in Nat : n = Len(sent)
  BY <1>3
<1> DEFINE k == Len(t)
<1>6. /\ sent' \in Seq(Tokens) /\ wire' \in Seq(Tokens)
      /\ Len(sent') = n + k /\ q = n
      /\ \A i \in 1 .. Len(sent') : sent'[i] = IF i <= n THEN sent[i] ELSE t[i - n]
      /\ Handled(h)' /\ Taken(h, p)' /\ Buffered(p, m)'
      /\ wire' = SubSeq(sent', m + 1, Len(sent'))
  <2>1. miner # "gone" /\ Send(t) /\ UNCHANGED sessionVars
    BY <1>4
  <2>2. Extended(t, h, p, m, q)
    BY <1>1, <2>1, SendExtends
  <2> QED BY <1>5, <2>2 DEF Extended
<1>7. k \in {1, 3} /\ n \in Nat
  BY <1>3, <1>4
<1>8. TypeOK' /\ NothingHeldBack' /\ (commands # <<>> => session = "live")'
  <2>1. UNCHANGED <<session, buffer, commands, busy, late, handled, stalled, work>>
    BY <1>4 DEF sessionVars
  <2>2. miner' \in {"waiting", "hashing", "found", "gone"}
    BY <1>4
  <2> QED BY <1>3, <1>6, <2>1, <2>2 DEF IndInv, TypeOK, NothingHeldBack, LineEnds
<1> HIDE DEF k
<1>9. /\ \A i \in 1 .. n : i \in 1 .. Len(sent') /\ sent'[i] = sent[i]
      /\ \A i \in 1 .. k : n + i \in 1 .. Len(sent') /\ sent'[n + i] = t[i]
  <2>1. ASSUME NEW i \in 1 .. n PROVE i \in 1 .. Len(sent') /\ sent'[i] = sent[i]
    BY <1>6, <1>7
  <2>2. ASSUME NEW i \in 1 .. k PROVE n + i \in 1 .. Len(sent') /\ sent'[n + i] = t[i]
    <3>1. n + i \in 1 .. Len(sent') /\ ~ (n + i <= n) /\ (n + i) - n = i
      BY <1>6, <1>7
    <3> QED BY <3>1, <1>6
  <2> QED BY <2>1, <2>2
<1>10. SentInv'
  <2>1. sent'[1] \in Texts
    <3>1. CASE n = 0
      <4>1. 1 \in 1 .. k /\ n + 1 = 1
        BY <1>7, <3>1
      <4>2. sent'[1] = t[1]
        BY <1>9, <4>1
      <4> QED BY <4>2, <1>4
    <3>2. CASE n # 0
      <4>1. 1 \in 1 .. n /\ 1 <= Len(sent)
        BY <1>7, <1>5, <3>2
      <4>2. sent'[1] = sent[1]
        BY <1>9, <4>1
      <4> QED BY <4>1, <4>2, <1>3, Grammar
    <3> QED BY <3>1, <3>2
  <2>2. sent'[Len(sent')] = t[k]
    <3>1. k \in 1 .. k
      BY <1>7
    <3> QED BY <3>1, <1>6, <1>9
  <2>3. ASSUME NEW i \in 1 .. Len(sent') - 1 PROVE sent'[i + 1] \in Follows(sent'[i])
    <3>0. i \in Nat /\ 1 <= i /\ i <= n + k - 1
      BY <1>6, <1>7
    <3>1. CASE i < n
      <4>1. i \in 1 .. n /\ i + 1 \in 1 .. n /\ i \in 1 .. Len(sent) - 1
        BY <1>7, <1>5, <3>0, <3>1
      <4>2. sent[i + 1] \in Follows(sent[i])
        BY <4>1, <1>3 DEF SentInv
      <4> QED BY <4>1, <4>2, <1>9
    <3>2. CASE i = n
      <4>1. i \in 1 .. n /\ 1 \in 1 .. k /\ 1 <= Len(sent)
        BY <1>7, <1>5, <3>0, <3>2
      <4>2. sent'[i] = sent[Len(sent)] /\ sent'[i + 1] = t[1]
        BY <4>1, <1>9, <1>5, <3>2
      <4>3. /\ sent[Len(sent)] \in {"found", "\n"} /\ sent # <<>>
            /\ sent[Len(sent)] = "found" => miner = "found"
        BY <4>1, <1>3, <1>4, Grammar, EmptySeq DEF SentInv
      <4>4. CASE sent[Len(sent)] = "found"
        <5>1. t[1] = "completed"
          BY <4>3, <4>4, <1>4
        <5> QED BY <4>2, <4>4, <5>1 DEF Follows
      <4>5. CASE sent[Len(sent)] = "\n"
        BY <4>2, <4>5, <1>4 DEF Follows
      <4> QED BY <4>3, <4>4, <4>5
    <3>3. CASE i > n
      <4> DEFINE j == i - n
      <4>1. j \in 1 .. k - 1 /\ j \in 1 .. k /\ j + 1 \in 1 .. k /\ i = n + j /\ i + 1 = n + (j + 1)
        BY <1>7, <3>0, <3>3
      <4> HIDE DEF j
      <4>2. sent'[i] = t[j] /\ sent'[i + 1] = t[j + 1]
        BY <4>1, <1>9
      <4> QED BY <4>1, <4>2, <1>4 DEF k
    <3> QED BY <1>7, <3>0, <3>1, <3>2, <3>3
  <2>4. sent' # <<>>
    <3>1. Len(sent') # 0
      BY <1>6, <1>7
    <3> QED BY <3>1, EmptySeq
  <2>5. miner' = "found" <=> sent' # <<>> /\ sent'[Len(sent')] = "found"
    BY <2>2, <2>4, <1>4 DEF k
  <2>6. sent'[Len(sent')] \in {"found", "\n"}
    BY <2>2, <1>4 DEF k
  <2> QED BY <2>1, <2>3, <2>5, <2>6 DEF SentInv
<1>11. ExchangeInv(h, n + k)'
  <2>1. ~ work /\ busy /\ Answers(h, q) = {} /\ busy' = busy /\ work' = work
    BY <1>2, <1>4 DEF ExchangeInv, sessionVars
  <2>2. \A i \in Answers(h, n + k)' : i = n + 1 /\ t[1] = "completed"
    <3> SUFFICES ASSUME NEW i \in h + 1 .. n + k, sent'[i] = "completed"
                 PROVE  i = n + 1 /\ t[1] = "completed"
      BY DEF Answers
    <3>1. CASE i <= n
      <4>1. i \in 1 .. n /\ i \in h + 1 .. q
        BY <1>6, <1>7, <3>1
      <4>2. i \in Answers(h, q)
        BY <4>1, <1>9 DEF Answers
      <4> QED BY <4>2, <2>1
    <3>2. CASE i > n
      <4> DEFINE j == i - n
      <4>1. j \in 1 .. k /\ i = n + j
        BY <1>7, <3>2
      <4> HIDE DEF j
      <4>2. t[j] = "completed"
        BY <4>1, <1>9
      <4>3. ~ (j \in 2 .. k)
        BY <4>2, <1>4 DEF k
      <4>4. j = 1
        BY <4>1, <4>3, <1>7
      <4> QED BY <4>1, <4>2, <4>4
    <3> QED BY <1>7, <3>1, <3>2
  <2>3. t[1] = "completed" => miner' = "waiting"
    <3>1. 1 \in 1 .. k
      BY <1>7
    <3> QED BY <3>1, <1>4 DEF k
  <2>4. \A i, j \in Answers(h, n + k)' : i = j
    BY <2>2
  <2>5. miner' # "waiting" => Answers(h, n + k)' = {}
    BY <2>2, <2>3
  <2> QED BY <2>1, <2>4, <2>5 DEF ExchangeInv
<1>12. Divided(h, p, m, n + k)'
  <2>1. n + k \in Nat /\ m <= n + k /\ n + k <= Len(sent')
    <3>1. k \in Nat /\ m <= n /\ Len(sent') = n + k
      BY <1>2, <1>6, <1>7
    <3> QED BY <3>1, <1>7
  <2>2. UnderWay(m, n + k)'
    BY <1>6 DEF UnderWay
  <2> QED BY <1>2, <1>6, <1>11, <2>1, <2>2 DEF Divided
<1>13. StreamInv'
  <2>1. n + k \in Nat
    BY <1>7
  <2> QED BY <2>1, <1>8, <1>12, StreamIsDividedNext
<1> QED BY <1>8, <1>10, <1>13 DEF IndInv

\* The buffer never holds more than an unfinished line.
LEMMA BufferIsShort == ASSUME IndInv PROVE Len(buffer) <= 3 /\ Len(buffer) \in Nat
<1>1. PICK h, p, m, q \in Nat : Divided(h, p, m, q)
  BY Known
<1>2. TypeOK /\ SentInv /\ sent \in Seq(Tokens) /\ Len(sent) \in Nat
  BY Known
<1>3. /\ p \in 0 .. Len(sent) /\ m \in p .. Len(sent) /\ Boundary(p)
      /\ buffer = SubSeq(sent, p + 1, m)
  BY <1>1, <1>2 DEF Divided, Taken, Buffered
<1>4. Len(buffer) = m - p
  BY <1>2, <1>3, Cut
<1>5. LineEnds(SubSeq(sent, p + 1, m)) = {}
  BY <1>3 DEF IndInv, NothingHeldBack
<1>6. m - p <= 3
  BY <1>2, <1>3, <1>5, UnfinishedIsShort
<1> QED BY <1>2, <1>4, <1>6 DEF TypeOK

\* Data arrives, cut anywhere: its lines are taken, the rest stays.
LEMMA TickReadsKeeps == ASSUME IndInv, TickReads PROVE IndInv'
<1>1. PICK h, p, m, q \in Nat : Divided(h, p, m, q)
  BY Known
<1>2. /\ h <= p /\ p <= m /\ m <= q /\ q <= Len(sent)
      /\ Handled(h) /\ Taken(h, p) /\ Buffered(p, m) /\ UnderWay(m, q) /\ ExchangeInv(h, q)
  BY <1>1 DEF Divided
<1>3. TypeOK /\ SentInv /\ sent \in Seq(Tokens) /\ Len(sent) \in Nat
  BY Known
<1>4. /\ session = "live" /\ session' = session /\ commands = <<>>
      /\ UNCHANGED <<miner, work, sent, busy, late, handled, stalled>>
  BY BufferIsShort DEF TickReads
<1>5. PICK n \in 1 .. Len(wire) :
        /\ wire' = SubSeq(wire, n + 1, Len(wire))
        /\ commands' = Lines(buffer \o SubSeq(wire, 1, n))
        /\ buffer' = Remainder(buffer \o SubSeq(wire, 1, n))
  BY BufferIsShort DEF TickReads
<1>6. /\ h \in 0 .. Len(sent) /\ p \in h .. Len(sent) /\ p \in 0 .. Len(sent)
      /\ m \in p .. Len(sent) /\ m \in 0 .. Len(sent) /\ q \in m .. Len(sent)
      /\ 0 \in 0 .. Len(sent) /\ 0 + 1 = 1
  BY <1>2, <1>3
<1>7. wire = SubSeq(sent, m + 1, q) /\ Len(wire) = q - m /\ wire \in Seq(Tokens)
  BY <1>2, <1>3, <1>6, Cut DEF UnderWay
<1>8. /\ n \in Nat /\ 1 <= n /\ n <= q - m /\ m + n \in Nat /\ p <= m + n /\ m + n <= q
      /\ m + n <= Len(sent) /\ n \in 0 .. Len(wire) /\ Len(wire) \in n .. Len(wire)
      /\ m + Len(wire) = q
  BY <1>2, <1>3, <1>5, <1>7
\* The data is the stream from p on.
<1>9. buffer \o SubSeq(wire, 1, n) = SubSeq(sent, p + 1, m + n)
  <2>1. SubSeq(wire, 0 + 1, n) = SubSeq(sent, m + 0 + 1, m + n)
    <3>1. 0 \in 0 .. Len(wire) /\ n \in 0 .. Len(wire)
      BY <1>8
    <3> QED BY <1>3, <1>6, <1>7, <3>1, CutOfCut
  <2>2. m + 0 + 1 = m + 1 /\ m + n \in m .. Len(sent)
    BY <1>8
  <2>3. SubSeq(sent, p + 1, m) \o SubSeq(sent, m + 1, m + n) = SubSeq(sent, p + 1, m + n)
    BY <1>3, <1>6, <2>2, JoinCuts
  <2>4. SubSeq(wire, 1, n) = SubSeq(sent, m + 1, m + n)
    BY <1>6, <2>1, <2>2, Zenon
  <2>5. buffer = SubSeq(sent, p + 1, m)
    BY <1>2 DEF Buffered
  <2> QED BY <2>3, <2>4, <2>5, Zenon
<1> DEFINE c == SubSeq(sent, p + 1, m + n)
<1>10. /\ c \in Seq(Tokens) /\ Len(c) = m + n - p
       /\ \A x \in 1 .. m + n - p : c[x] = sent[p + x]
  <2>1. m + n \in p .. Len(sent)
    BY <1>8
  <2>2. IsCut(c, sent, p, m + n)
    BY <1>3, <1>6, <2>1, CutIs
  <2>3. m + n - p = (m + n) - p
    BY <1>8
  <2> HIDE DEF c
  <2> QED BY <2>2, <2>3, Zenon DEF IsCut
<1>11. PICK k \in 0 .. Len(c) :
          /\ Remainder(c) = SubSeq(c, k + 1, Len(c))
          /\ LineEnds(Remainder(c)) = {}
          /\ k = 0 \/ c[k] = "\n"
          /\ Lines(c) = Lines(SubSeq(c, 1, k))
  BY <1>10, RemainderIs
<1>12. /\ k \in Nat /\ k <= m + n - p /\ p + k \in Nat /\ p <= p + k /\ p + k <= m + n
       /\ p + Len(c) = m + n
  <2>1. Len(c) = m + n - p /\ k \in 0 .. Len(c)
    BY <1>10, <1>11
  <2> HIDE DEF c
  <2> QED BY <1>8, <2>1
<1>13. /\ SubSeq(c, k + 1, Len(c)) = SubSeq(sent, p + k + 1, m + n)
       /\ SubSeq(c, 1, k) = SubSeq(sent, p + 1, p + k)
  <2>1. /\ 0 \in 0 .. Len(c) /\ k \in 0 .. Len(c) /\ Len(c) \in k .. Len(c)
        /\ m + n \in p .. Len(sent)
    BY <1>8, <1>10, <1>12
  <2>2. SubSeq(c, k + 1, Len(c)) = SubSeq(sent, p + k + 1, p + Len(c))
    BY <1>3, <1>6, <2>1, CutOfCut
  <2>3. SubSeq(c, 0 + 1, k) = SubSeq(sent, p + 0 + 1, p + k)
    BY <1>3, <1>6, <2>1, CutOfCut
  <2>4. p + 0 + 1 = p + 1
    OBVIOUS
  <2> QED BY <1>6, <1>12, <2>2, <2>3, <2>4
<1>14. Boundary(p + k)
  <2>1. CASE k = 0
    <3>1. p + k = p
      BY <2>1
    <3> QED BY <1>2, <3>1 DEF Taken, Boundary
  <2>2. CASE k # 0
    <3>1. k \in 1 .. m + n - p /\ c[k] = "\n"
      BY <1>11, <1>12, <2>2
    <3> QED BY <1>10, <3>1 DEF Boundary
  <2> QED BY <2>1, <2>2
<1>15. Taken(h, p + k)'
  <2>1. Lines(SubSeq(sent, h + 1, p + k)) =
            Lines(SubSeq(sent, h + 1, p)) \o Lines(SubSeq(sent, p + 1, p + k))
    <3>1. p + k \in p .. Len(sent) /\ Boundary(h) /\ Boundary(p)
      BY <1>2, <1>8, <1>12 DEF Handled, Taken
    <3> QED BY <1>3, <1>6, <3>1, LinesOfStream
  <2>2. Lines(SubSeq(sent, h + 1, p)) = <<>>
    BY <1>2, <1>4 DEF Taken
  <2>3. commands' = Lines(SubSeq(sent, p + 1, p + k))
    BY <1>5, <1>9, <1>11, <1>13
  <2>4. Lines(SubSeq(sent, p + 1, p + k)) \in Seq(Seq(Tokens))
    <3>1. p + k \in p .. Len(sent)
      BY <1>8, <1>12
    <3> QED BY <1>3, <1>6, <3>1, Cut, LinesAre
  <2>5. commands' = Lines(SubSeq(sent, h + 1, p + k))
    BY <2>1, <2>2, <2>3, <2>4, ConcatEmptySeq
  <2> QED BY <1>4, <1>14, <2>5 DEF Taken, Boundary
<1>16. Buffered(p + k, m + n)'
  BY <1>4, <1>5, <1>9, <1>11, <1>13 DEF Buffered
<1>17. UnderWay(m + n, q)'
  <2>1. SubSeq(wire, n + 1, Len(wire)) = SubSeq(sent, m + n + 1, m + Len(wire))
    BY <1>3, <1>6, <1>7, <1>8, CutOfCut
  <2> QED BY <1>2, <1>4, <1>5, <1>8, <2>1 DEF UnderWay
<1>18. ExchangeInv(h, q)'
  BY <1>2, <1>4 DEF ExchangeInv, Answers
<1>19. Handled(h)'
  BY <1>2, <1>4 DEF Handled, Boundary
<1>20. Divided(h, p + k, m + n, q)'
  BY <1>2, <1>4, <1>8, <1>12, <1>15, <1>16, <1>17, <1>18, <1>19 DEF Divided
<1>21. NothingHeldBack' /\ SentInv' /\ (commands # <<>> => session = "live")'
  BY <1>3, <1>4, <1>5, <1>9, <1>11 DEF NothingHeldBack, SentInv, LineEnds
<1>22. TypeOK'
  <2>1. buffer' \in Seq(Tokens) /\ Len(buffer') = m + n - (p + k)
    <3>1. buffer' = SubSeq(sent, p + k + 1, m + n)
      BY <1>5, <1>9, <1>11, <1>13
    <3>2. p + k \in 0 .. Len(sent) /\ m + n \in p + k .. Len(sent)
      BY <1>8, <1>12
    <3> QED BY <1>3, <3>1, <3>2, Cut
  <2>2. m + n - (p + k) <= 3
    <3>1. p + k \in 0 .. Len(sent) /\ m + n \in p + k .. Len(sent)
      BY <1>8, <1>12
    <3>2. LineEnds(SubSeq(sent, p + k + 1, m + n)) = {}
      BY <1>11, <1>13
    <3> QED BY <1>3, <1>14, <3>1, <3>2, UnfinishedIsShort
  <2>3. wire' \in Seq(Tokens)
    <3>1. Len(wire) \in Nat /\ n \in 0 .. Len(wire) /\ Len(wire) \in n .. Len(wire)
      BY <1>8
    <3> QED BY <1>5, <1>7, <3>1, Cut
  <2>4. commands' \in Seq(Seq(Texts))
    <3>1. m + n \in p .. Len(sent) /\ Boundary(p)
      BY <1>2, <1>8 DEF Taken
    <3>2. commands' = Lines(SubSeq(sent, p + 1, m + n))
      BY <1>5, <1>9
    <3> QED BY <1>3, <1>6, <3>1, <3>2, StreamHoldsTexts
  <2>5. Len(buffer') <= 2 * MaxBuffer
    BY <2>1, <2>2, <1>8, <1>12
  <2> QED BY <1>3, <1>4, <2>1, <2>3, <2>4, <2>5 DEF TypeOK
<1>23. StreamInv'
  BY <1>8, <1>12, <1>20, <1>22, StreamIsDividedNext
<1> QED BY <1>21, <1>22, <1>23 DEF IndInv

LEMMA NextIndInv == IndInv /\ [Next]_vars => IndInv'
<1> SUFFICES ASSUME IndInv, [Next]_vars PROVE IndInv'
  OBVIOUS
<1>1. CASE ReceiveWork
  BY <1>1, ReceiveWorkKeeps
<1>2. CASE SendStats \/ SendFound \/ SendCompleted
  BY <1>2, SendKeeps
<1>3. CASE Leave
  BY <1>3, LeaveKeeps
<1>4. CASE TickReads
  BY <1>4, TickReadsKeeps
<1>5. CASE TickLosesPeer \/ Timeout
  BY <1>5, CloseKeeps
<1>6. CASE HandleCommands
  BY <1>6, HandleCommandsKeeps
<1>7. CASE HandOut
  BY <1>7, HandOutKeeps
\* The clock and the waiting for the pool leave everything else as it is.
<1>8. CASE PoolWaits \/ PoolAnswers \/ Second \/ UNCHANGED vars
  <2>0. /\ UNCHANGED <<minerVars, session, buffer, commands, busy, handled>>
        /\ late' \in BOOLEAN /\ stalled' \in BOOLEAN
    BY <1>8 DEF PoolWaits, PoolAnswers, Second, vars, sessionVars, IndInv, TypeOK
  <2> USE <2>0 DEF minerVars
  <2>1. TypeOK' /\ NothingHeldBack' /\ (commands # <<>> => session = "live")'
    BY DEF IndInv, TypeOK, NothingHeldBack, LineEnds
  <2>2. SentInv'
    BY DEF IndInv, SentInv
  <2>3. PICK h, p, m, q \in Nat : Divided(h, p, m, q)
    BY Known
  <2>4. UnderWay(m, q)' /\ ExchangeInv(h, q)'
    BY <2>3 DEF Divided, UnderWay, ExchangeInv, Answers
  <2>5. StreamInv'
    BY <2>1, <2>3, <2>4, SameStream DEF Divided
  <2> QED BY <2>1, <2>2, <2>5 DEF IndInv
<1> QED BY <1>1, <1>2, <1>3, <1>4, <1>5, <1>6, <1>7, <1>8 DEF Next

THEOREM Invariance == Spec => []IndInv
<1> QED BY InitIndInv, NextIndInv, PTL DEF Spec

\* The state has its types, and the buffer of a session stays within its limit.
THEOREM TypeCorrect == Spec => []TypeOK
<1>1. IndInv => TypeOK
  BY DEF IndInv
<1> QED BY <1>1, Invariance, PTL

\* No full line waits in the buffer for more data.
THEOREM NothingIsHeldBack == Spec => []NothingHeldBack
<1>1. IndInv => NothingHeldBack
  BY DEF IndInv
<1> QED BY <1>1, Invariance, PTL

\* However TCP cuts the stream, the server handles the lines the miner sent.
THEOREM LinesAreIntact == Spec => []LinesIntact
<1>1. IndInv => LinesIntact
  <2> SUFFICES ASSUME IndInv PROVE LinesIntact
    OBVIOUS
  <2>1. PICK h, p, m, q \in Nat : Divided(h, p, m, q)
    BY Known
  <2>2. TypeOK /\ SentInv /\ sent \in Seq(Tokens) /\ Len(sent) \in Nat
    BY Known
  <2>3. /\ h <= p /\ p <= m /\ m <= q /\ q <= Len(sent)
        /\ Handled(h) /\ Taken(h, p) /\ Buffered(p, m) /\ UnderWay(m, q)
    BY <2>1 DEF Divided
  <2> DEFINE n == Len(sent)
             taken == SubSeq(sent, 1, p)
             rest == SubSeq(sent, p + 1, n)
  <2>4. /\ 0 \in 0 .. n /\ h \in 0 .. n /\ p \in h .. n /\ p \in 0 .. n /\ m \in p .. n
        /\ n \in p .. n /\ n \in m .. n /\ 0 + 1 = 1
    BY <2>2, <2>3
  <2>5. Boundary(0) /\ Boundary(h) /\ Boundary(p)
    BY <2>3 DEF Boundary, Handled, Taken
  <2>6. handled \o commands = Lines(taken)
    <3>1. Lines(SubSeq(sent, 0 + 1, p)) =
              Lines(SubSeq(sent, 0 + 1, h)) \o Lines(SubSeq(sent, h + 1, p))
      BY <2>2, <2>4, <2>5, LinesOfStream
    <3> QED BY <3>1, <2>3, <2>4 DEF Handled, Taken
  <2>7. Lines(sent) = Lines(taken) \o Lines(rest)
    <3>1. Lines(SubSeq(sent, 0 + 1, n)) =
              Lines(SubSeq(sent, 0 + 1, p)) \o Lines(SubSeq(sent, p + 1, n))
      BY <2>2, <2>4, <2>5, LinesOfStream
    <3> QED BY <3>1, <2>2, <2>4, SubSeqFull
  <2>8. Lines(taken) \in Seq(Seq(Tokens)) /\ Lines(rest) \in Seq(Seq(Tokens))
    <3>1. taken \in Seq(Tokens) /\ rest \in Seq(Tokens)
      BY <2>2, <2>4, Cut
    <3> QED BY <3>1, LinesAre
  <2>9. IsPrefix(Lines(taken), Lines(taken) \o Lines(rest))
    <3> DEFINE a == Lines(taken)
               b == Lines(taken) \o Lines(rest)
    <3>1. /\ b \in Seq(Seq(Tokens)) /\ Len(a) \in Nat /\ Len(a) <= Len(b) /\ Len(b) \in Nat
          /\ \A i \in 1 .. Len(a) : b[i] = a[i]
      BY <2>8, ConcatProperties
    <3> HIDE DEF a, b, taken, rest
    <3>2. /\ SubSeq(b, 0 + 1, Len(a)) \in Seq(Seq(Tokens))
          /\ Len(SubSeq(b, 0 + 1, Len(a))) = Len(a)
          /\ \A i \in 1 .. Len(a) : SubSeq(b, 0 + 1, Len(a))[i] = b[i]
      BY <3>1
    <3>3. a = SubSeq(b, 1, Len(a))
      BY <2>8, <3>1, <3>2, SeqEqual DEF a
    <3> QED BY <3>1, <3>3 DEF IsPrefix, a, b
  <2>10. ASSUME miner # "gone" PROVE buffer \o wire = rest
    <3>1. buffer = SubSeq(sent, p + 1, m) /\ wire = SubSeq(sent, m + 1, n)
      BY <2>3, <2>10 DEF Buffered, UnderWay
    <3> QED BY <3>1, <2>2, <2>4, JoinCuts
  <2> QED BY <2>6, <2>7, <2>9, <2>10 DEF LinesIntact
<1> QED BY <1>1, Invariance, PTL

\* A chunk is handed out only to a miner that waits for one.
THEOREM WorkIsAlwaysAwaited == Spec => []WorkIsAwaited
<1>1. IndInv => WorkIsAwaited
  BY Known DEF Divided, ExchangeInv, WorkIsAwaited
<1> QED BY <1>1, Invariance, PTL

\* A session ends for a reason: the buffer never grows past its limit.
THEOREM SessionsEndForAReason == Spec => ClosedForAReason
<1> DEFINE Reason == \/ miner = "gone" \/ late \/ \E i \in DOMAIN commands : Misread(commands[i])
<1>1. IndInv /\ [Next]_vars => [session' # session => Reason]_vars
  <2> SUFFICES ASSUME IndInv, Next, session' # session PROVE Reason
    OBVIOUS
  <2>1. CASE \/ ReceiveWork \/ SendStats \/ SendFound \/ SendCompleted \/ Leave
             \/ PoolWaits \/ PoolAnswers \/ Second
    BY <2>1 DEF ReceiveWork, SendStats, SendFound, SendCompleted, Leave, PoolWaits,
                PoolAnswers, Second, sessionVars
  <2>2. CASE TickReads
    BY <2>2, BufferIsShort DEF TickReads
  <2>3. CASE TickLosesPeer
    BY <2>3 DEF TickLosesPeer
  <2>4. CASE HandleCommands
    BY <2>4 DEF HandleCommands
  <2>5. CASE HandOut
    BY <2>5 DEF HandOut
  <2>6. CASE Timeout
    BY <2>6 DEF Timeout
  <2> QED BY <2>1, <2>2, <2>3, <2>4, <2>5, <2>6 DEF Next
<1> QED BY <1>1, Invariance, PTL DEF Spec, ClosedForAReason
===============================================================================
