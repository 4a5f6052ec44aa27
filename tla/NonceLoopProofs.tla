---------------------------- MODULE NonceLoopProofs ----------------------------
(***************************************************************************)
(* Why comparing equal distances as well is enough: the miner that does     *)
(* never passes over a block, for every length of number, every target and   *)
(* every hash function.  And that the arithmetic of HashChecks agrees with    *)
(* the values its byte arrays stand for, for every base and length: what a    *)
(* recursion computes is shown by the least index at which it would fail.     *)
(***************************************************************************)
EXTENDS NonceLoop, MCHashChecks, WellFoundedInduction, TLAPS

USE HashAssumption, NonceLoopAssumption

\* A nonempty set of naturals has a least element.
LEMMA LeastNatural ==
    ASSUME NEW T \in SUBSET Nat, T # {}
    PROVE  \E x \in T : \A y \in T : x <= y
<1> DEFINE R == OpToRel(<, Nat)
<1>1. \E x \in T : \A y \in T : ~ (<<y, x>> \in R)
  <2>1. IsWellFoundedOn(R, Nat)
    BY NatLessThanWellFounded
  <2> HIDE DEF R
  <2> QED BY <2>1, WFMin
<1>2. PICK x \in T : \A y \in T : ~ (<<y, x>> \in R)
  BY <1>1
<1>3. ASSUME NEW y \in T PROVE x <= y
  <2>1. ~ (<<y, x>> \in R) /\ <<y, x>> \in Nat \X Nat
    BY <1>2
  <2>2. ~ (y < x)
    BY <2>1 DEF OpToRel
  <2> QED BY <2>2
<1> QED BY <1>3
\* calculateDistanceToTarget: the bytes in front are zero, the next is not.
LEMMA Distance ==
    ASSUME NEW h \in Numbers, NEW d, d = calculateDistanceToTarget(h)
    PROVE  /\ d \in 0 .. Length
           /\ \A i \in 1 .. d : h[i] = 0
           /\ d < Length => h[d + 1] # 0
<1> DEFINE IsDistance(k) == /\ \A i \in 1 .. k : h[i] = 0
                            /\ k < Length => h[k + 1] # 0
           nonZero == {k \in 0 .. Length - 1 : h[k + 1] # 0}
<1>1. \E k \in 0 .. Length : IsDistance(k)
  <2>1. CASE nonZero = {}
    <3>1. \A i \in 1 .. Length : i - 1 \in 0 .. Length - 1 /\ (i - 1) + 1 = i
      <4> HIDE DEF IsDistance, nonZero
      <4> QED BY HashAssumption
    <3>2. \A i \in 1 .. Length : h[i] = 0
      <4> TAKE i \in 1 .. Length
      <4>1. ~ (i - 1 \in nonZero)
        BY <2>1
      <4>2. h[(i - 1) + 1] = 0
        BY <3>1, <4>1
      <4> QED BY <3>1, <4>2, Zenon
    <3> QED BY <3>2
  <2>2. CASE nonZero # {}
    <3>1. nonZero \in SUBSET Nat
      OBVIOUS
    <3> HIDE DEF nonZero
    <3>2. PICK k \in nonZero : \A j \in nonZero : k <= j
      BY <2>2, <3>1, LeastNatural
    <3> USE DEF nonZero
    <3>3. \A i \in 1 .. k : i - 1 \in 0 .. Length - 1 /\ (i - 1) + 1 = i /\ i - 1 < k
      OBVIOUS
    <3>4. \A i \in 1 .. k : h[i] = 0
      BY <3>2, <3>3
    <3> QED BY <3>2, <3>4
  <2> QED BY <2>1, <2>2
<1>2. d = CHOOSE k \in 0 .. Length : IsDistance(k)
  BY DEF calculateDistanceToTarget
<1>3. d \in 0 .. Length /\ IsDistance(d)
  <2> HIDE DEF IsDistance
  <2> QED BY <1>1, <1>2
<1> QED BY <1>3

\* A number with more zero bytes than a valid one is valid.
LEMMA MoreZerosIsValid ==
    ASSUME NEW a \in Numbers, NEW b \in Numbers, NEW t \in Numbers, checkValid(b, t),
           calculateDistanceToTarget(b) < calculateDistanceToTarget(a)
    PROVE  checkValid(a, t)
<1> DEFINE da == calculateDistanceToTarget(a)
           db == calculateDistanceToTarget(b)
<1>1. /\ da \in 0 .. Length
      /\ \A i \in 1 .. da : a[i] = 0
  BY Distance
<1>2. /\ db \in 0 .. Length
      /\ \A i \in 1 .. db : b[i] = 0
      /\ db < Length => b[db + 1] # 0
  BY Distance
<1> HIDE DEF da, db
<1>3. db < da
  BY DEF da, db
<1>4. \A i \in Positions : a[i] \in Nat /\ b[i] \in Nat /\ t[i] \in Nat
  BY DEF Numbers, Bytes
<1>5. db + 1 \in Positions /\ b[db + 1] > 0
  BY <1>1, <1>2, <1>3, <1>4 DEF Positions
<1>6. PICK j \in 1 .. db + 1 : t[j] > 0
  <2>1. CASE t[db + 1] > 0
    BY <1>5, <2>1 DEF Positions
  <2>2. CASE ~ (t[db + 1] > 0)
    <3>1. b[db + 1] > t[db + 1]
      BY <1>4, <1>5, <2>2
    <3>2. PICK k \in 1 .. (db + 1) - 1 : b[k] < t[k]
      BY <1>5, <3>1 DEF checkValid
    <3>3. k \in 1 .. db + 1 /\ k \in Positions
      BY <1>2, <3>2 DEF Positions
    <3> QED BY <1>4, <3>2, <3>3
  <2> QED BY <2>1, <2>2
<1>7. ASSUME NEW i \in Positions, a[i] > t[i]
      PROVE  \E k \in 1 .. i - 1 : a[k] < t[k]
  <2>1. a[i] # 0
    BY <1>4, <1>7
  <2>2. ~ (i \in 1 .. da)
    BY <1>1, <2>1
  <2>3. j \in 1 .. i - 1 /\ j \in 1 .. da
    BY <1>1, <1>2, <1>3, <2>2 DEF Positions
  <2>4. a[j] < t[j]
    BY <1>1, <1>6, <2>3
  <2> QED BY <2>3, <2>4
<1> QED BY <1>7 DEF checkValid

\* The loop of CMiner.cpp compares equal distances as well.
ComparesEqual == ~ Strict

LEMMA InitLoopInv == Init => LoopInv
BY DEF Init, LoopInv, TypeOK, Targets, Nonces, DistanceIsBest, NoMissedBlock

\* DSHA256: a nonce that does not end the search is no block.
LEMMA IterateGoesOn ==
    ASSUME ComparesEqual, LoopInv, Searching, kind = "DSHA256",
           NEW d, d = calculateDistanceToTarget(hash[uiNonce]),
           ~ (Progresses(d) /\ IsBlock(uiNonce))
    PROVE  ~ IsBlock(uiNonce)
<1>1. /\ uiNonce \in Nonces /\ hash \in [Nonces -> Numbers] /\ target \in Numbers
      /\ distance \in 0 .. Length /\ nonce_start \in Nonces /\ nonce_end \in Nonces
  BY DEF LoopInv, TypeOK, Targets
<1>2. d \in 0 .. Length
  BY <1>1, Distance
<1>3. CASE d >= distance
  BY <1>3 DEF Progresses, ComparesEqual
<1>4. CASE d < distance
  <2>1. PICK m \in nonce_start .. uiNonce - 1 : calculateDistanceToTarget(hash[m]) = distance
    BY <1>1, <1>2, <1>4 DEF LoopInv, DistanceIsBest, Searching
  <2>2. ~ IsBlock(m) /\ m \in Nonces
    BY <1>1, <2>1 DEF LoopInv, Nonces, Searching
  <2>3. ASSUME checkValid(hash[uiNonce], target) PROVE FALSE
    BY <1>1, <1>4, <2>1, <2>2, <2>3, MoreZerosIsValid DEF IsBlock
  <2> QED BY <2>3 DEF IsBlock
<1> QED BY <1>1, <1>2, <1>3, <1>4

\* What an iteration does to the distance, which a DUCOSHA1 job leaves alone.
DistanceStep(d) ==
    \/ kind # "DUCOSHA1" /\ distance' = Better(d)
    \/ kind = "DUCOSHA1" /\ distance' = distance

\* The best distance stays one of the nonces hashed when uiNonce moves on.
LEMMA DistanceGoesOn ==
    ASSUME LoopInv, Searching, GoOn, UNCHANGED <<works, chunkVars>>,
           NEW d, d = calculateDistanceToTarget(hash[uiNonce]), DistanceStep(d)
    PROVE  DistanceIsBest' /\ distance' \in 0 .. Length
<1>1. /\ uiNonce \in Nonces /\ hash \in [Nonces -> Numbers] /\ distance \in 0 .. Length
      /\ nonce_start \in Nonces /\ nonce_end \in Nonces /\ uiNonce >= nonce_start
  BY DEF LoopInv, TypeOK, Searching
<1>2. d \in 0 .. Length
  BY <1>1, Distance
<1>3. /\ uiNonce' - 1 = uiNonce /\ nonce_start' = nonce_start /\ hash' = hash /\ kind' = kind
      /\ pc' = "loop"
  BY <1>1 DEF GoOn, Searching, Nonces, chunkVars
<1>4. \A n \in nonce_start .. uiNonce : n = uiNonce \/ n \in nonce_start .. uiNonce - 1
  BY <1>1 DEF Nonces
<1>5. distance' \in 0 .. Length /\ distance' >= distance
      /\ (kind # "DUCOSHA1" => distance' >= d)
      /\ (distance' = distance \/ distance' = d)
  BY <1>1, <1>2 DEF DistanceStep, Better
<1>6. ASSUME kind # "DUCOSHA1", NEW n \in nonce_start .. uiNonce
      PROVE  calculateDistanceToTarget(hash[n]) <= distance'
  <2>1. hash[n] \in Numbers
    BY <1>1 DEF Nonces
  <2>2. calculateDistanceToTarget(hash[n]) \in 0 .. Length
    BY <2>1, Distance
  <2>3. n # uiNonce => calculateDistanceToTarget(hash[n]) <= distance
    BY <1>4, <1>6 DEF LoopInv, DistanceIsBest, Searching
  <2> QED BY <1>1, <1>5, <1>6, <2>2, <2>3
<1>7. distance' > 0 => \E n \in nonce_start .. uiNonce :
          calculateDistanceToTarget(hash[n]) = distance'
  <2>1. CASE distance' = d
    BY <1>1, <2>1 DEF Nonces
  <2>2. CASE distance' = distance
    BY <1>1, <2>2 DEF LoopInv, DistanceIsBest, Searching, Nonces
  <2> QED BY <1>5, <2>1, <2>2
<1> QED BY <1>3, <1>5, <1>6, <1>7 DEF DistanceIsBest

\* An iteration that goes on, and has sent its nonce if that is a block.
LEMMA GoOnLoopInv ==
    ASSUME LoopInv, Searching, GoOn, UNCHANGED <<works, chunkVars>>,
           DistanceStep(calculateDistanceToTarget(hash[uiNonce])),
           \/ found' = found /\ ~ IsBlock(uiNonce)
           \/ found' = found \cup {uiNonce} /\ kind = "BLAKE3"
    PROVE  LoopInv'
<1>1. TypeOK
  BY DEF LoopInv
<1>2. DistanceIsBest' /\ distance' \in 0 .. Length
  BY DistanceGoesOn
<1>3. /\ uiNonce \in Nonces /\ nonce_start \in Nonces /\ nonce_end \in Nonces
      /\ uiNonce < nonce_end /\ uiNonce >= nonce_start /\ pc = "loop"
  BY <1>1 DEF TypeOK, LoopInv, Searching
<1>4. uiNonce' \in Nonces /\ uiNonce' = uiNonce + 1 /\ pc' = "loop"
  BY <1>3 DEF GoOn, Nonces
<1>5. TypeOK'
  BY <1>1, <1>2, <1>3, <1>4 DEF TypeOK, chunkVars
<1>6. ASSUME NEW n \in nonce_start .. uiNonce, IsBlock(n)
      PROVE  kind = "BLAKE3" /\ n \in found'
  <2>1. CASE n = uiNonce
    BY <1>6, <2>1
  <2>2. CASE n # uiNonce
    <3>1. n \in nonce_start .. uiNonce - 1
      BY <1>3, <2>2 DEF Nonces
    <3> QED BY <1>3, <1>6, <3>1 DEF LoopInv
  <2> QED BY <2>1, <2>2
<1>7. \A n \in nonce_start' .. uiNonce' - 1 : IsBlock(n)' => kind' = "BLAKE3" /\ n \in found'
  <2>1. nonce_start' = nonce_start /\ uiNonce' - 1 = uiNonce /\ kind' = kind
    BY <1>3, <1>4 DEF chunkVars, Nonces
  <2>2. \A n \in nonce_start .. uiNonce : IsBlock(n)' <=> IsBlock(n)
    BY DEF IsBlock, chunkVars
  <2> QED BY <1>6, <2>1, <2>2
<1>8. uiNonce' >= nonce_start' /\ (kind' # "BLAKE3" => found' = {})
  BY <1>3, <1>4 DEF LoopInv, chunkVars, Nonces
<1>9. NoMissedBlock'
  BY <1>4 DEF NoMissedBlock
<1> QED BY <1>2, <1>4, <1>5, <1>7, <1>8, <1>9 DEF LoopInv

\* An iteration that ends the search with the first block.
LEMMA BreakLoopInv ==
    ASSUME LoopInv, Searching, SendFoundAndBreak, UNCHANGED <<works, chunkVars>>,
           kind # "BLAKE3", distance' \in 0 .. Length
    PROVE  LoopInv'
<1>1. TypeOK
  BY DEF LoopInv
<1>2. TypeOK'
  BY <1>1 DEF TypeOK, SendFoundAndBreak, chunkVars
<1>3. /\ uiNonce \in Nonces /\ nonce_start \in Nonces /\ nonce_end \in Nonces
      /\ \A n \in nonce_start .. uiNonce - 1 : ~ IsBlock(n)
  BY <1>1 DEF LoopInv, TypeOK, Searching
<1>4. ASSUME NEW n \in nonce_start .. nonce_end - 1, IsBlock(n)
      PROVE  n \in found' \/ \E m \in found' : m < n
  <2>1. ~ (n < uiNonce)
    BY <1>3, <1>4 DEF Nonces
  <2> QED BY <1>3, <2>1 DEF SendFoundAndBreak, Nonces
<1>5. NoMissedBlock'
  <2>1. \A n : IsBlock(n)' <=> IsBlock(n)
    BY DEF IsBlock, chunkVars
  <2>2. nonce_start' = nonce_start /\ nonce_end' = nonce_end /\ kind' = kind
    BY DEF chunkVars
  <2> QED BY <1>4, <2>1, <2>2 DEF NoMissedBlock
<1> QED BY <1>2, <1>5 DEF LoopInv, DistanceIsBest, SendFoundAndBreak

LEMMA NextLoopInv == ComparesEqual /\ LoopInv /\ [Next]_vars => LoopInv'
<1> SUFFICES ASSUME ComparesEqual, LoopInv, [Next]_vars PROVE LoopInv'
  OBVIOUS
<1>1. TypeOK
  BY DEF LoopInv
<1> DEFINE d == calculateDistanceToTarget(hash[uiNonce])
<1>2. Searching => d \in 0 .. Length /\ Better(d) \in 0 .. Length
  <2>1. Searching => hash[uiNonce] \in Numbers
    BY <1>1 DEF TypeOK, Searching
  <2>2. Searching => d \in 0 .. Length
    BY <2>1, Distance
  <2> QED BY <1>1, <2>2 DEF Better, TypeOK
<1> HIDE DEF d
<1>3. CASE \E k \in Kinds : ReceiveWork(k)
  BY <1>1, <1>3 DEF ReceiveWork, LoopInv, TypeOK, Nonces, DistanceIsBest, NoMissedBlock
<1>4. CASE ReceiveUnknown
  BY <1>1, <1>4 DEF ReceiveUnknown, LoopInv, TypeOK, DistanceIsBest, NoMissedBlock
<1>5. CASE Exit
  BY <1>1, <1>5 DEF Exit, LoopInv, TypeOK, DistanceIsBest, NoMissedBlock, chunkVars
<1>6. CASE IterateDSHA256
  <2>1. /\ Searching /\ kind = "DSHA256" /\ UNCHANGED <<works, chunkVars>>
        /\ distance' = Better(d)
        /\ IF Progresses(d) /\ IsBlock(uiNonce)
           THEN SendFoundAndBreak ELSE GoOn /\ UNCHANGED found
    BY <1>6 DEF IterateDSHA256, d
  <2>2. CASE Progresses(d) /\ IsBlock(uiNonce)
    BY <1>2, <2>1, <2>2, BreakLoopInv
  <2>3. CASE ~ (Progresses(d) /\ IsBlock(uiNonce))
    <3>1. ~ IsBlock(uiNonce)
      BY <2>1, <2>3, IterateGoesOn DEF d
    <3>2. DistanceStep(calculateDistanceToTarget(hash[uiNonce]))
      BY <2>1 DEF DistanceStep, d
    <3> QED BY <2>1, <2>3, <3>1, <3>2, GoOnLoopInv
  <2> QED BY <2>2, <2>3
<1>7. CASE IterateBLAKE3
  <2>1. /\ Searching /\ kind = "BLAKE3" /\ UNCHANGED <<works, chunkVars>> /\ GoOn
        /\ found' = IF IsBlock(uiNonce) THEN found \cup {uiNonce} ELSE found
    BY <1>7 DEF IterateBLAKE3
  <2>2. DistanceStep(calculateDistanceToTarget(hash[uiNonce]))
    BY <1>7 DEF IterateBLAKE3, DistanceStep
  <2>3. \/ found' = found /\ ~ IsBlock(uiNonce)
        \/ found' = found \cup {uiNonce} /\ kind = "BLAKE3"
    BY <2>1
  <2> QED BY <2>1, <2>2, <2>3, GoOnLoopInv
<1>8. CASE IterateDUCOSHA1
  <2>1. /\ Searching /\ kind = "DUCOSHA1" /\ UNCHANGED <<works, chunkVars, distance>>
        /\ IF IsBlock(uiNonce) THEN SendFoundAndBreak ELSE GoOn /\ UNCHANGED found
    BY <1>8 DEF IterateDUCOSHA1
  <2>2. CASE IsBlock(uiNonce)
    BY <1>1, <2>1, <2>2, BreakLoopInv DEF TypeOK
  <2>3. CASE ~ IsBlock(uiNonce)
    <3>1. DistanceStep(calculateDistanceToTarget(hash[uiNonce]))
      BY <2>1 DEF DistanceStep
    <3> QED BY <2>1, <2>3, <3>1, GoOnLoopInv
  <2> QED BY <2>2, <2>3
<1>9. CASE LoopEnds
  <2>1. TypeOK'
    BY <1>1, <1>9 DEF LoopEnds, TypeOK, chunkVars
  <2>2. NoMissedBlock'
    BY <1>1, <1>9 DEF LoopEnds, LoopInv, NoMissedBlock, IsBlock, chunkVars, TypeOK, Nonces
  <2> QED BY <1>9, <2>1, <2>2 DEF LoopEnds, LoopInv, DistanceIsBest
<1>10. CASE Completed
  BY <1>1, <1>10 DEF Completed, LoopInv, TypeOK, DistanceIsBest, NoMissedBlock, chunkVars
<1>11. CASE UNCHANGED vars
  BY <1>1, <1>11 DEF vars, chunkVars, LoopInv, TypeOK, DistanceIsBest, NoMissedBlock, IsBlock
<1> QED BY <1>3, <1>4, <1>5, <1>6, <1>7, <1>8, <1>9, <1>10, <1>11 DEF Next, Iterate

\* The inductive invariant holds in every reachable state of the nonce loops.
THEOREM LoopInvariance == ASSUME ComparesEqual PROVE Spec => []LoopInv
<1>1. LoopInv /\ [Next]_vars => LoopInv'
  BY NextLoopInv
<1> QED BY <1>1, InitLoopInv, PTL DEF Spec

\* CMiner.cpp sends every block of a chunk, up to the one that ends the search,
\* for every kind of job, every target and every outcome of the hash function.
THEOREM NoBlockIsMissed == ASSUME ComparesEqual PROVE Spec => []NoMissedBlock
<1>1. LoopInv => NoMissedBlock
  BY DEF LoopInv
<1> QED BY <1>1, LoopInvariance, PTL

\* CMiner.cpp's best score is the best of the nonces hashed in the chunk.
THEOREM ScoreIsBest == ASSUME ComparesEqual PROVE Spec => []DistanceIsBest
<1>1. LoopInv => DistanceIsBest
  BY DEF LoopInv
<1> QED BY <1>1, LoopInvariance, PTL

\* What a chunk leaves in the loop's variables is of their types.
THEOREM LoopTypeCorrect == ASSUME ComparesEqual PROVE Spec => []TypeOK
<1>1. LoopInv => TypeOK
  BY DEF LoopInv
<1> QED BY <1>1, LoopInvariance, PTL

-------------------------------------------------------------------------------
(***************************************************************************)
(* The arithmetic of HashChecks and the values of numbers, for every base    *)
(* and length.                                                             *)
(***************************************************************************)

\* Products of naturals, stated once for the steps that only need their type.
LEMMA StepIsNat ==
    ASSUME NEW x \in Nat, NEW y \in Nat
    PROVE  Base * x \in Nat /\ Base * x + y \in Nat
<1>1. Base * x \in Nat
  OBVIOUS
<1> HIDE HashAssumption
<1>2. \A z \in Nat : z + y \in Nat
  OBVIOUS
<1> QED BY <1>1, <1>2

\* u is built from first by multiplying with Base and adding a byte.
Horner(u, first, add) ==
    /\ u \in [0 .. Length -> Nat]
    /\ u[0] = first
    /\ \A i \in Positions : u[i] = Base * u[i - 1] + add[i]

\* The recursion over 0..Length that the code's loops stand for has a solution.
LEMMA Recursion ==
    ASSUME NEW first \in Nat, NEW add \in [Positions -> Bytes]
    PROVE  \E u : Horner(u, first, add)
<1> DEFINE Solves(u, n) == /\ u[0] = first
                           /\ \A i \in 1 .. n : u[i] = Base * u[i - 1] + add[i]
           Good(n) == \E u \in [0 .. Length -> Nat] : Solves(u, n)
           T == {n \in Nat : n <= Length /\ ~ Good(n)}
<1>1. Length \in Nat /\ 0 \in 0 .. Length
  OBVIOUS
<1>2. T = {}
  <2> SUFFICES ASSUME T # {} PROVE FALSE
    OBVIOUS
  <2>1. PICK n \in T : \A y \in T : n <= y
    <3> HIDE DEF Good
    <3> QED BY LeastNatural
  <2>2. n \in Nat /\ n <= Length /\ ~ Good(n)
    OBVIOUS
  <2>3. n # 0
    <3> SUFFICES ASSUME n = 0 PROVE FALSE
      OBVIOUS
    <3> DEFINE u == [i \in 0 .. Length |-> first]
    <3>1. u \in [0 .. Length -> Nat] /\ Solves(u, 0)
      BY <1>1
    <3> QED BY <3>1, <2>2
  <2>4. n - 1 \in Nat /\ n - 1 <= Length /\ ~ (n <= n - 1)
    BY <2>2, <2>3
  <2>5. Good(n - 1)
    <3> HIDE DEF Good
    <3> QED BY <2>1, <2>4
  <2>6. PICK u \in [0 .. Length -> Nat] : Solves(u, n - 1)
    BY <2>5
  <2> DEFINE v == [u EXCEPT ![n] = Base * u[n - 1] + add[n]]
  <2>7. n \in Positions /\ n \in 0 .. Length /\ n - 1 \in 0 .. Length
    BY <2>2, <2>3 DEF Positions
  <2>8. Base * u[n - 1] + add[n] \in Nat
    <3>1. u[n - 1] \in Nat /\ add[n] \in Nat
      BY <2>7 DEF Bytes
    <3> QED BY <3>1, StepIsNat
  <2>9. v \in [0 .. Length -> Nat] /\ v[n] = Base * u[n - 1] + add[n]
        /\ \A i \in 0 .. Length : i # n => v[i] = u[i]
    BY <2>7, <2>8
  <2> HIDE DEF v
  <2>10. v[0] = first
    BY <2>3, <2>6, <2>9, <1>1
  <2>11. ASSUME NEW i \in 1 .. n PROVE v[i] = Base * v[i - 1] + add[i]
    <3>0. i \in 0 .. Length /\ i - 1 \in 0 .. Length /\ i - 1 # n
      BY <2>2
    <3>1. CASE i = n
      BY <3>0, <3>1, <2>9
    <3>2. CASE i # n
      <4>1. i \in 1 .. n - 1
        BY <2>2, <3>2
      <4>2. u[i] = Base * u[i - 1] + add[i]
        BY <4>1, <2>6
      <4> QED BY <3>0, <3>2, <4>2, <2>9
    <3> QED BY <3>1, <3>2
  <2>12. Good(n)
    BY <2>9, <2>10, <2>11
  <2> QED BY <2>2, <2>12
<1>3. Good(Length)
  <2> HIDE DEF Good
  <2> QED BY <1>1, <1>2
<1> QED BY <1>3 DEF Horner, Positions

\* The equation TLA+ reads in a recursive function.
Recursive(u, first, add) ==
    u = [i \in 0 .. Length |-> IF i = 0 THEN first ELSE Base * u[i - 1] + add[i]]

\* Every function that solves the equation is built that way.
LEMMA RecursionIsHorner ==
    ASSUME NEW first \in Nat, NEW add \in [Positions -> Bytes], NEW u,
           Recursive(u, first, add)
    PROVE  Horner(u, first, add)
<1>1. ASSUME NEW i \in 0 .. Length
      PROVE  u[i] = IF i = 0 THEN first ELSE Base * u[i - 1] + add[i]
  <2> DEFINE rhs(j) == IF j = 0 THEN first ELSE Base * u[j - 1] + add[j]
  <2>1. u = [j \in 0 .. Length |-> rhs(j)]
    BY DEF Recursive
  <2> HIDE DEF rhs
  <2>2. u[i] = rhs(i)
    BY <2>1
  <2> QED BY <2>2 DEF rhs
<1>2. u[0] = first
  BY <1>1
<1>3. \A i \in Positions : u[i] = Base * u[i - 1] + add[i]
  BY <1>1 DEF Positions
<1> DEFINE T == {n \in Nat : n <= Length /\ u[n] \notin Nat}
<1>4. T = {}
  <2> SUFFICES ASSUME T # {} PROVE FALSE
    OBVIOUS
  <2>1. PICK n \in T : \A y \in T : n <= y
    BY LeastNatural
  <2>2. n # 0
    BY <1>2
  <2>3. n \in Positions /\ n - 1 \in Nat /\ n - 1 <= Length /\ ~ (n <= n - 1)
    BY <2>2 DEF Positions
  <2>4. u[n - 1] \in Nat
    BY <2>1, <2>3
  <2>5. add[n] \in Nat
    BY <2>3 DEF Bytes
  <2>6. u[n] \in Nat
    BY <1>3, <2>3, <2>4, <2>5, StepIsNat
  <2> QED BY <2>6
<1>5. \A n \in 0 .. Length : u[n] \in Nat
  BY <1>4
<1>6. DOMAIN u = 0 .. Length /\ u = [i \in 0 .. Length |-> u[i]]
  BY DEF Recursive
<1>7. u \in [0 .. Length -> Nat]
  BY <1>5, <1>6
<1> QED BY <1>2, <1>3, <1>7 DEF Horner

\* Two recursions that begin alike and add the same bytes agree.
LEMMA HornerAgree ==
    ASSUME NEW u, NEW v, NEW first, NEW a, NEW b,
           Horner(u, first, a), Horner(v, first, b),
           NEW m \in 0 .. Length, \A i \in 1 .. m : a[i] = b[i]
    PROVE  u[m] = v[m]
<1> DEFINE T == {n \in Nat : n <= m /\ u[n] # v[n]}
<1>1. T = {}
  <2> SUFFICES ASSUME T # {} PROVE FALSE
    OBVIOUS
  <2>1. PICK n \in T : \A y \in T : n <= y
    BY LeastNatural
  <2>2. n # 0
    BY DEF Horner
  <2>3. n \in Positions /\ n \in 1 .. m /\ n - 1 \in Nat /\ n - 1 <= m /\ ~ (n <= n - 1)
    BY <2>2 DEF Positions
  <2>4. u[n - 1] = v[n - 1]
    BY <2>1, <2>3
  <2>5. u[n] = Base * u[n - 1] + a[n] /\ v[n] = Base * v[n - 1] + b[n]
    BY <2>3 DEF Horner
  <2>6. u[n] = v[n]
    BY <2>3, <2>4, <2>5
  <2> QED BY <2>6
<1> QED BY <1>1

\* The value of a number, one byte after the other.
LEMMA ValueIs ==
    ASSUME NEW number \in Numbers
    PROVE  \E u : Horner(u, 0, number) /\ Value(number) = u[Length]
<1> DEFINE Is(u) == Recursive(u, 0, number)
           c == CHOOSE u : Is(u)
<1>0. number \in [Positions -> Bytes] /\ 0 \in Nat
  BY DEF Numbers
<1>1. \E u : Is(u)
  <2>1. PICK u : Horner(u, 0, number)
    BY <1>0, Recursion
  <2>2. \A i \in 0 .. Length : u[i] = IF i = 0 THEN 0 ELSE Base * u[i - 1] + number[i]
    BY <2>1 DEF Horner, Positions
  <2>3. u = [i \in 0 .. Length |-> u[i]]
    BY <2>1 DEF Horner
  <2>4. Is(u)
    BY <2>2, <2>3 DEF Recursive
  <2> HIDE DEF Is
  <2> QED BY <2>4
<1>2. Is(c)
  <2> HIDE DEF Is
  <2> QED BY <1>1
<1>3. Value(number) = c[Length]
  BY DEF Value, Recursive
<1> HIDE DEF c
<1>4. Horner(c, 0, number)
  BY <1>0, <1>2, RecursionIsHorner
<1> QED BY <1>3, <1>4

\* A smaller prefix stays smaller, whatever bytes are appended.
LEMMA SmallerStaysSmaller ==
    ASSUME NEW x \in Nat, NEW y \in Nat, x < y, NEW p \in Bytes, NEW q \in Bytes
    PROVE  Base * x + p < Base * y + q
<1>1. PICK d \in Nat : y = x + 1 + d
  <2>1. y - x - 1 \in Nat /\ y = x + 1 + (y - x - 1)
    OBVIOUS
  <2> QED BY <2>1
<1>2. Base * y = Base * x + Base + Base * d
  BY <1>1
<1>3. Base * d \in Nat /\ Base * x \in Nat
  BY StepIsNat
<1>4. p \in Nat /\ q \in Nat /\ p < Base /\ Base \in Nat
  BY DEF Bytes
<1> DEFINE bx == Base * x
           bd == Base * d
<1> HIDE DEF bx, bd
<1>5. bx \in Nat /\ bd \in Nat /\ Base * y = bx + Base + bd
  BY <1>2, <1>3 DEF bx, bd
<1>6. bx + p < (bx + Base + bd) + q
  BY <1>4, <1>5
<1> QED BY <1>5, <1>6 DEF bx

\* The first byte that differs decides.
LEMMA FirstDifferenceDecides ==
    ASSUME NEW a \in Numbers, NEW b \in Numbers, NEW m \in Positions,
           \A i \in 1 .. m - 1 : a[i] = b[i], a[m] < b[m]
    PROVE  Value(a) < Value(b)
<1>0. PICK u : Horner(u, 0, a) /\ Value(a) = u[Length]
  BY ValueIs
<1>1. PICK v : Horner(v, 0, b) /\ Value(b) = v[Length]
  BY ValueIs
<1> DEFINE T == {n \in Nat : m <= n /\ n <= Length /\ ~ (u[n] < v[n])}
<1>2. \A i \in Positions : a[i] \in Bytes /\ b[i] \in Bytes
  BY DEF Numbers
<1>3. \A i \in 0 .. Length : u[i] \in Nat /\ v[i] \in Nat
  BY <1>0, <1>1 DEF Horner
<1>4. m \in Nat /\ m - 1 \in 0 .. Length /\ m \in 0 .. Length /\ m <= Length
  BY DEF Positions
<1>5. u[m - 1] = v[m - 1]
  BY <1>0, <1>1, <1>4, HornerAgree
<1>6. u[m] < v[m]
  <2>1. u[m] = Base * u[m - 1] + a[m] /\ v[m] = Base * u[m - 1] + b[m]
    BY <1>0, <1>1, <1>5 DEF Horner
  <2>2. Base * u[m - 1] \in Nat /\ a[m] \in Nat /\ b[m] \in Nat
    BY <1>2, <1>3, <1>4, StepIsNat DEF Bytes
  <2>3. \A z \in Nat : z + a[m] < z + b[m]
    BY <2>2
  <2> QED BY <2>1, <2>2, <2>3
<1>7. T = {}
  <2> SUFFICES ASSUME T # {} PROVE FALSE
    OBVIOUS
  <2>1. PICK n \in T : \A y \in T : n <= y
    BY LeastNatural
  <2>2. n # m
    BY <1>6
  <2>3. /\ n \in Positions /\ n - 1 \in Nat /\ m <= n - 1 /\ n - 1 <= Length
        /\ n - 1 \in 0 .. Length /\ ~ (n <= n - 1)
    BY <1>4, <2>2 DEF Positions
  <2>4. u[n - 1] < v[n - 1]
    BY <2>1, <2>3
  <2>5. u[n] = Base * u[n - 1] + a[n] /\ v[n] = Base * v[n - 1] + b[n]
    BY <1>0, <1>1, <2>3 DEF Horner
  <2>6. Base * u[n - 1] + a[n] < Base * v[n - 1] + b[n]
    <3>1. u[n - 1] \in Nat /\ v[n - 1] \in Nat /\ a[n] \in Bytes /\ b[n] \in Bytes
      BY <1>2, <1>3, <2>3
    <3> HIDE HashAssumption
    <3> QED BY <2>4, <3>1, SmallerStaysSmaller
  <2>7. u[n] < v[n]
    BY <2>5, <2>6
  <2> QED BY <2>7
<1>8. u[Length] < v[Length]
  BY <1>4, <1>7
<1> QED BY <1>0, <1>1, <1>8

\* checkValid compares values.
LEMMA CheckValidCompares ==
    ASSUME NEW a \in Numbers, NEW b \in Numbers
    PROVE  checkValid(a, b) <=> Value(a) <= Value(b)
<1> DEFINE T == {n \in Nat : n \in Positions /\ a[n] # b[n]}
<1>1. \A i \in Positions : a[i] \in Nat /\ b[i] \in Nat
  BY DEF Numbers, Bytes
<1>2. Value(a) \in Nat /\ Value(b) \in Nat
  BY ValueIs DEF Horner
<1>3. CASE T = {}
  <2>1. \A i \in Positions : a[i] = b[i]
    BY <1>3 DEF Positions
  <2>2. a = b
    BY <2>1 DEF Numbers
  <2>3. checkValid(a, b)
    BY <1>1, <2>1 DEF checkValid
  <2> QED BY <1>2, <2>2, <2>3
<1>4. CASE T # {}
  <2>1. PICK m \in T : \A y \in T : m <= y
    BY <1>4, LeastNatural
  <2>2. m \in Positions /\ a[m] # b[m]
    OBVIOUS
  <2>3. \A i \in 1 .. m - 1 : i \in Positions /\ i \in Nat /\ ~ (m <= i)
    BY <2>2 DEF Positions
  <2>4. \A i \in 1 .. m - 1 : a[i] = b[i]
    BY <2>1, <2>3
  <2>5. CASE a[m] < b[m]
    <3>1. checkValid(a, b)
      <4> SUFFICES ASSUME NEW i \in Positions, a[i] > b[i]
                   PROVE  \E j \in 1 .. i - 1 : a[j] < b[j]
        BY DEF checkValid
      <4>1. i # m /\ ~ (i \in 1 .. m - 1)
        BY <1>1, <2>2, <2>4, <2>5
      <4>2. m \in 1 .. i - 1
        BY <2>2, <4>1 DEF Positions
      <4> QED BY <2>5, <4>2
    <3>2. Value(a) < Value(b)
      BY <2>2, <2>4, <2>5, FirstDifferenceDecides
    <3> QED BY <1>2, <3>1, <3>2
  <2>6. CASE b[m] < a[m]
    <3>1. ~ checkValid(a, b)
      <4>1. \A j \in 1 .. m - 1 : ~ (a[j] < b[j])
        BY <1>1, <2>3, <2>4
      <4> QED BY <1>1, <2>2, <2>6, <4>1 DEF checkValid
    <3>2. \A i \in 1 .. m - 1 : b[i] = a[i]
      BY <2>4
    <3>3. Value(b) < Value(a)
      BY <2>2, <2>6, <3>2, FirstDifferenceDecides
    <3> QED BY <1>2, <3>1, <3>3
  <2> QED BY <1>1, <2>2, <2>5, <2>6
<1> QED BY <1>3, <1>4

\* A number with more zero bytes in front is smaller.
LEMMA DistanceCompares ==
    ASSUME NEW a \in Numbers, NEW b \in Numbers,
           calculateDistanceToTarget(a) > calculateDistanceToTarget(b)
    PROVE  Value(a) < Value(b)
<1> DEFINE da == calculateDistanceToTarget(a)
           db == calculateDistanceToTarget(b)
<1>1. da \in 0 .. Length /\ \A i \in 1 .. da : a[i] = 0
  BY Distance
<1>2. db \in 0 .. Length /\ (\A i \in 1 .. db : b[i] = 0) /\ (db < Length => b[db + 1] # 0)
  BY Distance
<1>3. db < da
  BY <1>1, <1>2
<1> HIDE DEF da, db
<1>4. db + 1 \in Positions /\ db + 1 \in 1 .. da /\ (db + 1) - 1 = db /\ db < Length
  BY <1>1, <1>2, <1>3 DEF Positions
<1>5. b[db + 1] \in Nat
  BY <1>4 DEF Numbers, Bytes
<1>6. a[db + 1] < b[db + 1]
  BY <1>1, <1>2, <1>4, <1>5
<1>7. \A i \in 1 .. db : a[i] = b[i]
  BY <1>1, <1>2, <1>3
<1> QED BY <1>4, <1>6, <1>7, FirstDifferenceDecides

\* The arguments stay numbers.
LEMMA InputsStay == HashSpec => [](input \in Inputs)
<1>1. input \in Inputs /\ [HashNext]_input => (input \in Inputs)'
  BY DEF HashNext
<1> QED BY <1>1, PTL DEF HashSpec, HashInit

\* checkValid of hashnet.cpp, CMiner.h and CServer.cpp is the comparison of the
\* values, for every base and length.
THEOREM ValidIsNumeric == HashSpec => []CheckValidIsNumeric
<1>1. input \in Inputs => CheckValidIsNumeric
  BY CheckValidCompares DEF Inputs, CheckValidIsNumeric
<1> QED BY <1>1, InputsStay, PTL

\* The distance the miners and the server compare orders numbers as their
\* values do.
THEOREM DistanceIsMonotonic == HashSpec => []DistanceIsMonotone
<1>1. input \in Inputs => DistanceIsMonotone
  BY DistanceCompares DEF Inputs, DistanceIsMonotone
<1> QED BY <1>1, InputsStay, PTL

\* The remainder of a number less than one modulus away from 0.
LEMMA Remainder ==
    ASSUME NEW w \in Nat \ {0}, NEW x \in Int
    PROVE  /\ 0 <= x /\ x < w => x % w = x
           /\ -w <= x /\ x < 0 => x % w = x + w
OBVIOUS

\* byteIndex: where the mantissa starts, for the exponents that put it inside
\* the array; negative for the others, those below 3 after two wraps of uint32.
LEMMA ByteIndexIs ==
    ASSUME ExponentAssumption, NEW exp \in 0 .. MaxExponent
    PROVE  IF exp \in 3 .. Length THEN byteIndex(exp) = Length - exp ELSE byteIndex(exp) < 0
<1> DEFINE bitShift == (8 * (exp - 3)) % WordSize
           index == ((Length - 3) - bitShift \div 8) % WordSize
<1>1. byteIndex(exp) = IF index >= WordSize \div 2 THEN index - WordSize ELSE index
  BY DEF byteIndex
<1>2. /\ WordSize \in Nat \ {0} /\ Length \in Nat /\ Length >= 3
      /\ MaxExponent \in Nat /\ MaxExponent >= 1
      /\ WordSize >= 8 * (Length + MaxExponent)
      /\ exp \in Nat /\ exp <= MaxExponent
  BY DEF ExponentAssumption
<1>3. CASE exp >= 3
  <2>1. bitShift = 8 * (exp - 3)
    BY <1>2, <1>3, Remainder
  <2>2. bitShift \div 8 = exp - 3
    BY <2>1, <1>2, <1>3
  <2>3. index = (Length - exp) % WordSize
    <3>1. (Length - 3) - bitShift \div 8 = Length - exp
      BY <2>2, <1>2
    <3> QED BY <3>1
  <2> HIDE DEF bitShift, index
  <2>4. CASE exp <= Length
    <3>1. index = Length - exp
      BY <2>3, <2>4, <1>2, Remainder
    <3> QED BY <1>1, <1>2, <1>3, <2>4, <3>1
  <2>5. CASE exp > Length
    <3>1. index = (Length - exp) + WordSize
      BY <2>3, <2>5, <1>2, Remainder
    <3> QED BY <1>1, <1>2, <1>3, <2>5, <3>1
  <2> QED BY <1>2, <2>4, <2>5
<1>4. CASE exp < 3
  <2>1. bitShift = 8 * (exp - 3) + WordSize
    BY <1>2, <1>4, Remainder
  <2>2. /\ bitShift \div 8 \in Nat
        /\ bitShift \div 8 >= Length + MaxExponent - 3
        /\ 8 * (bitShift \div 8) <= WordSize
    BY <2>1, <1>2, <1>4
  <2> DEFINE k == bitShift \div 8
  <2>3. index = ((Length - 3) - k) % WordSize
    OBVIOUS
  <2> HIDE DEF bitShift, index, k
  <2>4. k \in Nat /\ k >= Length + MaxExponent - 3 /\ 8 * k <= WordSize
    BY <2>2 DEF k
  <2>5. index = ((Length - 3) - k) + WordSize
    BY <2>3, <2>4, <1>2, Remainder
  <2> QED BY <1>1, <1>2, <1>4, <2>4, <2>5
<1> QED BY <1>2, <1>3, <1>4

\* The powers of Base.
LEMMA PowerIs ==
    ASSUME NEW exp, NEW mant
    PROVE  \E power \in [0 .. Length -> Nat] :
              /\ power[0] = 1
              /\ \A i \in Positions : power[i] = Base * power[i - 1]
              /\ CompactValue(exp, mant) =
                    (Base * (Base * mant[1] + mant[2]) + mant[3]) * power[exp - 3]
<1> DEFINE Is(u) == u = [i \in 0 .. Length |-> IF i = 0 THEN 1 ELSE Base * u[i - 1]]
           c == CHOOSE u : Is(u)
           zeros == [i \in Positions |-> 0]
<1>1. \E u : Is(u)
  <2>1. zeros \in [Positions -> Bytes]
    BY DEF Bytes
  <2>2. PICK u : Horner(u, 1, zeros)
    BY <2>1, Recursion
  <2>3. ASSUME NEW i \in Positions PROVE u[i] = Base * u[i - 1]
    <3>0. i - 1 \in 0 .. Length /\ zeros[i] = 0
      BY DEF Positions
    <3>1. u[i - 1] \in Nat /\ u[i] = Base * u[i - 1] + 0
      BY <2>2, <3>0 DEF Horner
    <3>2. Base * u[i - 1] \in Nat
      BY <3>1, StepIsNat
    <3> QED BY <3>1, <3>2
  <2>4. \A i \in 0 .. Length : u[i] = IF i = 0 THEN 1 ELSE Base * u[i - 1]
    BY <2>2, <2>3 DEF Horner, Positions
  <2>5. u = [i \in 0 .. Length |-> u[i]]
    BY <2>2 DEF Horner
  <2>6. Is(u)
    BY <2>4, <2>5
  <2> HIDE DEF Is
  <2> QED BY <2>6
<1>2. Is(c)
  <2> HIDE DEF Is
  <2> QED BY <1>1
<1>3. CompactValue(exp, mant) =
          (Base * (Base * mant[1] + mant[2]) + mant[3]) * c[exp - 3]
  BY DEF CompactValue
<1> HIDE DEF c
<1>4. ASSUME NEW i \in 0 .. Length PROVE c[i] = IF i = 0 THEN 1 ELSE Base * c[i - 1]
  <2> DEFINE rhs(j) == IF j = 0 THEN 1 ELSE Base * c[j - 1]
  <2>1. c = [j \in 0 .. Length |-> rhs(j)]
    BY <1>2
  <2> HIDE DEF rhs, Is
  <2>2. c[i] = rhs(i)
    BY <2>1
  <2> QED BY <2>2 DEF rhs
<1>5. DOMAIN c = 0 .. Length /\ c = [i \in 0 .. Length |-> c[i]]
  BY <1>2
<1> HIDE DEF Is
<1>6. c[0] = 1 /\ \A i \in Positions : c[i] = Base * c[i - 1]
  BY <1>4 DEF Positions
<1> DEFINE T == {n \in Nat : n <= Length /\ c[n] \notin Nat}
<1>7. T = {}
  <2> SUFFICES ASSUME T # {} PROVE FALSE
    OBVIOUS
  <2>1. PICK n \in T : \A y \in T : n <= y
    BY LeastNatural
  <2>2. n # 0
    BY <1>6
  <2>3. n \in Positions /\ n - 1 \in Nat /\ n - 1 <= Length /\ ~ (n <= n - 1)
    BY <2>2 DEF Positions
  <2>4. c[n - 1] \in Nat
    BY <2>1, <2>3
  <2>5. c[n] \in Nat
    BY <1>6, <2>3, <2>4, StepIsNat
  <2> QED BY <2>5
<1>8. c \in [0 .. Length -> Nat]
  BY <1>5, <1>7
<1> QED BY <1>3, <1>6, <1>8

LEMMA NothingCarried == \A x \in Nat : Base * 0 + x = x
<1>1. Base \in Nat
  BY HashAssumption
<1> QED BY <1>1

\* The array nbitsToBETarget fills stands for mantissa * Base^(exp - 3).
LEMMA CompactIsValue ==
    ASSUME NEW exp \in 3 .. Length, NEW mant \in [1 .. 3 -> Bytes],
           byteIndex(exp) = Length - exp
    PROVE  Value(nbitsToBETarget(exp, mant)) = CompactValue(exp, mant)
<1> DEFINE s == Length - exp
           t == nbitsToBETarget(exp, mant)
           M == Base * (Base * mant[1] + mant[2]) + mant[3]
<1>1. /\ s \in Nat /\ s + 3 <= Length /\ exp \in Nat /\ exp >= 3 /\ Length = s + exp
      /\ exp - 3 \in Nat
  OBVIOUS
<1>2. /\ mant[1] \in Bytes /\ mant[2] \in Bytes /\ mant[3] \in Bytes
      /\ mant[1] \in Nat /\ mant[2] \in Nat /\ mant[3] \in Nat /\ 0 \in Bytes
  BY DEF Bytes
<1>3. ASSUME NEW i \in Positions
      PROVE  t[i] = IF i - s \in 1 .. 3 THEN mant[i - s] ELSE 0
  BY DEF nbitsToBETarget
<1>4. t \in Numbers
  <2>1. t = [i \in Positions |-> t[i]]
    BY DEF nbitsToBETarget
  <2> HIDE DEF t, s
  <2>2. \A k : k \in 1 .. 3 => mant[k] \in Bytes
    OBVIOUS
  <2>3. \A i \in Positions : t[i] \in Bytes
    BY <1>2, <1>3, <2>2
  <2> QED BY <2>1, <2>3 DEF Numbers
<1>5. PICK u : Horner(u, 0, t) /\ Value(t) = u[Length]
  BY <1>4, ValueIs
<1>6. PICK power \in [0 .. Length -> Nat] :
          /\ power[0] = 1
          /\ \A i \in Positions : power[i] = Base * power[i - 1]
          /\ CompactValue(exp, mant) = M * power[exp - 3]
  BY PowerIs
<1> HIDE DEF t, s
<1>7. /\ u \in [0 .. Length -> Nat] /\ u[0] = 0
      /\ \A i \in Positions : u[i] = Base * u[i - 1] + t[i]
  BY <1>5 DEF Horner
<1>8. \A n \in Nat : n <= s => u[n] = 0
  <2> DEFINE T == {n \in Nat : n <= s /\ u[n] # 0}
  <2>1. T = {}
    <3> SUFFICES ASSUME T # {} PROVE FALSE
      OBVIOUS
    <3>1. PICK n \in T : \A y \in T : n <= y
      BY LeastNatural
    <3>2. n # 0
      BY <1>7
    <3>3. /\ n \in Positions /\ n - 1 \in Nat /\ n - 1 <= s /\ ~ (n <= n - 1)
          /\ ~ (n - s \in 1 .. 3)
      BY <1>1, <3>2 DEF Positions
    <3>4. u[n - 1] = 0 /\ t[n] = 0
      BY <1>3, <3>1, <3>3
    <3>5. u[n] = Base * 0 + 0
      BY <1>7, <3>3, <3>4
    <3> QED BY <3>5, NothingCarried
  <2> QED BY <2>1
<1>9. u[s + 3] = M /\ M \in Nat
  <2>1. u[s] = 0
    BY <1>1, <1>8
  <2>2. /\ s + 1 \in Positions /\ s + 2 \in Positions /\ s + 3 \in Positions
        /\ (s + 1) - 1 = s /\ (s + 2) - 1 = s + 1 /\ (s + 3) - 1 = s + 2
        /\ (s + 1) - s = 1 /\ (s + 2) - s = 2 /\ (s + 3) - s = 3
    BY <1>1 DEF Positions
  <2>3. t[s + 1] = mant[1] /\ t[s + 2] = mant[2] /\ t[s + 3] = mant[3]
    BY <1>3, <2>2
  <2> DEFINE Up(x, y) == Base * x + y
  <2>4. \A i \in Positions : u[i] = Up(u[i - 1], t[i])
    BY <1>7
  <2>5. Up(0, mant[1]) = mant[1]
    BY <1>2, NothingCarried
  <2>6. u[s + 3] = M
    <3>1. M = Up(Up(mant[1], mant[2]), mant[3])
      BY DEF M
    <3> HIDE DEF Up, M
    <3>2. /\ u[s + 1] = Up(u[(s + 1) - 1], t[s + 1])
          /\ u[s + 2] = Up(u[(s + 2) - 1], t[s + 2])
          /\ u[s + 3] = Up(u[(s + 3) - 1], t[s + 3])
      BY <2>2, <2>4, Zenon
    <3>3. u[s + 1] = mant[1]
      BY <2>1, <2>2, <2>3, <2>5, <3>2, Zenon
    <3>4. u[s + 2] = Up(mant[1], mant[2])
      BY <2>2, <2>3, <3>2, <3>3, Zenon
    <3> QED BY <2>2, <2>3, <3>1, <3>2, <3>4, Zenon
  <2>7. s + 3 \in 0 .. Length
    BY <1>1
  <2> HIDE DEF M
  <2> QED BY <1>7, <2>6, <2>7
<1> HIDE DEF M
<1>10. \A j \in Nat : j <= exp - 3 => u[s + 3 + j] = M * power[j]
  <2> DEFINE Fits(j) == u[s + 3 + j] = M * power[j]
             T == {j \in Nat : j <= exp - 3 /\ ~ Fits(j)}
  <2>1. T = {}
    <3> SUFFICES ASSUME T # {} PROVE FALSE
      OBVIOUS
    <3>1. PICK n \in T : \A y \in T : n <= y
      BY LeastNatural
    <3>2. n # 0
      <4>1. M * 1 = M /\ s + 3 + 0 = s + 3
        BY <1>1, <1>9
      <4>2. Fits(0)
        BY <1>6, <1>9, <4>1
      <4> HIDE DEF Fits
      <4> QED BY <4>2
    <3>3. /\ n \in Positions /\ n - 1 \in Nat /\ n - 1 <= exp - 3 /\ ~ (n <= n - 1)
          /\ s + 3 + n \in Positions /\ (s + 3 + n) - 1 = s + 3 + (n - 1)
          /\ ~ ((s + 3 + n) - s \in 1 .. 3)
          /\ n - 1 \in 0 .. Length
      <4> HIDE DEF Fits
      <4>1. n \in Nat /\ n <= exp - 3 /\ ~ Fits(n)
        OBVIOUS
      <4> HIDE DEF T
      <4> QED BY <1>1, <3>2, <4>1 DEF Positions
    <3>4. Fits(n - 1)
      <4> HIDE DEF Fits
      <4> QED BY <3>1, <3>3
    <3>5. t[s + 3 + n] = 0
      BY <1>3, <3>3
    <3>6. u[s + 3 + n] = Base * (M * power[n - 1]) + 0 /\ power[n] = Base * power[n - 1]
      <4>1. u[s + 3 + n] = Base * u[(s + 3 + n) - 1] + t[s + 3 + n]
        BY <1>7, <3>3, Zenon
      <4>2. u[(s + 3 + n) - 1] = M * power[n - 1]
        BY <3>3, <3>4, Zenon
      <4>3. power[n] = Base * power[n - 1]
        BY <1>6, <3>3, Zenon
      <4> QED BY <4>1, <4>2, <4>3, <3>5, Zenon
    <3>7. power[n - 1] \in Nat
      BY <3>3
    <3>8. \A x \in Nat : Base * (M * x) + 0 = M * (Base * x)
      BY <1>9
    <3>9. Fits(n)
      BY <3>6, <3>7, <3>8
    <3> HIDE DEF Fits
    <3> QED BY <3>9
  <2> QED BY <2>1
<1>11. u[s + 3 + (exp - 3)] = M * power[exp - 3]
  BY <1>1, <1>10
<1>12. s + 3 + (exp - 3) = Length
  BY <1>1
<1> QED BY <1>5, <1>6, <1>11, <1>12 DEF t

\* A target built from nbits is the value they encode, its three bytes lie
\* within the array, and every exponent for which that fails is refused.
THEOREM TargetIsItsNbits == HashSpec => []TargetIsCompact
<1>1. input \in Inputs => TargetIsCompact
  <2> SUFFICES ASSUME input \in Inputs PROVE TargetIsCompact
    OBVIOUS
  <2> DEFINE exp == input.exp
             mant == input.mant
  <2>1. exp \in 0 .. MaxExponent /\ mant \in [1 .. 3 -> Bytes]
    BY DEF Inputs
  <2>2. TargetIsCompact <=>
          IF accepted(exp, mant)
          THEN /\ exp \in 3 .. Length /\ byteIndex(exp) + 3 <= Length
               /\ Value(nbitsToBETarget(exp, mant)) = CompactValue(exp, mant)
          ELSE exp \notin 3 .. Length
    BY DEF TargetIsCompact
  <2> HIDE DEF exp, mant
  <2>3. CASE exp \in 3 .. Length
    <3>1. byteIndex(exp) = Length - exp
      BY <2>1, <2>3, ByteIndexIs, ExponentAssumption
    <3>2. accepted(exp, mant) /\ byteIndex(exp) + 3 <= Length
      BY <2>3, <3>1 DEF accepted
    <3> QED BY <2>1, <2>2, <2>3, <3>1, <3>2, CompactIsValue
  <2>4. CASE exp \notin 3 .. Length
    <3>1. byteIndex(exp) < 0
      BY <2>1, <2>4, ByteIndexIs, ExponentAssumption
    <3>2. byteIndex(exp) \in Int
      <4> DEFINE wrapped(x) == x % WordSize
      <4>1. \A x \in Int : wrapped(x) \in Int
        OBVIOUS
      <4> QED BY <2>1, ExponentAssumption DEF byteIndex, ExponentAssumption
    <3>3. ~ accepted(exp, mant)
      BY <3>1, <3>2 DEF accepted
    <3> QED BY <2>2, <2>4, <3>3
  <2> QED BY <2>3, <2>4
<1> QED BY <1>1, InputsStay, PTL
==============================================================================
