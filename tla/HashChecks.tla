------------------------------ MODULE HashChecks ------------------------------
(***************************************************************************)
(* The miners' arithmetic on 256-bit big-endian numbers: checkValid,        *)
(* calculateDistanceToTarget and nbitsToBETarget of hashnet.cpp, with their  *)
(* copies in CMiner.h and CServer.cpp (TargetDistance, NbitsToBETarget).     *)
(* A number is a function from byte positions 1..Length, the most significant *)
(* byte first; the code's arrays start at 0.                                *)
(***************************************************************************)
EXTENDS Integers

CONSTANTS
    Base,       \* 256 in the code
    Length,     \* 32 in the code
    WordSize    \* 2^32 in the code: the modulus of uint32_t

ASSUME HashAssumption ==
    Base \in Nat \ {0, 1} /\ Length \in Nat \ {0, 1, 2} /\ WordSize \in Nat \ {0}

Positions == 1 .. Length
Bytes == 0 .. Base - 1
Numbers == [Positions -> Bytes]

\* Mutant: the last byte that differs decides.
checkValidLastByte(hash, target) ==
    \A i \in Positions :
        hash[i] > target[i] => \E j \in i + 1 .. Length : hash[j] < target[j]

\* checkValid: the first byte that differs decides; equal numbers are valid.
checkValid(hash, target) ==
    \A i \in Positions :
        hash[i] > target[i] => \E j \in 1 .. i - 1 : hash[j] < target[j]

\* Mutant: the zero bytes at the end.
distanceFromTheEnd(hash) ==
    CHOOSE k \in 0 .. Length :
        /\ \A i \in Length - k + 1 .. Length : hash[i] = 0
        /\ k < Length => hash[Length - k] # 0

\* calculateDistanceToTarget, TargetDistance: the number of zero bytes in front.
calculateDistanceToTarget(hash) ==
    CHOOSE k \in 0 .. Length :
        /\ \A i \in 1 .. k : hash[i] = 0
        /\ k < Length => hash[k + 1] # 0

-------------------------------------------------------------------------------
(***************************************************************************)
(* nbitsToBETarget.  nbits is its exponent byte and its mantissa of three    *)
(* bytes; a text that is no such number is refused before.  exp, bitShift and *)
(* byteIndex are computed in uint32, and byteIndex is then read as an int.    *)
(***************************************************************************)
\* Mutant: 30 in place of 29.
byteIndexOneLate(exp) ==
    LET bitShift == (8 * (exp - 3)) % WordSize
        index    == ((Length - 2) - bitShift \div 8) % WordSize
    IN  IF index >= WordSize \div 2 THEN index - WordSize ELSE index

byteIndex(exp) ==
    LET bitShift == (8 * (exp - 3)) % WordSize
        index    == ((Length - 3) - bitShift \div 8) % WordSize
    IN  IF index >= WordSize \div 2 THEN index - WordSize ELSE index

\* hashnet.cpp and CServer.cpp exit when nbits is 0 or the index is negative.
\* CMiner.h only complains, and goes on to write in front of the array.
accepted(exp, mant) ==
    /\ exp # 0 \/ \E k \in 1 .. 3 : mant[k] # 0
    /\ byteIndex(exp) >= 0

\* mant[1] is the byte (mant >> 16) & 0xFF.
nbitsToBETarget(exp, mant) ==
    [i \in Positions |->
        LET k == i - byteIndex(exp) IN IF k \in 1 .. 3 THEN mant[k] ELSE 0]

-------------------------------------------------------------------------------
(***************************************************************************)
(* The same facts said of the values the numbers stand for.                 *)
(***************************************************************************)
Value(number) ==
    LET upTo[i \in 0 .. Length] == IF i = 0 THEN 0 ELSE Base * upTo[i - 1] + number[i]
    IN  upTo[Length]

\* The compact encoding of a target of exponent 3..Length:
\* mantissa * Base^(exp - 3).
CompactValue(exp, mant) ==
    LET power[i \in 0 .. Length] == IF i = 0 THEN 1 ELSE Base * power[i - 1]
    IN  (Base * (Base * mant[1] + mant[2]) + mant[3]) * power[exp - 3]
===============================================================================
