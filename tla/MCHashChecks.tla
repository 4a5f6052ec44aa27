----------------------------- MODULE MCHashChecks -----------------------------
(***************************************************************************)
(* HashChecks against reference definitions, over every pair of numbers and  *)
(* every exponent byte up to MaxExponent with every mantissa.                *)
(***************************************************************************)
EXTENDS HashChecks

CONSTANTS MaxExponent   \* bound: 255 is the largest exponent byte

\* Bit shifts do not wrap: 2^32 is far more than 8 * (32 + 255).
ASSUME ExponentAssumption ==
    MaxExponent \in Nat \ {0} /\ WordSize >= 8 * (Length + MaxExponent)

VARIABLE input      \* arguments for the three functions

Inputs == [hash : Numbers, target : Numbers, exp : 0 .. MaxExponent, mant : [1 .. 3 -> Bytes]]

HashInit == input \in Inputs

HashNext == UNCHANGED input

HashSpec == HashInit /\ [][HashNext]_input

\* checkValid is the comparison of the 256-bit values.
CheckValidIsNumeric ==
    checkValid(input.hash, input.target) <=> Value(input.hash) <= Value(input.target)

\* The distance orders numbers as their values do: more zero bytes, smaller.
DistanceIsMonotone ==
    calculateDistanceToTarget(input.hash) > calculateDistanceToTarget(input.target)
        => Value(input.hash) < Value(input.target)

\* A target the program builds is the value its nbits encode, and its three
\* bytes lie within the array; what it refuses are the other exponents.
TargetIsCompact ==
    IF accepted(input.exp, input.mant)
    THEN /\ input.exp \in 3 .. Length /\ byteIndex(input.exp) + 3 <= Length
         /\ Value(nbitsToBETarget(input.exp, input.mant)) = CompactValue(input.exp, input.mant)
    ELSE input.exp \notin 3 .. Length
===============================================================================
