----------------------------- MODULE LumiRandom -----------------------------
(***************************************************************************)
(* host_rand, the random provider that lumivm installs: an integer of C's  *)
(* rand becomes a float by two conversions, an addition and a division.    *)
(*                                                                         *)
(* A float has Precision significant bits (24 in the program) and RAND_MAX *)
(* has RandBits (31 with glibc).  Conversions and the addition round to    *)
(* the nearest float, ties to even; the denominator is a power of two, by  *)
(* which a division is exact.  A value is a numerator over it.             *)
(***************************************************************************)
EXTENDS Integers

CONSTANTS Precision, RandBits

VARIABLES
  raw,     \* what rand returned
  value    \* what host_rand made of it: [num, den]

RAND_MAX == 2^RandBits - 1

\* The distance of the floats next to n.
Ulp(n) ==
  2^(CHOOSE e \in 0..RandBits + 1 : n < 2^(Precision + e) /\ \A d \in 0..e-1 : n >= 2^(Precision + d))

ToFloat(n) ==
  LET u == Ulp(n)
      below == n \div u
      rest == n % u
  IN  u * (IF 2 * rest < u \/ (2 * rest = u /\ below % 2 = 0) THEN below ELSE below + 1)

HostRand(r) == [num |-> ToFloat(r), den |-> ToFloat(ToFloat(RAND_MAX) + 1)]

RandInit == raw = 0 /\ value = HostRand(0)

Draw == raw' \in 0..RAND_MAX /\ value' = HostRand(raw')

RandSpec == RandInit /\ [][Draw]_<<raw, value>>

-----------------------------------------------------------------------------
\* LANGUAGE.md describes rand() as a float of the half-open interval [0, 1).
BelowOne == value.num < value.den
=============================================================================
