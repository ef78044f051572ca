------------------------------- MODULE Positional ------------------------------
(***************************************************************************)
(* Powers of two, and the numbers that digits stand for.                   *)
(***************************************************************************)
EXTENDS Integers

TwoTo(l) == LET p[i \in 0 .. l] == IF i = 0 THEN 1 ELSE 2 * p[i - 1]
            IN  p[l]

\* What the first n little-endian digits are worth, when each has width bits.
DigitsValue(n, digit, width) ==
    LET v[i \in 0 .. n] == IF i = 0 THEN 0
                           ELSE v[i - 1] + digit[i - 1] * TwoTo(width * (i - 1))
    IN  v[n]

================================================================================
