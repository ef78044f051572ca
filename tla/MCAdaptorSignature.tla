--------------------------- MODULE MCAdaptorSignature --------------------------
(***************************************************************************)
(* AdaptorSignature over a group of P points, with three operators.        *)
(***************************************************************************)
EXTENDS AdaptorSignature

CONSTANT P

MCScalars == 0 .. P - 1
AddMod(a, b) == (a + b) % P
MulMod(a, b) == (a * b) % P
NegMod(a) == (P - a) % P

MCEven == {2 * i : i \in 1 .. (P - 1) \div 2}
\* A function of the two x coordinates.
MCChallenge(r, p) == (r * r + 3 * p * p + 1) % P

MCSecrets == {1, 3}
MCShares == {2, 5}
MCNonces == {1, 6}
MCHashes == {0, 1, 4}

================================================================================
