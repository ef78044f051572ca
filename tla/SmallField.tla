------------------------------- MODULE SmallField -------------------------------
(***************************************************************************)
(* The field of P = 17 elements, where 2 generates the domain of size 8,   *)
(* 4 the one of size 4, and 3 the whole group; matrices over it.           *)
(***************************************************************************)
EXTENDS Integers

CONSTANT P

MCScalars == 0 .. P - 1
AddMod(x, y) == (x + y) % P
MulMod(x, y) == (x * y) % P
NegMod(x) == (P - x) % P
RootOf4 == <<1, 4, 16, 13>>
RootOf8 == <<1, 2, 4, 8, 16, 15, 13, 9>>
RootPower(n, k) == IF n = 4 THEN RootOf4[(k % 4) + 1] ELSE RootOf8[(k % 8) + 1]
InverseMod(x) == <<1, 9, 6, 13, 7, 3, 5, 15, 2, 12, 14, 10, 4, 11, 8, 16>>[x]
NatMod(n) == n % P

\* A matrix from the terms <<row, column, coefficient>>.
Matrix(rows, cols, terms) ==
    [k \in 0 .. rows - 1 |-> [j \in 0 .. cols - 1 |->
        IF \E v \in MCScalars : <<k, j, v>> \in terms
        THEN CHOOSE v \in MCScalars : <<k, j, v>> \in terms ELSE 0]]

================================================================================
