------------------------------ MODULE MCLeanSetup ------------------------------
(***************************************************************************)
(* LeanSetup over the field of SmallField.                                 *)
(***************************************************************************)
EXTENDS LeanSetup, SmallField, TLC

\* A circuit from the terms of its three matrices.
Circuit(inputs, cols, rows, ta, tb, tc) ==
    LET c == [inputs |-> inputs, cols |-> cols, rows |-> rows,
              a |-> Matrix(rows, cols, ta), b |-> Matrix(rows, cols, tb),
              c |-> Matrix(rows, cols, tc), assignments |-> {}]
    IN  [c EXCEPT !.assignments =
            {z \in [0 .. cols - 1 -> 0 .. 3] : z[0] = 1 /\ Satisfied(c, z)}]

\* The outer circuit in small: two bits, 1 * (b0 + 2 b1) = x_wit, 1 * x_wit = x_pub, and a
\* relation with a witness of its own.  Columns 1 x | x_wit b0 b1 p.
Outer ==
    Circuit(2, 6, 5,
            {<<0, 0, 1>>, <<0, 3, 16>>, <<1, 4, 1>>, <<2, 0, 1>>, <<3, 0, 1>>, <<4, 5, 1>>},
            {<<0, 3, 1>>, <<1, 0, 1>>, <<1, 4, 16>>, <<2, 3, 1>>, <<2, 4, 2>>, <<3, 2, 1>>,
             <<4, 3, 1>>},
            {<<2, 2, 1>>, <<3, 1, 1>>, <<4, 3, 1>>})
\* Two public inputs.  Columns 1 x1 x2 | w1 w2 p q, with w1 * p = q.
TwoInputs ==
    Circuit(3, 7, 3, {<<0, 0, 1>>, <<1, 0, 1>>, <<2, 3, 1>>},
            {<<0, 3, 1>>, <<1, 4, 1>>, <<2, 5, 1>>, <<2, 0, 1>>},
            {<<0, 1, 1>>, <<1, 2, 1>>, <<2, 6, 1>>})
\* The bits on the public row itself: nothing is left out.
BitsOnRow ==
    Circuit(2, 4, 3, {<<0, 2, 1>>, <<1, 3, 1>>, <<2, 0, 1>>},
            {<<0, 2, 1>>, <<1, 3, 1>>, <<2, 2, 1>>, <<2, 3, 2>>},
            {<<0, 2, 1>>, <<1, 3, 1>>, <<2, 1, 1>>})
\* w1 * w2 = x leaves out w2, which x does not determine.
Unbound ==
    Circuit(2, 5, 2, {<<0, 2, 1>>, <<1, 0, 1>>}, {<<0, 3, 1>>, <<1, 2, 1>>},
            {<<0, 1, 1>>, <<1, 4, 1>>})
\* x * w = v, and 1 * (w + x) = v.
PublicInA == Circuit(2, 4, 1, {<<0, 1, 1>>}, {<<0, 2, 1>>}, {<<0, 3, 1>>})
PublicInB == Circuit(2, 4, 1, {<<0, 0, 1>>}, {<<0, 2, 1>>, <<0, 1, 1>>}, {<<0, 3, 1>>})
\* The same with w in A, so that a base of the pair (w, x) would be published.
PublicInBoth == Circuit(2, 4, 1, {<<0, 2, 1>>}, {<<0, 2, 1>>, <<0, 1, 1>>}, {<<0, 3, 1>>})

MCCircuits == {Outer, TwoInputs, BitsOnRow, Unbound, PublicInA, PublicInB,
               PublicInBoth}
MCTaus == {0, 3, 5, 10}
MCTrapdoors == {[alpha |-> 2, beta |-> 3, gamma |-> 5, delta |-> 6],
                [alpha |-> 1, beta |-> 16, gamma |-> 1, delta |-> 13]}
\* Not canonical, with a canonical first row, singular; two rows that must be swapped, and
\* three statements none of which is zero.
MCSamples == {<< <<2>>, <<1>> >>, << <<0>>, <<2>> >>, << <<1>>, <<1>> >>,
              << <<0, 0>>, <<0, 1>>, <<1, 0>> >>,
              << <<0, 1>>, <<0, 2>>, <<1, 1>> >>}

================================================================================
