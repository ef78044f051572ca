--------------------------- MODULE MCPublicationAudit ---------------------------
(***************************************************************************)
(* PublicationAudit over the field of SmallField: the tool's own mock      *)
(* circuits, and circuits with two public and two witness columns built    *)
(* from a few matrices with different span relations.                      *)
(***************************************************************************)
EXTENDS PublicationAudit, SmallField

Subject(inputs, cols, rows, instance, a, b, c) ==
    [inputs |-> inputs, cols |-> cols, rows |-> rows, instance |-> instance,
     a |-> Matrix(rows, cols, a), b |-> Matrix(rows, cols, b), c |-> Matrix(rows, cols, c)]
Hash == [i \in 0 .. 1 |-> IF i = 0 THEN 1 ELSE 5]
Ones == [i \in 0 .. 1 |-> 1]

MockLinear ==
    Subject(2, 5, 2, Hash, {<<0, 0, 1>>, <<1, 0, 1>>},
            {<<0, 2, 1>>, <<0, 3, 1>>, <<1, 1, 1>>}, {<<0, 4, 1>>, <<1, 4, 1>>})
\* x * x = 1
MockQuadratic == Subject(2, 2, 1, Ones, {<<0, 1, 1>>}, {<<0, 1, 1>>}, {<<0, 0, 1>>})
MockSpanViolation ==
    Subject(2, 3, 2, Ones, {<<0, 0, 1>>, <<1, 0, 1>>},
            {<<0, 1, 1>>, <<0, 2, 1>>, <<1, 0, 1>>}, {<<0, 0, 2>>, <<1, 0, 1>>})
MockUSpanViolation ==
    Subject(2, 3, 2, Ones, {<<0, 1, 1>>, <<0, 2, 1>>, <<1, 0, 1>>},
            {<<0, 0, 1>>, <<1, 1, 1>>}, {<<0, 1, 1>>, <<0, 2, 1>>, <<1, 1, 1>>})
MockWSpanViolation ==
    Subject(2, 3, 2, Ones, {<<0, 0, 1>>, <<1, 0, 1>>}, {<<0, 1, 1>>, <<1, 0, 1>>},
            {<<0, 0, 1>>, <<1, 1, 1>>, <<1, 2, 1>>})

\* Columns 1 x1 x2 | w1 w2.
Constant == {<<0, 0, 1>>, <<1, 0, 1>>}
WitnessOnly == {<<1, 3, 1>>, <<2, 4, 1>>}
Disjointed == {<<0, 1, 1>>, <<0, 2, 3>>, <<2, 3, 1>>}
\* One public column each, on the same row: linear in either matrix alone.
FirstPublic == {<<0, 1, 1>>, <<1, 3, 1>>}
SecondPublic == {<<0, 2, 1>>}
\* x1 + x2 = w1 and neither is a witness column.
SumMeets == {<<0, 1, 1>>, <<1, 2, 1>>, <<0, 3, 1>>, <<1, 3, 1>>}
\* x1 = w1 - w2, by an elimination that reaches back.
Difference == {<<0, 1, 1>>, <<2, 1, 16>>, <<0, 3, 1>>, <<1, 3, 1>>, <<1, 4, 1>>, <<2, 4, 1>>}
\* The rows overlap, the spans do not, and x2 = 2 x1.
Overlapping == {<<0, 1, 1>>, <<2, 1, 1>>, <<0, 2, 2>>, <<2, 2, 2>>, <<0, 3, 1>>, <<1, 4, 3>>,
                <<0, 4, 1>>}
\* The rows of the second witness column start above those of the first.
Descending == {<<1, 3, 2>>, <<2, 3, 1>>, <<0, 4, 1>>, <<1, 4, 1>>, <<0, 1, 1>>, <<2, 2, 5>>}

MCCircuits ==
    {MockLinear, MockQuadratic, MockSpanViolation, MockUSpanViolation, MockWSpanViolation} \cup
    {Subject(3, 5, 3, [i \in 0 .. 2 |-> <<1, 5, x>>[i + 1]], a, b, c) :
        x \in {0, 3}, a \in {Constant, WitnessOnly, Disjointed, SecondPublic, Descending},
        b \in {WitnessOnly, FirstPublic, SumMeets, Overlapping, Difference},
        c \in {WitnessOnly, Disjointed, SumMeets, Difference, Overlapping, Descending}}

================================================================================
