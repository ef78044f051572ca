----------------------------- MODULE MCOneSidedPpe -----------------------------
(***************************************************************************)
(* OneSidedPpe over the field of P elements, with one public input and two *)
(* witness columns.  P = 7 is the least prime where two columns can differ *)
(* from each other, from delta and from their negations, so that the audit *)
(* lets some key through.                                                  *)
(***************************************************************************)
EXTENDS OneSidedPpe

CONSTANT P

MCScalars == 0 .. P - 1
AddMod(a, b) == (a + b) % P
MulMod(a, b) == (a * b) % P
NegMod(a) == (P - a) % P

Lean == [vk  |-> [alpha |-> 1, beta |-> 1, gamma |-> 4, delta |-> 3, ic |-> <<1, 2>>],
         pvk |-> [beta |-> 1, delta |-> 3, b |-> <<0, 0, 2, 0>>, t |-> <<1, 3>>]]

MCKeys ==
    {Lean,
     \* T_const is the identity, as in the library's tests
     [Lean EXCEPT !.pvk.t = <<0, 0>>],
     \* a public input in a B polynomial; for x = 0 the baked target is the identity
     [Lean EXCEPT !.pvk.b = <<1, 3, 0, 1>>, !.pvk.t = <<2, 0>>],
     \* gamma is a witness column
     [Lean EXCEPT !.vk.gamma = 2],
     \* one column too many for the verifier
     [Lean EXCEPT !.pvk.b = <<0, 0, 2, 0, 0>>],
     \* assembled from another setup's beta
     [Lean EXCEPT !.pvk.beta = 6, !.pvk.t = <<0, 0>>]}

MCInputs == {<<0>>, <<1>>}
MCWitnesses == {<<1, 2>>, <<1, 0, 1>>}
MCRhos == {0, 2, 3}
MCPoints == {1, 4}
MCRandomizers == {0, 5}

================================================================================
