-------------------------- MODULE MCColumnAttestation --------------------------
(***************************************************************************)
(* Four instances over two statements; the second has fewer columns and the *)
(* first has a column whose base is the identity.  Tapped and Bare have the *)
(* same ctx_core, one by its tapleaf and one by a longer template.         *)
(***************************************************************************)
EXTENDS ColumnAttestation

P == 5
MCPlus(a, b) == (a + b) % P
MCTimes(a, b) == (a * b) % P
MCMinus(a) == (P - a) % P

Tapped == [vk |-> 1, x |-> 1, tapleaf |-> 5, version |-> 192, template |-> <<7>>,
           path |-> "compute", ycols |-> 1, nonce |-> 1]
Bare == [Tapped EXCEPT !.tapleaf = None, !.template = <<5, 192, 7>>]
Abort == [Tapped EXCEPT !.path = "abort"]
Other == [Tapped EXCEPT !.x = 2, !.ycols = 2, !.nonce = 2]

MCBuilders == {Tapped, Bare, Abort, Other}
MCColumns == <<<<2, 0>>, <<3>>>>
MCDelta == <<3, 1>>
MCScalars == 0 .. P - 1
================================================================================
