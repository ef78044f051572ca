------------------------------ MODULE PairingRing ------------------------------
(***************************************************************************)
(* Groups "in the exponent".                                               *)
(*                                                                         *)
(* Every element of G1, G2 and GT is written as its discrete logarithm to  *)
(* a fixed generator of the prime-order subgroup.  The group operation is  *)
(* Plus, a scalar multiplication or a GT power is Times, the pairing       *)
(* e(x, y) is Times(x, y), and the identity is Zero.  What the code asks   *)
(* of the arkworks curves is that the exponents form a commutative ring    *)
(* (RingAssumption) without zero divisors (DomainAssumption), which the    *)
(* prime field E::ScalarField is.  Points outside the prime-order subgroup *)
(* have no exponent and are outside this representation.                   *)
(***************************************************************************)
EXTENDS Integers

CONSTANTS
    Scalars,        \* the exponents: E::ScalarField
    Zero, One,      \* identity of the groups, and the generator itself
    Plus(_, _),     \* group operation (PairingOutput is written additively)
    Times(_, _),    \* scalar multiplication, and the pairing
    Minus(_)        \* group inverse

\* The laws of a commutative ring with identity.
IsCommutativeRing ==
    /\ Zero \in Scalars
    /\ One \in Scalars
    /\ \A a \in Scalars : Minus(a) \in Scalars
    /\ \A a, b \in Scalars : Plus(a, b) \in Scalars
    /\ \A a, b \in Scalars : Times(a, b) \in Scalars
    /\ \A a, b \in Scalars : Plus(a, b) = Plus(b, a)
    /\ \A a, b \in Scalars : Times(a, b) = Times(b, a)
    /\ \A a, b, c \in Scalars : Plus(Plus(a, b), c) = Plus(a, Plus(b, c))
    /\ \A a, b, c \in Scalars : Times(Times(a, b), c) = Times(a, Times(b, c))
    /\ \A a, b, c \in Scalars :
          Times(Plus(a, b), c) = Plus(Times(a, c), Times(b, c))
    /\ \A a \in Scalars : Plus(a, Zero) = a
    /\ \A a \in Scalars : Times(a, One) = a
    /\ \A a \in Scalars : Plus(a, Minus(a)) = Zero

NonZero == Scalars \ {Zero}
NoZeroDivisors ==
    \A a, b \in Scalars : Times(a, b) = Zero => a = Zero \/ b = Zero

ASSUME RingAssumption == IsCommutativeRing
ASSUME DomainAssumption == NoZeroDivisors

(***************************************************************************)
(* The accumulation loop `acc = identity; for k in 1..=n { acc += f[k] }`  *)
(* behind every multi-scalar multiplication and every product of pairings. *)
(***************************************************************************)
Partial(f, n) == LET acc[k \in 0 .. n] ==
                        IF k = 0 THEN Zero ELSE Plus(acc[k - 1], f[k])
                 IN  acc

Sum(f, n) == Partial(f, n)[n]

================================================================================
