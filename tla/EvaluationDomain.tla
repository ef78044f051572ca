---------------------------- MODULE EvaluationDomain ----------------------------
(***************************************************************************)
(* The exponents as a field with roots of unity, and polynomials by their  *)
(* values on the powers of one: what the code takes from ark_ff and        *)
(* ark_poly.  Vectors over a domain start at 0, as in the code.            *)
(***************************************************************************)
EXTENDS PairingRing, Folds

CONSTANTS
    DomainSizes,    \* sizes of the evaluation domains
    Element(_, _),  \* domain.element(k) of the domain of size n
    Reciprocal(_),  \* Field::inverse
    OfNat(_)        \* F::from(u64)

a \oplus b == Plus(a, b)
a \otimes b == Times(a, b)
a \ominus b == Plus(a, Minus(b))

Power(t, k) == LET p[i \in 0 .. k] == IF i = 0 THEN One ELSE p[i - 1] \otimes t
               IN  p[k]

Total(v) ==
    MapThenFoldSet(Plus, Zero, LAMBDA e : v[e], LAMBDA s : CHOOSE e \in s : TRUE, DOMAIN v)

ASSUME FieldAssumption ==
    /\ One # Zero
    /\ \A a \in NonZero : Reciprocal(a) \in Scalars /\ a \otimes Reciprocal(a) = One
ASSUME RootsAssumption ==
    \A n \in DomainSizes :
       /\ n \in Nat \ {0} /\ Element(n, 1) \in Scalars
       /\ \A k \in 0 .. n * n : Element(n, k) = Power(Element(n, 1), k)
       /\ \A k \in 1 .. n - 1 : Element(n, k) # One
       /\ Element(n, n) = One
       /\ OfNat(0) = Zero /\ OfNat(2 * n) # Zero
       /\ \A k \in 1 .. 2 * n : OfNat(k) = OfNat(k - 1) \oplus One

Domain(n) == 0 .. n - 1
Vanishing(n, t) == Power(t, n) \ominus One

\* The k-th Lagrange polynomial of the domain at t, which is not one of its points.
Lagrange(n, k, t) ==
    Vanishing(n, t) \otimes Element(n, k)
        \otimes Reciprocal(OfNat(n) \otimes (t \ominus Element(n, k)))

\* ifft: coefficient i of the polynomial that takes the values v on the domain.
Coefficient(n, v, i) ==
    Reciprocal(OfNat(n)) \otimes Total([k \in Domain(n) |-> v[k] \otimes Element(n, (n - i) * k)])

================================================================================
