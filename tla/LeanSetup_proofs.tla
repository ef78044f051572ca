------------------------------- MODULE LeanSetup_proofs ------------------------
(***************************************************************************)
(* Proofs about LeanSetup, for every field with roots of unity, every      *)
(* circuit and assignment, every trapdoor and all randomizers.             *)
(***************************************************************************)
EXTENDS LeanSetup, FieldSums

--------------------------------------------------------------------------------
(***************************************************************************)
(* Circuits: their shapes, and their columns at a point off the domain.    *)
(***************************************************************************)
\* What the assumptions say of a circuit,
LEMMA CircuitKit ==
    ASSUME NEW c \in Circuits
    PROVE  /\ DomainSize(c) \in DomainSizes /\ DomainSize(c) \in Nat \ {0}
           /\ c.rows \in Nat /\ c.cols \in Nat /\ c.inputs \in 1 .. c.cols
           /\ Rows(c) \subseteq Domain(DomainSize(c))
           /\ IsFiniteSet(Rows(c)) /\ IsFiniteSet(Cols(c)) /\ IsFiniteSet(Domain(DomainSize(c)))
           /\ c.a \in [Rows(c) -> [Cols(c) -> Scalars]]
           /\ c.b \in [Rows(c) -> [Cols(c) -> Scalars]]
           /\ c.c \in [Rows(c) -> [Cols(c) -> Scalars]]
<1> DEFINE Fits == {n \in DomainSizes : c.rows + c.inputs <= n}
<1>1. /\ \E n \in DomainSizes : c.rows + c.inputs <= n
      /\ c.rows \in Nat /\ c.cols \in Nat /\ c.inputs \in 1 .. c.cols
      /\ {c.a, c.b, c.c} \subseteq [Rows(c) -> [Cols(c) -> Scalars]]
  BY CircuitsAssumption
<1>2. DomainSizes \subseteq Nat \ {0}
  BY RootsAssumption
<1>3. Fits \in SUBSET Nat /\ Fits # {}
  BY <1>1, <1>2
<1>4. \E k \in Fits : \A j \in Fits : ~ (j < k)
  <2> HIDE DEF Fits
  <2> QED BY <1>3, LeastNatural
<1>5. \E n \in DomainSizes : /\ c.rows + c.inputs <= n
                             /\ \A m \in DomainSizes : c.rows + c.inputs <= m => n <= m
  <2>1. PICK n \in Fits : \A j \in Fits : ~ (j < n)
    BY <1>4
  <2>2. n \in DomainSizes /\ c.rows + c.inputs <= n /\ n \in Nat
    BY <1>2, <2>1
  <2>3. \A m \in DomainSizes : c.rows + c.inputs <= m => n <= m
    <3> TAKE m \in DomainSizes
    <3> HAVE c.rows + c.inputs <= m
    <3>1. m \in Fits /\ m \in Nat
      BY <1>2
    <3>2. ~ (m < n)
      BY <2>1, <3>1
    <3> QED BY <2>2, <3>1, <3>2
  <2> QED BY <2>2, <2>3
<1>6. DomainSize(c) \in DomainSizes /\ c.rows + c.inputs <= DomainSize(c)
  BY <1>5 DEF DomainSize
<1>7. DomainSize(c) \in Nat \ {0}
  BY <1>2, <1>6
<1> DEFINE n == DomainSize(c)
<1> HIDE DEF n
<1>8. n \in Nat /\ c.rows + c.inputs <= n
  BY <1>6, <1>7 DEF n
<1>9. Rows(c) \subseteq Domain(n)
  BY <1>1, <1>8 DEF Rows, Domain
<1>10. IsFiniteSet(Domain(n))
  BY <1>8, DomainFinite
<1>11. IsFiniteSet(Rows(c)) /\ IsFiniteSet(Cols(c))
  BY <1>1, DomainFinite DEF Rows, Cols, Domain
<1> QED BY <1>1, <1>6, <1>7, <1>9, <1>10, <1>11 DEF n

\* of its columns,
LEMMA ColumnKit ==
    ASSUME NEW c \in Circuits
    PROVE  /\ 0 \in Cols(c) /\ Public(c) \subseteq Cols(c) /\ Private(c) \subseteq Cols(c)
           /\ Cols(c) = {0} \cup Public(c) \cup Private(c)
           /\ 0 \notin Public(c) /\ 0 \notin Private(c) /\ Public(c) \cap Private(c) = {}
           /\ IsFiniteSet(Public(c)) /\ IsFiniteSet(Private(c))
<1>1. c.cols \in Nat /\ c.inputs \in 1 .. c.cols /\ IsFiniteSet(Cols(c))
  BY CircuitKit
<1>2. /\ 0 \in Cols(c) /\ Public(c) \subseteq Cols(c) /\ Private(c) \subseteq Cols(c)
      /\ Cols(c) = {0} \cup Public(c) \cup Private(c)
      /\ 0 \notin Public(c) /\ 0 \notin Private(c) /\ Public(c) \cap Private(c) = {}
  BY <1>1 DEF Cols, Public, Private
<1>3. IsFiniteSet(Public(c)) /\ IsFiniteSet(Private(c))
  BY <1>1, <1>2, FS_Subset
<1> QED BY <1>2, <1>3

\* and of its assignments.
LEMMA AssignmentKit ==
    ASSUME NEW c \in Circuits, NEW z \in c.assignments
    PROVE  z \in [Cols(c) -> Scalars] /\ z[0] = One /\ Satisfied(c, z)
BY CircuitsAssumption

\* A vector over the rows, and zero on the rest of the domain.
Padded(c, v) == [k \in Domain(DomainSize(c)) |-> IF k \in Rows(c) THEN v[k] ELSE Zero]
Short(c, y) == [k \in Rows(c) |-> y[k]]

\* Padding with zeros changes no inner product.
LEMMA PaddedDot ==
    ASSUME NEW c \in Circuits, NEW v \in [Rows(c) -> Scalars],
           NEW y \in [Domain(DomainSize(c)) -> Scalars]
    PROVE  /\ Padded(c, v) \in [Domain(DomainSize(c)) -> Scalars]
           /\ Short(c, y) \in [Rows(c) -> Scalars]
           /\ Dot(Domain(DomainSize(c)), Padded(c, v), y) = Dot(Rows(c), v, Short(c, y))
<1> DEFINE D == Domain(DomainSize(c))
           R == Rows(c)
           p == Padded(c, v)
           w == [k \in D |-> Times(p[k], y[k])]
<1>1. R \subseteq D /\ IsFiniteSet(D)
  BY CircuitKit
<1>2. p \in [D -> Scalars] /\ Short(c, y) \in [R -> Scalars]
  BY <1>1, Closure DEF Padded, Short
<1>3. w \in [D -> Scalars]
  <2> HIDE DEF p
  <2> QED BY <1>2, DotTerms
<1>4. \A k \in D \ R : w[k] = Zero
  BY TimesZero DEF Padded
<1>5. [k \in R |-> w[k]] = [k \in R |-> Times(v[k], Short(c, y)[k])]
  BY <1>1 DEF Padded, Short
<1>6. Dot(D, p, y) = Total(w)
  BY DEF Dot
<1> HIDE DEF w, D, R
<1>7. Total(w) = Part(w, R)
  BY <1>1, <1>3, <1>4, AllSupport
<1> QED BY <1>2, <1>5, <1>6, <1>7 DEF Part, Dot, D, R

\* The columns at a point, as the prover combines them, are the rows' values there.
MatrixOf(c) == [Rows(c) -> [Cols(c) -> Scalars]]
ColumnsAt(c, m, t) == [j \in Cols(c) |-> InstanceMap(c, m, j, t)]

\* evaluate_constraint on every row is the image of the assignment.
LEMMA OnDomainIs ==
    ASSUME NEW c \in Circuits, NEW m \in MatrixOf(c), NEW z \in [Cols(c) -> Scalars]
    PROVE  /\ OnDomain(c, m, z) = Image(Rows(c), Cols(c), m, z)
           /\ OnDomain(c, m, z) \in [Rows(c) -> Scalars]
           /\ \A k \in Rows(c) : OnDomain(c, m, z)[k] = EvaluateConstraint(m[k], z)
<1>0. m \in [Rows(c) -> [Cols(c) -> Scalars]] /\ IsFiniteSet(Rows(c)) /\ IsFiniteSet(Cols(c))
  BY CircuitKit DEF MatrixOf
<1>1. \A k \in Rows(c) : EvaluateConstraint(m[k], z) = Dot(Cols(c), m[k], z)
  <2> TAKE k \in Rows(c)
  <2>1. DOMAIN m[k] = Cols(c)
    BY <1>0
  <2> QED BY <2>1 DEF EvaluateConstraint, Dot, \otimes
<1>2. OnDomain(c, m, z) = Image(Rows(c), Cols(c), m, z)
  BY <1>1 DEF OnDomain, Image
<1>3. Image(Rows(c), Cols(c), m, z) \in [Rows(c) -> Scalars]
  BY <1>0, ImageType
<1> QED BY <1>2, <1>3 DEF OnDomain

\* The columns at t, combined by an assignment, interpolate the values of the rows.
LEMMA ColumnsCombine ==
    ASSUME NEW c \in Circuits, NEW m \in MatrixOf(c), NEW z \in [Cols(c) -> Scalars],
           NEW t \in Scalars, Vanishing(DomainSize(c), t) # Zero
    PROVE  /\ ColumnsAt(c, m, t) \in [Cols(c) -> Scalars]
           /\ Dot(Cols(c), ColumnsAt(c, m, t), z)
                = Dot(Domain(DomainSize(c)), Padded(c, OnDomain(c, m, z)), LagrangeAt(DomainSize(c), t))
<1> DEFINE D == Domain(DomainSize(c))
           R == Rows(c)
           C == Cols(c)
           l == LagrangeAt(DomainSize(c), t)
           s == Short(c, l)
           v == OnDomain(c, m, z)
<1>1. m \in [R -> [C -> Scalars]] /\ IsFiniteSet(R) /\ IsFiniteSet(C) /\ IsFiniteSet(D) /\ R \subseteq D
      /\ DomainSize(c) \in DomainSizes
  BY CircuitKit DEF MatrixOf
<1>2. l \in [D -> Scalars]
  BY <1>1, OffDomain
<1>3. v = Image(R, C, m, z) /\ v \in [R -> Scalars]
  BY OnDomainIs
<1>4. Dot(D, Padded(c, v), l) = Dot(R, v, s) /\ s \in [R -> Scalars]
  <2> HIDE DEF v, l
  <2> QED BY <1>2, <1>3, PaddedDot
<1>5. ColumnsAt(c, m, t) = Preimage(R, C, s, m)
  <2>1. \A j \in C : InstanceMap(c, m, j, t) = Dot(R, s, [k \in R |-> m[k][j]])
    <3> TAKE j \in C
    <3>1. \A k \in R : Lagrange(DomainSize(c), k, t) \otimes m[k][j] = Times(s[k], [i \in R |-> m[i][j]][k])
      BY <1>1 DEF Short, LagrangeAt, \otimes
    <3> HIDE DEF s
    <3>2. [k \in R |-> Lagrange(DomainSize(c), k, t) \otimes m[k][j]]
            = [k \in R |-> Times(s[k], [i \in R |-> m[i][j]][k])]
      BY <3>1
    <3> QED BY <3>2 DEF InstanceMap, Dot
  <2> HIDE DEF s
  <2> QED BY <2>1 DEF ColumnsAt, Preimage
<1> HIDE DEF s, l, v, D, R, C
<1>6. z \in [C -> Scalars]
  BY DEF C
<1>7. Dot(R, s, Image(R, C, m, z)) = Dot(C, Preimage(R, C, s, m), z)
      /\ Preimage(R, C, s, m) \in [C -> Scalars]
  <2>1. IsMove(R, C, m, s, z)
    BY <1>1, <1>4, <1>6 DEF IsMove
  <2> QED BY <2>1, MatrixMove
<1>8. Dot(R, v, s) = Dot(R, s, v)
  BY <1>3, <1>4, DotFlip
<1> QED BY <1>3, <1>4, <1>5, <1>7, <1>8 DEF v, l, D, C

--------------------------------------------------------------------------------
(***************************************************************************)
(* The witness map: the coset transform computes the coefficients of the   *)
(* quotient.                                                               *)
(***************************************************************************)
\* A power of a product.
LEMMA PowerProduct ==
    ASSUME NEW a \in Scalars, NEW b \in Scalars, NEW k \in Nat
    PROVE  Power(Times(a, b), k) = Times(Power(a, k), Power(b, k))
<1> DEFINE c == Times(a, b)
           Good == {i \in Nat : Power(c, i) = Times(Power(a, i), Power(b, i))}
<1>1. c \in Scalars /\ One \in Scalars
  BY Closure
<1>2. 0 \in Good
  BY <1>1, PowerLaws, TimesLaws
<1>3. ASSUME NEW i \in Nat, i \in Good PROVE i + 1 \in Good
  <2> DEFINE p == Power(a, i)
             q == Power(b, i)
  <2>1. p \in Scalars /\ q \in Scalars /\ Power(c, i) = Times(p, q)
    BY <1>3, PowerType
  <2>2. Power(a, i + 1) = Times(p, a) /\ Power(b, i + 1) = Times(q, b)
        /\ Power(c, i + 1) = Times(Power(c, i), c)
    BY <1>1, PowerLaws
  <2> HIDE DEF p, q, c
  <2>3. Times(Times(p, q), Times(a, b)) = Times(Times(p, a), Times(q, b))
    BY <2>1, TimesRegroup
  <2> QED BY <2>1, <2>2, <2>3 DEF c
<1>4. Nat \subseteq Good
  <2> HIDE DEF Good
  <2> QED BY <1>2, <1>3, SetInduction
<1> QED BY <1>4

\* The coset.
LEMMA CosetKit ==
    ASSUME NEW n \in DomainSizes
    PROVE  /\ CosetGenerator \in Scalars /\ CosetGenerator # Zero
           /\ Vanishing(n, CosetGenerator) \in Scalars \ {Zero}
           /\ \A k \in Domain(n) :
                 /\ Times(CosetGenerator, Element(n, k)) \in Scalars
                 /\ Vanishing(n, Times(CosetGenerator, Element(n, k))) = Vanishing(n, CosetGenerator)
           /\ \A i \in Domain(n) : Power(CosetGenerator, i) \in Scalars \ {Zero}
<1> DEFINE g == CosetGenerator
<1>1. g \in Scalars /\ g # Zero /\ Power(g, n) # One /\ n \in Nat
  BY CosetAssumption, RootKit DEF NonZero
<1> HIDE DEF g
<1>2. Power(g, n) \in Scalars /\ One \in Scalars
  BY <1>1, PowerType, Closure
<1>3. Vanishing(n, g) \in Scalars \ {Zero}
  <2>1. Power(g, n) \ominus One \in Scalars
    BY <1>2, MinusType
  <2>2. Power(g, n) \ominus One # Zero
    BY <1>1, <1>2, SubZero
  <2> QED BY <2>1, <2>2 DEF Vanishing
<1>4. ASSUME NEW k \in Domain(n)
      PROVE  Times(g, Element(n, k)) \in Scalars /\ Vanishing(n, Times(g, Element(n, k))) = Vanishing(n, g)
  <2> DEFINE x == Element(n, k)
  <2>1. x \in Scalars /\ Power(x, n) = One
    BY RootLaws
  <2> HIDE DEF x
  <2>2. Times(g, x) \in Scalars
    BY <1>1, <2>1, Closure
  <2>3. Power(Times(g, x), n) = Times(Power(g, n), Power(x, n))
    BY <1>1, <2>1, PowerProduct
  <2>4. Power(Times(g, x), n) = Power(g, n)
    BY <1>2, <2>1, <2>3, TimesLaws
  <2> QED BY <2>2, <2>4 DEF x, Vanishing
<1> DEFINE Good == {i \in Nat : Power(g, i) # Zero}
<1>5. 0 \in Good
  BY <1>1, PowerLaws, FieldAssumption
<1>6. ASSUME NEW i \in Nat, i \in Good PROVE i + 1 \in Good
  <2>1. Power(g, i + 1) = Times(Power(g, i), g) /\ Power(g, i) \in Scalars
    BY <1>1, PowerLaws, PowerType
  <2>2. Power(g, i + 1) # Zero
    BY <1>1, <1>6, <2>1, TimesNonZero
  <2> QED BY <2>2
<1>7. Nat \subseteq Good
  <2> HIDE DEF Good
  <2> QED BY <1>5, <1>6, SetInduction
<1>8. \A i \in Domain(n) : i \in Nat
  BY <1>1 DEF Domain
<1>9. \A i \in Domain(n) : Power(g, i) \in Scalars \ {Zero}
  BY <1>1, <1>7, <1>8, PowerType
<1> QED BY <1>1, <1>3, <1>4, <1>9 DEF g

\* The values of a polynomial on the coset are those of its scaled coefficients on the domain.
Scaled(n, q) == [i \in Domain(n) |-> Times(q[i], Power(CosetGenerator, i))]

\* A transform over the coset is the transform of the scaled coefficients.
LEMMA CosetDft ==
    ASSUME NEW n \in DomainSizes, NEW q \in [Domain(n) -> Scalars], NEW k \in Domain(n)
    PROVE  /\ Scaled(n, q) \in [Domain(n) -> Scalars]
           /\ Dot(Domain(n), q, Powers(n, Times(CosetGenerator, Element(n, k)))) = Dft(n, Scaled(n, q))[k]
<1> DEFINE D == Domain(n)
           g == CosetGenerator
           x == Element(n, k)
           s == Scaled(n, q)
           r == [i \in D |-> Root(n, i * k)]
           p == Powers(n, Times(g, x))
<1>1. g \in Scalars /\ x \in Scalars /\ n \in Nat
  BY CosetKit, RootLaws, RootKit
<1>2. \A i \in D : Power(g, i) \in Scalars
  BY CosetKit
<1>3. s \in [D -> Scalars]
  BY <1>2, Closure DEF Scaled
<1>4. r \in [D -> Scalars]
  BY DftType
<1>5. \A i \in D : Times(q[i], p[i]) = Times(r[i], s[i])
  <2> TAKE i \in D
  <2> DEFINE a == q[i]
             b == Power(g, i)
             d == Root(n, i * k)
  <2>1. i \in Nat /\ k \in Nat /\ i \in 0 .. n
    BY <1>1 DEF Domain
  <2>2. Power(x, i) = d
    <3> HIDE DEF x, g
    <3>1. Element(n, i * k) = Power(Element(n, k), i)
      BY <2>1, RootLaws
    <3>2. Element(n, i * k) = Root(n, i * k)
      BY <2>1, ElementRoot
    <3> QED BY <3>1, <3>2 DEF x
  <2>3. a \in Scalars /\ b \in Scalars /\ d \in Scalars
    <3>1. r[i] = d
      OBVIOUS
    <3>2. r[i] \in Scalars
      <4> HIDE DEF r
      <4> QED BY <1>4
    <3> QED BY <1>2, <3>1, <3>2
  <2>4. p[i] = Power(Times(g, x), i) /\ s[i] = Times(a, b) /\ r[i] = d
    BY DEF Powers, Scaled
  <2>5. Power(Times(g, x), i) = Times(b, d)
    <3> HIDE DEF g, x
    <3>1. Power(Times(g, x), i) = Times(Power(g, i), Power(x, i))
      BY <1>1, <2>1, PowerProduct
    <3> QED BY <2>2, <3>1
  <2> HIDE DEF a, b, d, p, s, r
  <2>6. Times(a, Times(b, d)) = Times(Times(a, b), d) /\ Times(Times(a, b), d) = Times(d, Times(a, b))
    BY <2>3, Closure, TimesLaws
  <2> QED BY <2>4, <2>5, <2>6 DEF a
<1>6. [i \in D |-> Times(q[i], p[i])] = [i \in D |-> Times(r[i], s[i])]
  <2> HIDE DEF p, r, s
  <2> QED BY <1>5
<1>7. Dft(n, s)[k] = Dot(D, r, s)
  BY DEF Dft
<1> QED BY <1>3, <1>6, <1>7 DEF Dot

\* The rows of A and of B at an assignment, over the whole domain.
Left(c, z) == Padded(c, OnDomain(c, c.a, z))
Right(c, z) == Padded(c, OnDomain(c, c.b, z))
QuotientIs(c, z) == QuotientOf(DomainSize(c), Left(c, z), Right(c, z))

\* The two sides of the constraints, and their quotient.
LEMMA SidesType ==
    ASSUME NEW c \in Circuits, NEW z \in c.assignments
    PROVE  /\ Left(c, z) \in [Domain(DomainSize(c)) -> Scalars]
           /\ Right(c, z) \in [Domain(DomainSize(c)) -> Scalars]
           /\ Padded(c, OnDomain(c, c.c, z)) = Products(Domain(DomainSize(c)), Left(c, z), Right(c, z))
           /\ QuotientIs(c, z) \in [Domain(DomainSize(c)) -> Scalars]
           /\ QuotientIs(c, z)[DomainSize(c) - 1] = Zero
<1> DEFINE u == OnDomain(c, c.a, z)
           v == OnDomain(c, c.b, z)
           w == OnDomain(c, c.c, z)
           D == Domain(DomainSize(c))
<1>1. /\ DomainSize(c) \in DomainSizes /\ Rows(c) \subseteq D
      /\ c.a \in MatrixOf(c) /\ c.b \in MatrixOf(c) /\ c.c \in MatrixOf(c)
  BY CircuitKit DEF MatrixOf
<1>2. z \in [Cols(c) -> Scalars] /\ Satisfied(c, z)
  BY AssignmentKit
<1>3. /\ u \in [Rows(c) -> Scalars] /\ \A k \in Rows(c) : u[k] = EvaluateConstraint(c.a[k], z)
      /\ v \in [Rows(c) -> Scalars] /\ \A k \in Rows(c) : v[k] = EvaluateConstraint(c.b[k], z)
      /\ w \in [Rows(c) -> Scalars] /\ \A k \in Rows(c) : w[k] = EvaluateConstraint(c.c[k], z)
  BY <1>1, <1>2, OnDomainIs
<1>4. \A k \in Rows(c) : w[k] = Times(u[k], v[k])
  BY <1>2, <1>3 DEF Satisfied, \otimes
<1> HIDE DEF u, v, w
<1>5. Left(c, z) \in [D -> Scalars] /\ Right(c, z) \in [D -> Scalars]
  BY <1>3, Closure DEF Left, Right, Padded, u, v
<1>6. Padded(c, w) = Products(D, Left(c, z), Right(c, z))
  <2>1. \A k \in D : Padded(c, w)[k] = Times(Left(c, z)[k], Right(c, z)[k])
    <3> TAKE k \in D
    <3>1. CASE k \in Rows(c)
      BY <1>4, <3>1 DEF Padded, Left, Right, u, v
    <3>2. CASE k \notin Rows(c)
      <4>1. Padded(c, w)[k] = Zero /\ Left(c, z)[k] = Zero /\ Right(c, z)[k] = Zero
        BY <3>2 DEF Padded, Left, Right
      <4> QED BY <4>1, Closure, TimesZero
    <3> QED BY <3>1, <3>2
  <2> QED BY <2>1 DEF Padded, Products
<1>7. QuotientIs(c, z) \in [D -> Scalars] /\ QuotientIs(c, z)[DomainSize(c) - 1] = Zero
  BY <1>1, <1>5, QuotientDegree DEF QuotientIs
<1> QED BY <1>5, <1>6, <1>7 DEF w

\* OnCoset evaluates the padded vector.
LEMMA OnCosetIs ==
    ASSUME NEW c \in Circuits, NEW v \in [Rows(c) -> Scalars], NEW k \in Domain(DomainSize(c))
    PROVE  OnCoset(c, v, k)
             = Dot(Domain(DomainSize(c)), Padded(c, v),
                   LagrangeAt(DomainSize(c), Times(CosetGenerator, Element(DomainSize(c), k))))
<1> DEFINE n == DomainSize(c)
           D == Domain(n)
           x == Times(CosetGenerator, Element(n, k))
           l == LagrangeAt(n, x)
<1>1. n \in DomainSizes /\ Rows(c) \subseteq D /\ k \in D
  BY CircuitKit
<1>2. x \in Scalars /\ Vanishing(n, x) # Zero
  <2> HIDE DEF n
  <2> QED BY <1>1, CosetKit
<1>3. l \in [D -> Scalars]
  <2> HIDE DEF n, x
  <2> QED BY <1>1, <1>2, OffDomain
<1>4. \A r \in Rows(c) : v[r] \otimes Lagrange(n, r, CosetGenerator \otimes Element(n, k)) = Times(v[r], Short(c, l)[r])
  BY <1>1 DEF Short, LagrangeAt, \otimes
<1>5. OnCoset(c, v, k) = Dot(Rows(c), v, Short(c, l))
  <2>1. OnCoset(c, v, k) = Total([r \in Rows(c) |->
           v[r] \otimes Lagrange(n, r, CosetGenerator \otimes Element(n, k))])
    BY DEF OnCoset
  <2>2. [r \in Rows(c) |-> v[r] \otimes Lagrange(n, r, CosetGenerator \otimes Element(n, k))]
          = [r \in Rows(c) |-> Times(v[r], Short(c, l)[r])]
    <3> HIDE DEF l, n
    <3> QED BY <1>4
  <2> QED BY <2>1, <2>2 DEF Dot
<1> HIDE DEF l
<1>6. Dot(D, Padded(c, v), l) = Dot(Rows(c), v, Short(c, l))
  BY <1>3, PaddedDot
<1> QED BY <1>5, <1>6 DEF l

\* What the standard prover takes for h: the coefficients of (A B - C) / Z.
LEMMA WitnessMapIs ==
    ASSUME NEW c \in Circuits, NEW z \in c.assignments
    PROVE  WitnessMap(c, z) = QuotientIs(c, z)
<1> DEFINE n == DomainSize(c)
           D == Domain(n)
           Q == QuotientIs(c, z)
           s == Scaled(n, Q)
           q == [k \in D |-> QuotientOnCoset(c, z, k)]
           zg == Vanishing(n, CosetGenerator)
<1>1. /\ n \in DomainSizes
      /\ Left(c, z) \in [D -> Scalars] /\ Right(c, z) \in [D -> Scalars] /\ Q \in [D -> Scalars]
      /\ Padded(c, OnDomain(c, c.c, z)) = Products(D, Left(c, z), Right(c, z))
  BY CircuitKit, SidesType
<1>2. /\ OnDomain(c, c.a, z) \in [Rows(c) -> Scalars]
      /\ OnDomain(c, c.b, z) \in [Rows(c) -> Scalars]
      /\ OnDomain(c, c.c, z) \in [Rows(c) -> Scalars]
  <2>1. c.a \in MatrixOf(c) /\ c.b \in MatrixOf(c) /\ c.c \in MatrixOf(c) /\ z \in [Cols(c) -> Scalars]
    BY CircuitKit, AssignmentKit DEF MatrixOf
  <2> QED BY <2>1, OnDomainIs
<1>3. zg \in Scalars /\ zg # Zero
  <2> HIDE DEF n
  <2> QED BY <1>1, CosetKit
<1>4. s \in [D -> Scalars]
  <2> HIDE DEF n, Q
  <2>1. 0 \in Domain(n)
    BY <1>1, RootKit DEF Domain
  <2> QED BY <1>1, <2>1, CosetDft
<1>5. \A k \in D : q[k] = Dft(n, s)[k]
  <2> TAKE k \in D
  <2> DEFINE x == Times(CosetGenerator, Element(n, k))
             l == LagrangeAt(n, x)
             a == Dot(D, Left(c, z), l)
             b == Dot(D, Right(c, z), l)
             e == Dot(D, Products(D, Left(c, z), Right(c, z)), l)
             y == Dot(D, Q, Powers(n, x))
  <2>1. x \in Scalars /\ Vanishing(n, x) = zg
    <3> HIDE DEF n
    <3> QED BY <1>1, CosetKit
  <2>2. Times(zg, y) = Plus(Times(a, b), Minus(e))
    <3> HIDE DEF n, x
    <3>1. Vanishing(n, x) # Zero
      BY <1>3, <2>1
    <3>2. QuotientIs(c, z) = QuotientOf(n, Left(c, z), Right(c, z))
      BY DEF QuotientIs, n
    <3> QED BY <1>1, <2>1, <3>1, <3>2, Division
  <2>3. OnCoset(c, OnDomain(c, c.a, z), k) = a /\ OnCoset(c, OnDomain(c, c.b, z), k) = b
        /\ OnCoset(c, OnDomain(c, c.c, z), k) = e
    <3>1. OnCoset(c, OnDomain(c, c.a, z), k) = a
      BY <1>2, OnCosetIs DEF Left
    <3>2. OnCoset(c, OnDomain(c, c.b, z), k) = b
      BY <1>2, OnCosetIs DEF Right
    <3>3. OnCoset(c, OnDomain(c, c.c, z), k) = Dot(D, Padded(c, OnDomain(c, c.c, z)), l)
      BY <1>2, OnCosetIs
    <3> QED BY <1>1, <3>1, <3>2, <3>3
  <2>4. q[k] = Times(Plus(Times(a, b), Minus(e)), Reciprocal(zg))
    <3>1. q[k] = QuotientOnCoset(c, z, k)
      OBVIOUS
    <3> HIDE DEF a, b, e, q
    <3> QED BY <2>3, <3>1 DEF QuotientOnCoset, \otimes, \ominus
  <2>5. y = Dft(n, s)[k]
    <3> HIDE DEF n, Q
    <3> QED BY <1>1, CosetDft
  <2>6. y \in Scalars
    <3> HIDE DEF n, Q
    <3>1. Dft(n, s) \in [D -> Scalars]
      <4> HIDE DEF s
      <4> QED BY <1>1, <1>4, DftType
    <3> QED BY <2>5, <3>1
  <2> HIDE DEF a, b, e, y, zg, q, s
  <2> DEFINE d == Plus(Times(a, b), Minus(e))
  <2>7. Times(zg, y) = d /\ d \in Scalars
    BY <1>3, <2>2, <2>6, Closure
  <2> HIDE DEF d
  <2>8. Times(y, zg) = d
    BY <1>3, <2>6, <2>7, TimesLaws
  <2>9. y = Times(d, Reciprocal(zg))
    BY <1>3, <2>6, <2>7, <2>8, Quotient
  <2> QED BY <2>4, <2>5, <2>9 DEF d
<1>6. q = Dft(n, s)
  <2>1. Dft(n, s) = [k \in D |-> Dft(n, s)[k]]
    BY DEF Dft
  <2>2. q = [k \in D |-> q[k]]
    OBVIOUS
  <2> HIDE DEF q, s, n
  <2> QED BY <1>5, <2>1, <2>2
<1>7. \A i \in D : Coefficient(n, q, i) \otimes Reciprocal(Power(CosetGenerator, i)) = Q[i]
  <2> TAKE i \in D
  <2> DEFINE g == Power(CosetGenerator, i)
             y == Q[i]
  <2>1. Coefficient(n, q, i) = s[i]
    <3> HIDE DEF n, s, q
    <3> QED BY <1>1, <1>4, <1>6, DftInverse
  <2>2. s[i] = Times(y, g)
    BY DEF Scaled
  <2>3. g \in Scalars /\ g # Zero /\ y \in Scalars
    <3> HIDE DEF n, Q
    <3> QED BY <1>1, CosetKit
  <2> HIDE DEF g, y, s, q, n
  <2>4. Times(y, g) \in Scalars
    BY <2>3, Closure
  <2>5. y = Times(Times(y, g), Reciprocal(g))
    BY <2>3, <2>4, Quotient
  <2> QED BY <2>1, <2>2, <2>5 DEF g, y, \otimes
<1>8. WitnessMap(c, z) = [i \in D |-> Coefficient(n, q, i) \otimes Reciprocal(Power(CosetGenerator, i))]
  BY DEF WitnessMap
<1> HIDE DEF q, Q, n
<1>9. WitnessMap(c, z) = [i \in D |-> Q[i]]
  BY <1>7, <1>8
<1> QED BY <1>1, <1>9 DEF Q

--------------------------------------------------------------------------------
(***************************************************************************)
(* Proofs: what the pairing equation asks of the quotient in C.            *)
(***************************************************************************)
\* Sums in another order.
LEMMA PlusTurn ==
    ASSUME NEW a \in Scalars, NEW b \in Scalars, NEW c \in Scalars
    PROVE  /\ Plus(Plus(a, b), c) = Plus(Plus(a, c), b)
           /\ Plus(Plus(a, b), c) = Plus(a, Plus(b, c))
           /\ Plus(a, Plus(b, c)) = Plus(b, Plus(a, c))
<1>1. Plus(Plus(a, b), c) = Plus(a, Plus(b, c)) /\ Plus(Plus(a, c), b) = Plus(a, Plus(c, b))
  BY PlusLaws
<1>2. Plus(b, c) = Plus(c, b) /\ Plus(a, b) = Plus(b, a)
  BY PlusLaws
<1>3. Plus(Plus(b, a), c) = Plus(b, Plus(a, c))
  BY PlusLaws
<1> QED BY <1>1, <1>2, <1>3

\* A sum of five, regrouped.
LEMMA PlusFive ==
    ASSUME NEW a \in Scalars, NEW b \in Scalars, NEW c \in Scalars, NEW d \in Scalars,
           NEW e \in Scalars
    PROVE  Plus(Plus(Plus(Plus(a, b), c), d), e) = Plus(Plus(a, b), Plus(Plus(c, d), e))
<1> DEFINE x == Plus(a, b)
<1>1. x \in Scalars /\ Plus(x, c) \in Scalars /\ Plus(c, d) \in Scalars
  BY Closure
<1> HIDE DEF x
<1>2. Plus(Plus(x, c), d) = Plus(x, Plus(c, d))
  BY <1>1, PlusTurn
<1>3. Plus(Plus(x, Plus(c, d)), e) = Plus(x, Plus(Plus(c, d), e))
  BY <1>1, PlusTurn
<1> QED BY <1>2, <1>3 DEF x

\* (p + x) (q + y), with the products of the sums.
LEMMA Expand ==
    ASSUME NEW p \in Scalars, NEW q \in Scalars, NEW x \in Scalars, NEW y \in Scalars
    PROVE  Times(Plus(p, x), Plus(q, y))
             = Plus(Times(p, q),
                    Plus(Plus(Times(Plus(p, x), y), Times(Plus(q, y), x)), Minus(Times(x, y))))
<1> DEFINE a == Plus(p, x)
           b == Plus(q, y)
           pq == Times(p, q)
           xq == Times(x, q)
           ay == Times(a, y)
           bx == Times(b, x)
           xy == Times(x, y)
<1>1. a \in Scalars /\ b \in Scalars
  BY Closure
<1>2. pq \in Scalars /\ xq \in Scalars /\ ay \in Scalars /\ bx \in Scalars /\ xy \in Scalars
  BY <1>1, Closure
<1>3. Times(a, q) = Plus(pq, xq)
  BY TimesPlus
<1>4. Times(a, b) = Plus(Times(a, q), ay)
  BY <1>1, TimesPlus
<1>5. bx = Plus(xq, xy)
  <2>1. Times(Plus(q, y), x) = Plus(Times(q, x), Times(y, x))
    BY TimesPlus
  <2> QED BY <2>1, TimesLaws
<1> HIDE DEF a, b, pq, xq, ay, bx, xy
<1>6. Plus(bx, Minus(xy)) = xq
  BY <1>2, <1>5, PlusLaws, Transpose
<1>7. Minus(xy) \in Scalars
  BY <1>2, Closure
<1>8. Plus(Plus(ay, bx), Minus(xy)) = Plus(ay, xq)
  BY <1>2, <1>6, <1>7, PlusLaws
<1>9. Plus(Plus(pq, xq), ay) = Plus(pq, Plus(ay, xq))
  BY <1>2, PlusLaws
<1> QED BY <1>3, <1>4, <1>8, <1>9 DEF a, b, pq, ay, bx, xy

\* Linear combinations with divided points.
LEMMA Divided ==
    ASSUME NEW D, IsFiniteSet(D), NEW x \in [D -> Scalars], NEW y \in [D -> Scalars],
           NEW g \in Scalars, g # Zero
    PROVE  /\ Dot(D, [j \in D |-> Times(x[j], Reciprocal(g))], y) \in Scalars
           /\ Times(Dot(D, [j \in D |-> Times(x[j], Reciprocal(g))], y), g) = Dot(D, x, y)
<1> DEFINE i == Reciprocal(g)
           w == [j \in D |-> Times(x[j], i)]
<1>1. i \in Scalars /\ Times(g, i) = One /\ Times(i, g) = One
  BY ReciprocalNonZero
<1> HIDE DEF i
<1>2. w \in [D -> Scalars]
  BY <1>1, Closure
<1>3. IsScaled(D, w, x, i)
  BY <1>1, TimesLaws DEF IsScaled
<1> HIDE DEF w
<1>4. Dot(D, w, y) = Times(i, Dot(D, x, y))
  BY <1>1, <1>2, <1>3, DotScale
<1>5. Dot(D, x, y) \in Scalars /\ Dot(D, w, y) \in Scalars
  BY <1>2, DotType
<1> DEFINE d == Dot(D, x, y)
<1> HIDE DEF d
<1>6. Times(Times(i, d), g) = Times(Times(i, g), d) /\ Times(One, d) = d
  BY <1>1, <1>5, TimesRotate, Closure, TimesLaws DEF d
<1> QED BY <1>1, <1>4, <1>5, <1>6 DEF d, w, i

\* The key of a circuit at a point, and the combinations of its columns.
KeyInputs(c, t, w) ==
    /\ c \in Circuits /\ t \in Scalars /\ Vanishing(DomainSize(c), t) # Zero
    /\ {w.alpha, w.beta, w.gamma, w.delta} \subseteq Scalars
    /\ w.gamma # Zero /\ w.delta # Zero

LinAt(c, t, w) ==
    [j \in Cols(c) |-> Plus(Plus(Times(w.beta, ColumnsAt(c, c.a, t)[j]),
                                 Times(w.alpha, ColumnsAt(c, c.b, t)[j])),
                            ColumnsAt(c, c.c, t)[j])]

KeyIc(c, t, w) == [j \in 0 .. c.inputs - 1 |-> Times(LinAt(c, t, w)[j], Reciprocal(w.gamma))]
KeyL(c, t, w) == [j \in Private(c) |-> Times(LinAt(c, t, w)[j], Reciprocal(w.delta))]
KeyH(c, t, w) ==
    [i \in 0 .. DomainSize(c) - 2 |->
        Times(Times(Vanishing(DomainSize(c), t), Reciprocal(w.delta)), Power(t, i))]

\* The fields of a generated key.
LEMMA KeyIs ==
    ASSUME NEW c, NEW t, NEW w, KeyInputs(c, t, w)
    PROVE  /\ ProvingKey(c, t, w).a = ColumnsAt(c, c.a, t)
           /\ ProvingKey(c, t, w).b = ColumnsAt(c, c.b, t)
           /\ ProvingKey(c, t, w).alpha = w.alpha /\ ProvingKey(c, t, w).beta = w.beta
           /\ ProvingKey(c, t, w).gamma = w.gamma /\ ProvingKey(c, t, w).delta = w.delta
           /\ ProvingKey(c, t, w).ic = KeyIc(c, t, w) /\ ProvingKey(c, t, w).l = KeyL(c, t, w)
           /\ ProvingKey(c, t, w).h = KeyH(c, t, w)
           /\ LinAt(c, t, w) \in [Cols(c) -> Scalars]
           /\ ColumnsAt(c, c.a, t) \in [Cols(c) -> Scalars]
           /\ ColumnsAt(c, c.b, t) \in [Cols(c) -> Scalars]
           /\ ColumnsAt(c, c.c, t) \in [Cols(c) -> Scalars]
<1>1. c \in Circuits /\ t \in Scalars /\ Vanishing(DomainSize(c), t) # Zero
      /\ w.alpha \in Scalars /\ w.beta \in Scalars
  BY DEF KeyInputs
<1>2. c.inputs \in 1 .. c.cols /\ c.cols \in Nat /\ Private(c) \subseteq Cols(c)
  BY <1>1, CircuitKit, ColumnKit
<1>3. /\ ColumnsAt(c, c.a, t) \in [Cols(c) -> Scalars]
      /\ ColumnsAt(c, c.b, t) \in [Cols(c) -> Scalars]
      /\ ColumnsAt(c, c.c, t) \in [Cols(c) -> Scalars]
  <2>1. c.a \in MatrixOf(c) /\ c.b \in MatrixOf(c) /\ c.c \in MatrixOf(c)
    BY <1>1, CircuitKit DEF MatrixOf
  <2>2. [j \in Cols(c) |-> Zero] \in [Cols(c) -> Scalars]
    BY Closure
  <2> QED BY <1>1, <2>1, <2>2, ColumnsCombine
<1>4. LinAt(c, t, w) \in [Cols(c) -> Scalars]
  BY <1>1, <1>3, Closure DEF LinAt
<1>5. 0 .. c.inputs - 1 \subseteq Cols(c)
  BY <1>2 DEF Cols
<1>6. LinAt(c, t, w)
        = [j \in Cols(c) |-> Plus(Plus(Times(w.beta, InstanceMap(c, c.a, j, t)),
                                       Times(w.alpha, InstanceMap(c, c.b, j, t))),
                                  InstanceMap(c, c.c, j, t))]
  BY DEF LinAt, ColumnsAt
<1> QED BY <1>2, <1>3, <1>4, <1>5, <1>6 DEF ProvingKey, KeyIc, KeyL, KeyH, ColumnsAt, \oplus, \otimes, \ominus

\* beta A + alpha B + C, combined.
LEMMA LinCombines ==
    ASSUME NEW c, NEW t, NEW w, KeyInputs(c, t, w), NEW z \in [Cols(c) -> Scalars]
    PROVE  Dot(Cols(c), LinAt(c, t, w), z)
             = Plus(Plus(Times(w.beta, Dot(Cols(c), ColumnsAt(c, c.a, t), z)),
                         Times(w.alpha, Dot(Cols(c), ColumnsAt(c, c.b, t), z))),
                    Dot(Cols(c), ColumnsAt(c, c.c, t), z))
<1> DEFINE D == Cols(c)
           a == ColumnsAt(c, c.a, t)
           b == ColumnsAt(c, c.b, t)
           e == ColumnsAt(c, c.c, t)
           f == [j \in D |-> Times(w.beta, a[j])]
           g == [j \in D |-> Times(w.alpha, b[j])]
           h == [j \in D |-> Plus(f[j], g[j])]
           l == LinAt(c, t, w)
<1>1. c \in Circuits /\ w.alpha \in Scalars /\ w.beta \in Scalars
  BY DEF KeyInputs
<1>2. a \in [D -> Scalars] /\ b \in [D -> Scalars] /\ e \in [D -> Scalars] /\ l \in [D -> Scalars]
  BY KeyIs
<1>3. IsFiniteSet(D)
  BY <1>1, CircuitKit
<1>4. \A j \in D : l[j] = Plus(h[j], e[j])
  BY DEF LinAt
<1> HIDE DEF a, b, e, l
<1>5. f \in [D -> Scalars] /\ g \in [D -> Scalars] /\ h \in [D -> Scalars]
  BY <1>1, <1>2, Closure
<1>6. IsScaled(D, f, a, w.beta) /\ IsScaled(D, g, b, w.alpha) /\ IsAdded(D, h, f, g)
  BY DEF IsScaled, IsAdded
<1> HIDE DEF f, g, h, D
<1>7. IsAdded(D, l, h, e)
  BY <1>4 DEF IsAdded
<1>8. z \in [D -> Scalars]
  BY DEF D
<1>9. Dot(D, l, z) = Plus(Dot(D, h, z), Dot(D, e, z))
  BY <1>2, <1>3, <1>5, <1>7, <1>8, DotAdd
<1>10. Dot(D, h, z) = Plus(Dot(D, f, z), Dot(D, g, z))
  BY <1>3, <1>5, <1>6, <1>8, DotAdd
<1>11. Dot(D, f, z) = Times(w.beta, Dot(D, a, z)) /\ Dot(D, g, z) = Times(w.alpha, Dot(D, b, z))
  BY <1>1, <1>2, <1>3, <1>5, <1>6, <1>8, DotScale
<1> QED BY <1>9, <1>10, <1>11 DEF a, b, e, l, D

\* A vector on a smaller set.
Cut(D, z) == [k \in D |-> z[k]]

\* An inner product reads its vectors on its domain only.
LEMMA DotCut ==
    ASSUME NEW D, NEW x, NEW z
    PROVE  Dot(D, x, z) = Dot(D, x, Cut(D, z)) /\ Dot(D, x, z) = Dot(D, Cut(D, x), z)
<1>1. [k \in D |-> Times(x[k], z[k])] = [k \in D |-> Times(x[k], Cut(D, z)[k])]
  BY DEF Cut
<1>2. [k \in D |-> Times(x[k], z[k])] = [k \in D |-> Times(Cut(D, x)[k], z[k])]
  BY DEF Cut
<1> QED BY <1>1, <1>2 DEF Dot

\* The restriction of a vector.
LEMMA CutType ==
    ASSUME NEW C, NEW D, D \subseteq C, NEW z \in [C -> Scalars]
    PROVE  Cut(D, z) \in [D -> Scalars]
BY DEF Cut

\* A combination of all columns: the constant one, the public and the private ones.
LEMMA ColumnsSplit ==
    ASSUME NEW c \in Circuits, NEW x \in [Cols(c) -> Scalars], NEW z \in [Cols(c) -> Scalars]
    PROVE  /\ Dot(Cols(c), x, z)
                = Plus(Plus(Times(x[0], z[0]), Dot(Public(c), x, z)), Dot(Private(c), x, z))
           /\ Dot(Public(c), x, z) \in Scalars /\ Dot(Private(c), x, z) \in Scalars
<1> DEFINE C == Cols(c)
           P == Public(c)
           Q == Private(c)
           H == P \cup {0}
           v == [j \in C |-> Times(x[j], z[j])]
<1>1. /\ IsFiniteSet(C) /\ P \subseteq C /\ 0 \in C \ P /\ H \subseteq C /\ C \ H = Q
      /\ Q \subseteq C
  BY CircuitKit, ColumnKit
<1>2. v \in [C -> Scalars]
  BY DotTerms
<1>3. Dot(C, x, z) = Total(v)
  BY DEF Dot
<1>4. Part(v, P) = Dot(P, x, z) /\ Part(v, Q) = Dot(Q, x, z) /\ v[0] = Times(x[0], z[0])
  <2>1. [j \in P |-> v[j]] = [j \in P |-> Times(x[j], z[j])]
    BY <1>1
  <2>2. [j \in Q |-> v[j]] = [j \in Q |-> Times(x[j], z[j])]
    BY <1>1
  <2>3. v[0] = Times(x[0], z[0])
    BY <1>1
  <2> HIDE DEF v
  <2> QED BY <2>1, <2>2, <2>3 DEF Part, Dot
<1> HIDE DEF v, C, P, Q
<1>5. Total(v) = Plus(Part(v, H), Part(v, C \ H))
  BY <1>1, <1>2, AllCut
<1>6. /\ \A s \in SUBSET C : Part(v, s) \in Scalars
      /\ \A s \in SUBSET C : \A e \in C \ s : Part(v, s \cup {e}) = Plus(Part(v, s), v[e])
  BY <1>1, <1>2, PartLaws
<1>7. Part(v, P \cup {0}) = Plus(Part(v, P), v[0])
  BY <1>1, <1>6
<1>8. Part(v, P) \in Scalars /\ Part(v, Q) \in Scalars /\ v[0] \in Scalars
  BY <1>1, <1>2, <1>6
<1>9. Plus(Part(v, P), v[0]) = Plus(v[0], Part(v, P))
  BY <1>8, PlusLaws
<1> QED BY <1>1, <1>3, <1>4, <1>5, <1>7, <1>8, <1>9 DEF C, P, Q

\* The public part of the verification equation, without the division by gamma.
InputSum(key, c, x) ==
    Plus(key.ic[0], Total([i \in Public(c) |-> Times(key.ic[i], x[i])]))

\* What the verifier makes of the inputs is the public half of the linear combination.
LEMMA InputSumIs ==
    ASSUME NEW c, NEW t, NEW w, KeyInputs(c, t, w), NEW z \in c.assignments
    PROVE  /\ InputSum(ProvingKey(c, t, w), c, Statement(c, z)) \in Scalars
           /\ Times(InputSum(ProvingKey(c, t, w), c, Statement(c, z)), w.gamma)
                = Plus(Times(LinAt(c, t, w)[0], z[0]), Dot(Public(c), LinAt(c, t, w), z))
<1> DEFINE lin == LinAt(c, t, w)
           P == Public(c)
           g == w.gamma
           i == Reciprocal(g)
           x == Cut(P, lin)
           y == Cut(P, z)
           d == [j \in P |-> Times(x[j], i)]
           key == ProvingKey(c, t, w)
           S == InputSum(key, c, Statement(c, z))
<1>1. c \in Circuits /\ g \in Scalars /\ g # Zero
  BY DEF KeyInputs
<1>2. z \in [Cols(c) -> Scalars] /\ z[0] = One
  BY <1>1, AssignmentKit
<1>3. /\ lin \in [Cols(c) -> Scalars] /\ P \subseteq Cols(c) /\ 0 \in Cols(c) /\ IsFiniteSet(P)
      /\ c.inputs \in 1 .. c.cols /\ c.cols \in Nat
  BY <1>1, KeyIs, ColumnKit, CircuitKit
<1>4. i \in Scalars /\ Times(i, g) = One
  <2> HIDE DEF g
  <2> QED BY <1>1, ReciprocalNonZero
<1>5. key.ic = [j \in 0 .. c.inputs - 1 |-> Times(lin[j], i)]
  <2>1. key.ic = KeyIc(c, t, w)
    BY KeyIs
  <2> QED BY <2>1 DEF KeyIc
<1>6. 0 \in 0 .. c.inputs - 1 /\ P \subseteq 0 .. c.inputs - 1
  BY <1>3 DEF Public
<1>7. key.ic[0] = Times(lin[0], i) /\ \A j \in P : key.ic[j] = Times(lin[j], i)
  <2> HIDE DEF key, i, lin, P
  <2> QED BY <1>5, <1>6
<1>8. Total([j \in P |-> Times(key.ic[j], Statement(c, z)[j])]) = Dot(P, d, y)
  <2>1. \A j \in P : Times(key.ic[j], Statement(c, z)[j]) = Times(d[j], y[j])
    <3> TAKE j \in P
    <3>1. key.ic[j] = Times(lin[j], i)
      <4> HIDE DEF key, lin, i
      <4> QED BY <1>7
    <3>2. d[j] = Times(lin[j], i) /\ y[j] = z[j] /\ Statement(c, z)[j] = z[j]
      BY DEF Cut, Statement
    <3> HIDE DEF key, d, y, lin, i
    <3> QED BY <3>1, <3>2
  <2> HIDE DEF key, d, y
  <2> QED BY <2>1 DEF Dot
<1>9. x \in [P -> Scalars] /\ y \in [P -> Scalars]
  <2> HIDE DEF lin, P
  <2> QED BY <1>2, <1>3, CutType
<1>10. S = Plus(key.ic[0], Dot(P, d, y))
  <2> HIDE DEF d, y, P, key
  <2> QED BY <1>8 DEF InputSum, P
<1> HIDE DEF x, y, g, key, lin, S, P
<1>11. Dot(P, d, y) \in Scalars /\ Times(Dot(P, d, y), g) = Dot(P, x, y)
  BY <1>1, <1>3, <1>9, Divided
<1> HIDE DEF d, i
<1>12. lin[0] \in Scalars
  BY <1>3
<1>13. Times(Times(lin[0], i), g) = lin[0]
  <2> DEFINE e == lin[0]
  <2>1. e \in Scalars
    BY <1>12
  <2> HIDE DEF e
  <2>2. Times(Times(e, i), g) = Times(e, Times(i, g))
    BY <1>1, <1>4, <2>1, TimesLaws
  <2>3. Times(Times(e, i), g) = e
    BY <1>4, <2>1, <2>2, TimesLaws
  <2> QED BY <2>3 DEF e
<1>14. key.ic[0] \in Scalars
  BY <1>4, <1>7, <1>12, Closure
<1>15. Times(S, g) = Plus(Times(key.ic[0], g), Times(Dot(P, d, y), g)) /\ S \in Scalars
  BY <1>1, <1>10, <1>11, <1>14, Distributes, Closure
<1>16. Dot(P, x, y) = Dot(P, lin, z)
  BY DotCut DEF x, y
<1>17. Times(lin[0], z[0]) = lin[0]
  BY <1>2, <1>12, TimesLaws
<1> QED BY <1>7, <1>11, <1>13, <1>15, <1>16, <1>17 DEF S, g, lin, P, key

\* Five summands times a factor.
Six(a, b, c, d, e, f) == {a, b, c, d, e, f} \subseteq Scalars

\* A sum of five, times a factor.
LEMMA TimesFive ==
    ASSUME NEW a, NEW b, NEW c, NEW d, NEW e, NEW f, Six(a, b, c, d, e, f)
    PROVE  Times(Plus(Plus(Plus(Plus(a, b), c), d), e), f)
             = Plus(Plus(Times(a, f), Times(b, f)), Plus(Plus(Times(c, f), Times(d, f)), Times(e, f)))
<1>0. /\ a \in Scalars /\ b \in Scalars /\ c \in Scalars /\ d \in Scalars
      /\ e \in Scalars /\ f \in Scalars
  BY DEF Six
<1> DEFINE ab == Plus(a, b)
           cd == Plus(c, d)
           cde == Plus(cd, e)
<1>1. ab \in Scalars /\ cd \in Scalars /\ cde \in Scalars
  BY <1>0, Closure
<1>2. Plus(Plus(Plus(Plus(a, b), c), d), e) = Plus(ab, cde)
  BY <1>0, PlusFive
<1>3. Times(ab, f) = Plus(Times(a, f), Times(b, f)) /\ Times(cd, f) = Plus(Times(c, f), Times(d, f))
  BY <1>0, Distributes
<1> HIDE DEF ab, cd
<1>4. Times(cde, f) = Plus(Times(cd, f), Times(e, f))
  BY <1>0, <1>1, Distributes
<1> HIDE DEF cde
<1>5. Times(Plus(ab, cde), f) = Plus(Times(ab, f), Times(cde, f))
  BY <1>0, <1>1, Distributes
<1> QED BY <1>2, <1>3, <1>4, <1>5

\* The verification equation of a proof, without division.
GrothEquation(key, c, x, e, extra) ==
    Times(e.a, e.b)
      = Plus(Plus(Plus(Times(key.alpha, key.beta), Times(InputSum(key, c, x), key.gamma)),
                  Times(e.c, key.delta)),
             extra)

\* The sides of the equation for A = alpha + a + delta r and B = beta + b + delta s.
Sides(x1, l1, l2, dq, tail, extra, ba, ab, cz, p) ==
    /\ {x1, l1, l2, dq, tail, extra, ba, ab, cz, p} \subseteq Scalars
    /\ Plus(l1, l2) = Plus(Plus(ba, ab), cz)
    /\ Plus(dq, extra) = Plus(p, Minus(cz))

\* The terms of both sides of the pairing equation.
LEMMA SidesMeet ==
    ASSUME NEW x1, NEW l1, NEW l2, NEW dq, NEW tail, NEW extra, NEW ba, NEW ab, NEW cz, NEW p,
           Sides(x1, l1, l2, dq, tail, extra, ba, ab, cz, p)
    PROVE  Plus(Plus(Plus(x1, ab), Plus(ba, p)), tail)
             = Plus(Plus(Plus(x1, l1), Plus(Plus(l2, dq), tail)), extra)
<1>0. /\ x1 \in Scalars /\ l1 \in Scalars /\ l2 \in Scalars /\ dq \in Scalars
      /\ tail \in Scalars /\ extra \in Scalars /\ ba \in Scalars /\ ab \in Scalars
      /\ cz \in Scalars /\ p \in Scalars
      /\ Plus(l1, l2) = Plus(Plus(ba, ab), cz) /\ Plus(dq, extra) = Plus(p, Minus(cz))
  BY DEF Sides
<1> DEFINE k == Plus(l2, dq)
           h == Plus(x1, l1)
           m == Minus(cz)
           bb == Plus(ba, ab)
<1>1. k \in Scalars /\ h \in Scalars /\ m \in Scalars /\ bb \in Scalars /\ Plus(tail, extra) \in Scalars
      /\ Plus(k, extra) \in Scalars /\ Plus(l1, l2) \in Scalars /\ Plus(dq, extra) \in Scalars
      /\ Plus(h, k) \in Scalars /\ Plus(k, tail) \in Scalars
  BY <1>0, Closure
<1> HIDE DEF k, h
<1>2. Plus(Plus(h, Plus(k, tail)), extra) = Plus(Plus(h, Plus(k, extra)), tail)
  <2>1. Plus(h, Plus(k, tail)) = Plus(Plus(h, k), tail)
    BY <1>0, <1>1, PlusTurn
  <2>2. Plus(Plus(Plus(h, k), tail), extra) = Plus(Plus(Plus(h, k), extra), tail)
    BY <1>0, <1>1, PlusTurn
  <2>3. Plus(Plus(h, k), extra) = Plus(h, Plus(k, extra))
    BY <1>0, <1>1, PlusTurn
  <2> QED BY <2>1, <2>2, <2>3
<1>3. Plus(k, extra) = Plus(l2, Plus(dq, extra))
  BY <1>0, PlusTurn DEF k
<1>4. Plus(h, Plus(l2, Plus(dq, extra))) = Plus(x1, Plus(Plus(l1, l2), Plus(dq, extra)))
  <2> DEFINE e == Plus(dq, extra)
  <2>1. e \in Scalars /\ Plus(l2, e) \in Scalars
    BY <1>0, <1>1, Closure
  <2> HIDE DEF e
  <2>2. Plus(Plus(x1, l1), Plus(l2, e)) = Plus(x1, Plus(l1, Plus(l2, e)))
    BY <1>0, <2>1, PlusTurn
  <2>3. Plus(l1, Plus(l2, e)) = Plus(Plus(l1, l2), e)
    BY <1>0, <2>1, PlusTurn
  <2> QED BY <1>0, <2>2, <2>3 DEF e, h
<1>5. Plus(Plus(bb, cz), Plus(p, m)) = Plus(bb, p)
  <2>1. Plus(Plus(bb, cz), Plus(p, m)) = Plus(Plus(bb, p), Plus(cz, m))
    BY <1>0, <1>1, PlusSwap
  <2>2. Plus(cz, m) = Zero /\ Plus(bb, p) \in Scalars
    BY <1>0, <1>1, PlusZero, Closure
  <2> QED BY <1>0, <2>1, <2>2, PlusZero
<1>6. Plus(x1, Plus(bb, p)) = Plus(Plus(x1, ab), Plus(ba, p))
  <2>1. bb = Plus(ab, ba)
    BY <1>0, PlusLaws
  <2>2. Plus(ba, p) \in Scalars
    BY <1>0, Closure
  <2>3. Plus(Plus(ab, ba), p) = Plus(ab, Plus(ba, p))
    BY <1>0, PlusTurn
  <2>4. Plus(x1, Plus(ab, Plus(ba, p))) = Plus(Plus(x1, ab), Plus(ba, p))
    BY <1>0, <2>2, PlusTurn
  <2> QED BY <1>0, <2>1, <2>3, <2>4
<1> QED BY <1>0, <1>2, <1>3, <1>4, <1>5, <1>6 DEF k, h

\* A proof whose quotient part makes up for A B - C, save for extra, solves the equation.
ProofInputs(c, t, w, z, r, s, q, extra) ==
    /\ KeyInputs(c, t, w) /\ z \in c.assignments
    /\ {r, s, q, extra} \subseteq Scalars
    /\ Plus(Times(q, w.delta), extra)
         = Plus(Times(Dot(Cols(c), ColumnsAt(c, c.a, t), z), Dot(Cols(c), ColumnsAt(c, c.b, t), z)),
                Minus(Dot(Cols(c), ColumnsAt(c, c.c, t), z)))

\* An MSM is an inner product.
LEMMA LinearIs ==
    ASSUME NEW D, NEW f, NEW z, DOMAIN f = D
    PROVE  Linear(f, z) = Dot(D, f, z)
BY DEF Linear, Dot, \otimes

\* A proof verifies exactly when its quotient, over delta, is (A B - C) less what the equation adds.
LEMMA ProofVerifies ==
    ASSUME NEW c, NEW t, NEW w, NEW z, NEW r, NEW s, NEW q, NEW extra,
           ProofInputs(c, t, w, z, r, s, q, extra)
    PROVE  GrothEquation(ProvingKey(c, t, w), c, Statement(c, z),
                         Proof(ProvingKey(c, t, w), z, r, s, q), extra)
<1> DEFINE key == ProvingKey(c, t, w)
           az == Dot(Cols(c), ColumnsAt(c, c.a, t), z)
           bz == Dot(Cols(c), ColumnsAt(c, c.b, t), z)
           cz == Dot(Cols(c), ColumnsAt(c, c.c, t), z)
           lin == LinAt(c, t, w)
           l1 == Plus(Times(lin[0], z[0]), Dot(Public(c), lin, z))
           l2 == Dot(Private(c), lin, z)
           x1 == Times(w.alpha, w.beta)
           A == ProofA(key, z, r)
           B == ProofB(key, z, s)
           dr == Times(w.delta, r)
           ds == Times(w.delta, s)
           pA == Plus(w.alpha, az)
           pB == Plus(w.beta, bz)
           lq == Linear(key.l, z)
           C == Plus(Plus(Plus(Plus(lq, q), Times(A, s)), Times(B, r)), Minus(Times(dr, s)))
           tail == Plus(Plus(Times(A, ds), Times(B, dr)), Minus(Times(dr, ds)))
           I == InputSum(key, c, Statement(c, z))
<1>1. /\ KeyInputs(c, t, w) /\ c \in Circuits /\ z \in c.assignments
      /\ r \in Scalars /\ s \in Scalars /\ q \in Scalars /\ extra \in Scalars
      /\ w.alpha \in Scalars /\ w.beta \in Scalars /\ w.gamma \in Scalars /\ w.delta \in Scalars
      /\ w.delta # Zero
      /\ Plus(Times(q, w.delta), extra) = Plus(Times(az, bz), Minus(cz))
  BY DEF ProofInputs, KeyInputs
<1>2. /\ z \in [Cols(c) -> Scalars] /\ IsFiniteSet(Cols(c))
  BY <1>1, AssignmentKit, CircuitKit
<1>3. /\ key.a = ColumnsAt(c, c.a, t) /\ key.b = ColumnsAt(c, c.b, t)
      /\ key.alpha = w.alpha /\ key.beta = w.beta /\ key.gamma = w.gamma /\ key.delta = w.delta
      /\ key.l = KeyL(c, t, w)
      /\ lin \in [Cols(c) -> Scalars]
      /\ ColumnsAt(c, c.a, t) \in [Cols(c) -> Scalars]
      /\ ColumnsAt(c, c.b, t) \in [Cols(c) -> Scalars]
      /\ ColumnsAt(c, c.c, t) \in [Cols(c) -> Scalars]
  BY <1>1, KeyIs
<1>4. az \in Scalars /\ bz \in Scalars /\ cz \in Scalars
  <2> HIDE DEF key, lin
  <2> QED BY <1>2, <1>3, DotType
<1>5. Linear(key.a, z) = az /\ Linear(key.b, z) = bz
  BY <1>3, LinearIs
<1>6. lq \in Scalars /\ Times(lq, w.delta) = l2
  <2> DEFINE P == Private(c)
             d == w.delta
             x == Cut(P, lin)
             y == Cut(P, z)
             f == [j \in P |-> Times(x[j], Reciprocal(d))]
  <2>1. P \subseteq Cols(c) /\ IsFiniteSet(P)
    BY <1>1, ColumnKit
  <2>2. x \in [P -> Scalars] /\ y \in [P -> Scalars]
    <3> HIDE DEF lin, P
    <3> QED BY <1>2, <1>3, <2>1, CutType
  <2>3. key.l = f
    <3> HIDE DEF key
    <3> QED BY <1>3 DEF KeyL, Cut
  <2>4. DOMAIN f = P
    OBVIOUS
  <2>5. lq = Dot(P, f, z)
    <3>1. lq = Linear(f, z)
      BY <2>3
    <3> HIDE DEF f, lq, P
    <3> QED BY <2>4, <3>1, LinearIs
  <2>6. Dot(P, f, z) = Dot(P, f, y)
    BY DotCut
  <2>7. Dot(P, x, y) = l2
    BY DotCut
  <2> HIDE DEF x, y, lq, key, d, P, l2
  <2>8. d \in Scalars /\ d # Zero
    BY <1>1 DEF d
  <2>9. Dot(P, f, y) \in Scalars /\ Times(Dot(P, f, y), d) = Dot(P, x, y)
    BY <2>1, <2>2, <2>8, Divided
  <2> QED BY <2>5, <2>6, <2>7, <2>9 DEF d
<1>7. I \in Scalars /\ Times(I, w.gamma) = l1
  BY <1>1, InputSumIs
<1>8. l1 \in Scalars /\ l2 \in Scalars
      /\ Plus(l1, l2) = Plus(Plus(Times(w.beta, az), Times(w.alpha, bz)), cz)
  <2>1. Dot(Cols(c), lin, z) = Plus(Plus(Times(w.beta, az), Times(w.alpha, bz)), cz)
    BY <1>1, <1>2, LinCombines
  <2>2. Dot(Cols(c), lin, z) = Plus(l1, l2) /\ Dot(Public(c), lin, z) \in Scalars /\ l2 \in Scalars
    <3> HIDE DEF lin
    <3> QED BY <1>1, <1>2, <1>3, ColumnsSplit
  <2>3. l1 \in Scalars
    <3>1. lin[0] \in Scalars /\ z[0] \in Scalars
      <4>1. 0 \in Cols(c)
        BY <1>1, ColumnKit
      <4> HIDE DEF lin
      <4> QED BY <1>2, <1>3, <4>1
    <3> HIDE DEF lin
    <3> QED BY <2>2, <3>1, Closure
  <2> HIDE DEF az, bz, cz, lin, l1, l2
  <2> QED BY <2>1, <2>2, <2>3
<1>9. A = Plus(pA, dr) /\ B = Plus(pB, ds)
  <2> HIDE DEF az, bz, key
  <2> QED BY <1>3, <1>5 DEF ProofA, ProofB, \oplus, \otimes
<1>10. Proof(key, z, r, s, q).a = A /\ Proof(key, z, r, s, q).b = B /\ Proof(key, z, r, s, q).c = C
  <2> HIDE DEF az, bz, key, A, B, lq
  <2> QED BY <1>3 DEF Proof, A, B, lq, \oplus, \otimes
<1> HIDE DEF key, az, bz, cz, lin, l1, l2, A, B, lq, I
<1>11. pA \in Scalars /\ pB \in Scalars /\ dr \in Scalars /\ ds \in Scalars /\ x1 \in Scalars
  BY <1>1, <1>4, Closure
<1>12. A \in Scalars /\ B \in Scalars
  BY <1>9, <1>11, Closure
<1>13. Times(A, ds) \in Scalars /\ Times(B, dr) \in Scalars /\ Times(dr, ds) \in Scalars
       /\ Times(A, s) \in Scalars /\ Times(B, r) \in Scalars /\ Times(dr, s) \in Scalars
       /\ Minus(Times(dr, ds)) \in Scalars /\ Minus(Times(dr, s)) \in Scalars
       /\ tail \in Scalars
  <2> HIDE DEF dr, ds
  <2> QED BY <1>1, <1>11, <1>12, Closure
<1>14. Times(C, w.delta) = Plus(Plus(l2, Times(q, w.delta)), tail)
  <2> DEFINE d == w.delta
             n == Minus(Times(dr, s))
  <2>1. d \in Scalars
    BY <1>1
  <2>2. Times(Times(A, s), d) = Times(A, ds) /\ Times(Times(B, r), d) = Times(B, dr)
    <3> HIDE DEF d
    <3>1. Times(s, d) = Times(d, s) /\ Times(r, d) = Times(d, r)
      BY <1>1, <2>1, TimesLaws
    <3>2. Times(Times(A, s), d) = Times(A, Times(s, d)) /\ Times(Times(B, r), d) = Times(B, Times(r, d))
      BY <1>1, <1>12, <2>1, TimesLaws
    <3> QED BY <3>1, <3>2 DEF d
  <2>3. Times(n, d) = Minus(Times(dr, ds))
    <3> DEFINE e == Times(dr, s)
    <3>1. e \in Scalars
      BY <1>13
    <3>2. Times(e, d) = Times(dr, ds)
      <4> HIDE DEF d, dr
      <4>1. Times(Times(dr, s), d) = Times(dr, Times(s, d)) /\ Times(s, d) = Times(d, s)
        BY <1>1, <1>11, <2>1, TimesLaws
      <4> QED BY <4>1 DEF d
    <3> HIDE DEF e, d
    <3>3. Times(Minus(e), d) = Minus(Times(e, d))
      BY <2>1, <3>1, MinusTimes
    <3> QED BY <3>2, <3>3 DEF e
  <2> DEFINE u == Times(A, s)
             v == Times(B, r)
  <2>4. u \in Scalars /\ v \in Scalars /\ n \in Scalars
    BY <1>13
  <2>5. Times(u, d) = Times(A, ds) /\ Times(v, d) = Times(B, dr)
    BY <2>2
  <2> HIDE DEF d, n, u, v
  <2>6. Times(Plus(Plus(Plus(Plus(lq, q), u), v), n), d)
          = Plus(Plus(Times(lq, d), Times(q, d)), Plus(Plus(Times(u, d), Times(v, d)), Times(n, d)))
    <3>1. Six(lq, q, u, v, n, d)
      BY <1>1, <1>6, <2>1, <2>4 DEF Six
    <3> QED BY <3>1, TimesFive
  <2> QED BY <1>6, <2>3, <2>5, <2>6 DEF d, n, u, v
<1>15. Times(A, B) = Plus(Times(pA, pB), tail)
  <2> HIDE DEF dr, ds, pA, pB
  <2> QED BY <1>9, <1>11, Expand
<1>16. Times(pA, pB) = Plus(Plus(x1, Times(w.alpha, bz)), Plus(Times(w.beta, az), Times(az, bz)))
  <2> DEFINE p == w.alpha
             k == w.beta
  <2>1. p \in Scalars /\ k \in Scalars
    BY <1>1
  <2> HIDE DEF p, k
  <2>2. Times(Plus(p, az), Plus(k, bz)) = Plus(Times(p, Plus(k, bz)), Times(az, Plus(k, bz)))
    BY <1>4, <2>1, Closure, Distributes
  <2>3. Times(p, Plus(k, bz)) = Plus(Times(p, k), Times(p, bz))
    BY <1>4, <2>1, TimesPlus
  <2>4. Times(az, Plus(k, bz)) = Plus(Times(az, k), Times(az, bz)) /\ Times(az, k) = Times(k, az)
    BY <1>4, <2>1, TimesPlus, TimesLaws
  <2> QED BY <2>2, <2>3, <2>4 DEF p, k
<1> DEFINE ba == Times(w.beta, az)
           ab == Times(w.alpha, bz)
           p == Times(az, bz)
           dq == Times(q, w.delta)
<1>17. ba \in Scalars /\ ab \in Scalars /\ p \in Scalars /\ dq \in Scalars
  BY <1>1, <1>4, Closure
<1>18. Times(A, B) = Plus(Plus(Plus(x1, ab), Plus(ba, p)), tail)
  BY <1>15, <1>16
<1>19. Plus(l1, l2) = Plus(Plus(ba, ab), cz) /\ Plus(dq, extra) = Plus(p, Minus(cz))
  BY <1>1, <1>8
<1>20. Times(C, w.delta) = Plus(Plus(l2, dq), tail)
  BY <1>14
<1> HIDE DEF ba, ab, p, dq, x1, tail, C, pA, pB, dr, ds
<1>21. Plus(Plus(Plus(x1, ab), Plus(ba, p)), tail)
         = Plus(Plus(Plus(x1, l1), Plus(Plus(l2, dq), tail)), extra)
  <2>1. Sides(x1, l1, l2, dq, tail, extra, ba, ab, cz, p)
    BY <1>1, <1>4, <1>8, <1>11, <1>13, <1>17, <1>19 DEF Sides
  <2> QED BY <2>1, SidesMeet
<1>22. Times(A, B) = Plus(Plus(Plus(x1, Times(I, w.gamma)), Times(C, w.delta)), extra)
  BY <1>7, <1>18, <1>20, <1>21
<1> QED BY <1>3, <1>10, <1>22 DEF GrothEquation, x1, I, key

\* h is cut to the length of h_query: its last coefficient is zero.
LEMMA StandardQuotient ==
    ASSUME NEW c, NEW t, NEW w, KeyInputs(c, t, w), NEW z \in c.assignments
    PROVE  /\ Linear(ProvingKey(c, t, w).h, WitnessMap(c, z)) \in Scalars
           /\ Times(Linear(ProvingKey(c, t, w).h, WitnessMap(c, z)), w.delta)
                = Plus(Times(Dot(Cols(c), ColumnsAt(c, c.a, t), z), Dot(Cols(c), ColumnsAt(c, c.b, t), z)),
                       Minus(Dot(Cols(c), ColumnsAt(c, c.c, t), z)))
<1> DEFINE n == DomainSize(c)
           D == Domain(n)
           H == 0 .. n - 2
           Q == QuotientIs(c, z)
           p == Powers(n, t)
           l == LagrangeAt(n, t)
           v == [i \in D |-> Times(Q[i], p[i])]
           zt == Vanishing(n, t)
           i == Reciprocal(w.delta)
           e == Times(zt, i)
           h == KeyH(c, t, w)
           pH == Cut(H, p)
           qH == Cut(H, Q)
           d == w.delta
<1>1. /\ c \in Circuits /\ t \in Scalars /\ zt # Zero /\ d \in Scalars /\ d # Zero
  BY DEF KeyInputs
<1>2. /\ n \in DomainSizes /\ n \in Nat \ {0} /\ IsFiniteSet(D)
      /\ z \in [Cols(c) -> Scalars]
      /\ c.a \in MatrixOf(c) /\ c.b \in MatrixOf(c) /\ c.c \in MatrixOf(c)
  BY <1>1, CircuitKit, AssignmentKit DEF MatrixOf
<1>3. /\ Q \in [D -> Scalars] /\ Q[n - 1] = Zero
      /\ Left(c, z) \in [D -> Scalars] /\ Right(c, z) \in [D -> Scalars]
      /\ Padded(c, OnDomain(c, c.c, z)) = Products(D, Left(c, z), Right(c, z))
  BY <1>1, SidesType
<1>4. zt \in Scalars /\ l \in [D -> Scalars] /\ p \in [D -> Scalars]
  <2> HIDE DEF n
  <2>1. zt \in Scalars /\ l \in [D -> Scalars]
    BY <1>1, <1>2, OffDomain
  <2>2. p \in [D -> Scalars]
    BY <1>1, <1>2, <1>3, Evaluates DEF n
  <2> QED BY <2>1, <2>2
<1>5. i \in Scalars /\ Times(i, d) = One
  BY <1>1, ReciprocalNonZero
<1>6. H \subseteq D /\ D \ H = {n - 1} /\ IsFiniteSet(H)
  <2>1. H \subseteq D /\ D \ H = {n - 1}
    BY <1>2 DEF Domain
  <2> HIDE DEF H, D
  <2> QED BY <1>2, <2>1, FS_Subset
<1>7. pH \in [H -> Scalars] /\ qH \in [H -> Scalars]
  <2> HIDE DEF p, Q, H, D
  <2> QED BY <1>3, <1>4, <1>6, CutType
<1>8. e \in Scalars
  <2> HIDE DEF zt, i
  <2> QED BY <1>4, <1>5, Closure
<1>9. h \in [H -> Scalars] /\ IsScaled(H, h, pH, e) /\ DOMAIN h = H
  <2>1. \A k \in H : h[k] = Times(e, pH[k])
    BY <1>6 DEF KeyH, Cut, Powers
  <2>2. h = [k \in H |-> h[k]] /\ DOMAIN h = H
    BY DEF KeyH
  <2>3. \A k \in H : h[k] \in Scalars
    <3> HIDE DEF e, pH, h, H
    <3> QED BY <1>7, <1>8, <2>1, Closure
  <2> HIDE DEF e, pH, h, H
  <2> QED BY <2>1, <2>2, <2>3 DEF IsScaled
<1>10. Linear(h, WitnessMap(c, z)) = Dot(H, h, qH)
  <2>1. Linear(h, WitnessMap(c, z)) = Dot(H, h, WitnessMap(c, z))
    <3> HIDE DEF h, H
    <3> QED BY <1>9, LinearIs
  <2>2. WitnessMap(c, z) = Q
    BY <1>1, WitnessMapIs
  <2>3. Dot(H, h, Q) = Dot(H, h, qH)
    BY DotCut
  <2> HIDE DEF h, H, Q, qH
  <2> QED BY <2>1, <2>2, <2>3
<1>11. Dot(D, Q, p) = Dot(H, pH, qH)
  <2>1. v \in [D -> Scalars]
    <3> HIDE DEF Q, p, D
    <3> QED BY <1>3, <1>4, DotTerms
  <2>2. \A k \in D \ H : v[k] = Zero
    <3> TAKE k \in D \ H
    <3>1. k = n - 1 /\ k \in D
      <4> HIDE DEF D, H, n
      <4> QED BY <1>6
    <3>2. v[k] = Times(Q[k], p[k]) /\ p[k] \in Scalars /\ Q[k] = Zero
      <4> HIDE DEF p, Q, n
      <4> QED BY <1>3, <1>4, <3>1
    <3> HIDE DEF v, p, Q
    <3> QED BY <3>2, TimesZero
  <2>3. Dot(D, Q, p) = Total(v)
    BY DEF Dot
  <2>4. Part(v, H) = Dot(H, Q, p)
    <3>1. [k \in H |-> v[k]] = [k \in H |-> Times(Q[k], p[k])]
      BY <1>6
    <3> HIDE DEF v, Q, p, H
    <3> QED BY <3>1 DEF Part, Dot
  <2>5. Dot(H, Q, p) = Dot(H, qH, pH)
    <3>1. Dot(H, Q, p) = Dot(H, qH, p) /\ Dot(H, qH, p) = Dot(H, qH, pH)
      BY DotCut
    <3> QED BY <3>1
  <2>6. Dot(H, qH, pH) = Dot(H, pH, qH)
    <3> HIDE DEF qH, pH, H
    <3> QED BY <1>6, <1>7, DotFlip
  <2> HIDE DEF v, Q, p, H, D, qH, pH
  <2>7. Total(v) = Part(v, H)
    BY <1>2, <1>6, <2>1, <2>2, AllSupport
  <2> QED BY <2>3, <2>4, <2>5, <2>6, <2>7
<1>12. Dot(H, h, qH) = Times(e, Dot(H, pH, qH)) /\ Dot(H, h, qH) \in Scalars /\ Dot(H, pH, qH) \in Scalars
  <2> HIDE DEF h, qH, pH, H, e
  <2> QED BY <1>6, <1>7, <1>8, <1>9, DotScale, DotType
<1>13. Times(Dot(H, h, qH), d) = Times(zt, Dot(D, Q, p))
  <2> DEFINE y == Dot(H, pH, qH)
  <2> HIDE DEF y, zt, i, d
  <2>1. y \in Scalars /\ zt \in Scalars /\ i \in Scalars /\ d \in Scalars /\ Times(i, d) = One
    BY <1>1, <1>4, <1>5, <1>12 DEF y
  <2>2. Times(Times(Times(zt, i), y), d) = Times(zt, y)
    <3>1. Times(Times(zt, i), y) = Times(Times(zt, y), i) /\ Times(zt, y) \in Scalars
      BY <2>1, TimesRotate, Closure
    <3>2. Times(Times(Times(zt, y), i), d) = Times(Times(zt, y), Times(i, d))
      BY <2>1, <3>1, TimesLaws
    <3> QED BY <2>1, <3>1, <3>2, TimesLaws
  <2> HIDE DEF Q, p, H, D, qH, pH, h
  <2> QED BY <1>11, <1>12, <2>2 DEF y
<1>14. Times(zt, Dot(D, Q, p))
         = Plus(Times(Dot(D, Left(c, z), l), Dot(D, Right(c, z), l)),
                Minus(Dot(D, Products(D, Left(c, z), Right(c, z)), l)))
  <2>1. Q = QuotientOf(n, Left(c, z), Right(c, z))
    BY DEF QuotientIs
  <2> HIDE DEF n, Q
  <2> QED BY <1>1, <1>2, <1>3, <2>1, Division
<1>15. /\ Dot(Cols(c), ColumnsAt(c, c.a, t), z) = Dot(D, Left(c, z), l)
       /\ Dot(Cols(c), ColumnsAt(c, c.b, t), z) = Dot(D, Right(c, z), l)
       /\ Dot(Cols(c), ColumnsAt(c, c.c, t), z) = Dot(D, Products(D, Left(c, z), Right(c, z)), l)
  <2>1. Dot(Cols(c), ColumnsAt(c, c.a, t), z) = Dot(D, Left(c, z), l)
    BY <1>1, <1>2, ColumnsCombine DEF Left
  <2>2. Dot(Cols(c), ColumnsAt(c, c.b, t), z) = Dot(D, Right(c, z), l)
    BY <1>1, <1>2, ColumnsCombine DEF Right
  <2>3. Dot(Cols(c), ColumnsAt(c, c.c, t), z) = Dot(D, Padded(c, OnDomain(c, c.c, z)), l)
    BY <1>1, <1>2, ColumnsCombine
  <2> QED BY <1>3, <2>1, <2>2, <2>3
<1>16. ProvingKey(c, t, w).h = h
  BY KeyIs
<1> HIDE DEF n, D, H, Q, p, l, v, zt, i, e, h, pH, qH
<1> QED BY <1>10, <1>12, <1>13, <1>14, <1>15, <1>16

\* A proof of the standard prover satisfies the Groth16 equation.
LEMMA StandardEquation ==
    ASSUME NEW c, NEW t, NEW w, KeyInputs(c, t, w), NEW z \in c.assignments,
           NEW r \in Scalars, NEW s \in Scalars
    PROVE  GrothEquation(ProvingKey(c, t, w), c, Statement(c, z),
                         StandardProof(ProvingKey(c, t, w), WitnessMap(c, z), z, r, s), Zero)
<1> DEFINE q == Linear(ProvingKey(c, t, w).h, WitnessMap(c, z))
           p == Plus(Times(Dot(Cols(c), ColumnsAt(c, c.a, t), z), Dot(Cols(c), ColumnsAt(c, c.b, t), z)),
                     Minus(Dot(Cols(c), ColumnsAt(c, c.c, t), z)))
<1>1. q \in Scalars /\ Times(q, w.delta) = p
  BY StandardQuotient
<1>2. Zero \in Scalars /\ w.delta \in Scalars
  BY Closure DEF KeyInputs
<1>3. StandardProof(ProvingKey(c, t, w), WitnessMap(c, z), z, r, s) = Proof(ProvingKey(c, t, w), z, r, s, q)
  BY DEF StandardProof
<1> HIDE DEF q
<1>4. Plus(Times(q, w.delta), Zero) = Times(q, w.delta)
  BY <1>1, <1>2, Closure, PlusZero
<1>5. ProofInputs(c, t, w, z, r, s, q, Zero)
  BY <1>1, <1>2, <1>4 DEF ProofInputs
<1>6. GrothEquation(ProvingKey(c, t, w), c, Statement(c, z), Proof(ProvingKey(c, t, w), z, r, s, q), Zero)
  BY <1>5, ProofVerifies
<1> QED BY <1>3, <1>6

--------------------------------------------------------------------------------
(***************************************************************************)
(* parallel_fft: the butterflies compute the transform.                    *)
(***************************************************************************)
\* The size of a domain is a power of two.
LEMMA LogSizeIs ==
    ASSUME NEW n \in DomainSizes
    PROVE  LogSize(n) \in Nat /\ n = TwoTo(LogSize(n))
<1>1. \E l \in 0 .. n : n = TwoTo(l)
  BY SizesAssumption
<1>2. LogSize(n) \in 0 .. n /\ n = TwoTo(LogSize(n))
  BY <1>1 DEF LogSize
<1>3. n \in Nat
  BY RootKit
<1> QED BY <1>2, <1>3

\* Bit reversals.
Reversal(s, f) == [k \in 0 .. TwoTo(s) - 1 |-> (k % 2) * TwoTo(s - 1) + f[k \div 2]]
IsReversal(r, l) == r = [s \in 0 .. l |-> IF s = 0 THEN [k \in {0} |-> 0] ELSE Reversal(s, r[s - 1])]

\* The recursion behind Reversed is well defined,
LEMMA ReversalExists ==
    ASSUME NEW l \in Nat
    PROVE  \E r : IsReversal(r, l)
<1> DEFINE Good == {m \in Nat : \E r : IsReversal(r, m)}
<1>1. 0 \in Good
  <2> DEFINE r == [s \in 0 .. 0 |-> [k \in {0} |-> 0]]
  <2>1. IsReversal(r, 0)
    <3>1. \A s \in 0 .. 0 : s = 0
      OBVIOUS
    <3> QED BY <3>1 DEF IsReversal
  <2> QED BY <2>1
<1>2. ASSUME NEW m \in Nat, m \in Good PROVE m + 1 \in Good
  <2>1. PICK g : IsReversal(g, m)
    BY <1>2
  <2> DEFINE r == [s \in 0 .. m + 1 |-> IF s <= m THEN g[s] ELSE Reversal(s, g[m])]
  <2>2. \A s \in 0 .. m : g[s] = IF s = 0 THEN [k \in {0} |-> 0] ELSE Reversal(s, g[s - 1])
    BY <2>1 DEF IsReversal
  <2>3. \A s \in 0 .. m + 1 : r[s] = IF s = 0 THEN [k \in {0} |-> 0] ELSE Reversal(s, r[s - 1])
    <3> TAKE s \in 0 .. m + 1
    <3>1. CASE s = 0
      BY <2>2, <3>1
    <3>2. CASE s # 0 /\ s <= m
      <4>1. s - 1 \in 0 .. m + 1 /\ s - 1 <= m /\ s \in 0 .. m
        BY <3>2
      <4>2. r[s - 1] = g[s - 1] /\ r[s] = g[s]
        BY <3>2, <4>1
      <4> HIDE DEF r
      <4> QED BY <2>2, <3>2, <4>1, <4>2
    <3>3. CASE ~ (s <= m)
      <4>1. s - 1 = m /\ m \in 0 .. m + 1 /\ m <= m /\ s # 0
        BY <3>3
      <4>2. r[m] = g[m] /\ r[s] = Reversal(s, g[m])
        BY <3>3, <4>1
      <4> HIDE DEF r
      <4> QED BY <4>1, <4>2
    <3> QED BY <3>1, <3>2, <3>3
  <2>4. r = [s \in 0 .. m + 1 |-> r[s]]
    OBVIOUS
  <2>5. IsReversal(r, m + 1)
    <3> HIDE DEF r
    <3> QED BY <2>3, <2>4 DEF IsReversal
  <2> QED BY <2>5
<1> HIDE DEF Good
<1>3. Nat \subseteq Good
  BY <1>1, <1>2, SetInduction
<1> QED BY <1>3 DEF Good

\* has Reversed as its last value,
LEMMA ReversedIs ==
    ASSUME NEW l \in Nat
    PROVE  \E r : IsReversal(r, l) /\ Reversed(l) = r[l]
<1> DEFINE r == CHOOSE r : IsReversal(r, l)
<1>1. IsReversal(r, l)
  BY ReversalExists
<1>2. Reversed(l) = r[l]
  BY DEF Reversed, IsReversal, Reversal
<1> QED BY <1>1, <1>2

\* and adds a bit at a time.
LEMMA ReversedLaws ==
    /\ Reversed(0) = [k \in {0} |-> 0]
    /\ \A l \in Nat : Reversed(l + 1) = Reversal(l + 1, Reversed(l))
<1>1. ASSUME NEW l \in Nat, NEW r, IsReversal(r, l), NEW s \in 0 .. l
      PROVE  r[s] = IF s = 0 THEN [k \in {0} |-> 0] ELSE Reversal(s, r[s - 1])
  BY <1>1 DEF IsReversal
<1>2. Reversed(0) = [k \in {0} |-> 0]
  <2>1. PICK r : IsReversal(r, 0) /\ Reversed(0) = r[0]
    BY ReversedIs
  <2>2. 0 \in 0 .. 0
    OBVIOUS
  <2>3. r[0] = IF 0 = 0 THEN [k \in {0} |-> 0] ELSE Reversal(0, r[0 - 1])
    BY <1>1, <2>1, <2>2
  <2> QED BY <2>1, <2>3
<1>3. ASSUME NEW l \in Nat PROVE Reversed(l + 1) = Reversal(l + 1, Reversed(l))
  <2>1. PICK r : IsReversal(r, l + 1) /\ Reversed(l + 1) = r[l + 1]
    BY ReversedIs
  <2>2. PICK g : IsReversal(g, l) /\ Reversed(l) = g[l]
    BY ReversedIs
  <2> DEFINE Good == {i \in Nat : i <= l => g[i] = r[i]}
  <2>3. 0 \in Good
    <3>1. 0 \in 0 .. l /\ 0 \in 0 .. l + 1 /\ l + 1 \in Nat
      OBVIOUS
    <3>2. g[0] = [k \in {0} |-> 0] /\ r[0] = [k \in {0} |-> 0]
      BY <1>1, <2>1, <2>2, <3>1
    <3> QED BY <3>2
  <2>4. ASSUME NEW i \in Nat, i \in Good PROVE i + 1 \in Good
    <3>1. CASE i + 1 <= l
      <4>1. i + 1 \in 0 .. l /\ i + 1 \in 0 .. l + 1 /\ (i + 1) - 1 = i /\ i <= l /\ i + 1 # 0
            /\ l + 1 \in Nat
        BY <3>1
      <4>2. g[i + 1] = Reversal(i + 1, g[i]) /\ r[i + 1] = Reversal(i + 1, r[i])
        <5>1. g[i + 1] = IF i + 1 = 0 THEN [k \in {0} |-> 0] ELSE Reversal(i + 1, g[(i + 1) - 1])
          BY <1>1, <2>2, <4>1
        <5>2. r[i + 1] = IF i + 1 = 0 THEN [k \in {0} |-> 0] ELSE Reversal(i + 1, r[(i + 1) - 1])
          BY <1>1, <2>1, <4>1
        <5> QED BY <4>1, <5>1, <5>2
      <4> QED BY <2>4, <4>1, <4>2
    <3> QED BY <3>1
  <2>5. l \in Good
    <3> HIDE DEF Good
    <3>1. Nat \subseteq Good
      BY <2>3, <2>4, SetInduction
    <3> QED BY <3>1
  <2>6. r[l + 1] = Reversal(l + 1, r[l])
    <3>1. l + 1 \in 0 .. l + 1 /\ (l + 1) - 1 = l /\ l + 1 # 0 /\ l + 1 \in Nat
      OBVIOUS
    <3>2. r[l + 1] = IF l + 1 = 0 THEN [k \in {0} |-> 0] ELSE Reversal(l + 1, r[(l + 1) - 1])
      BY <1>1, <2>1, <3>1
    <3> QED BY <3>1, <3>2
  <2> QED BY <2>1, <2>2, <2>5, <2>6
<1> QED BY <1>2, <1>3

\* A place in a table of rows.
LEMMA IndexBound ==
    ASSUME NEW m \in Nat, NEW h \in Nat, NEW j \in 0 .. m - 1, NEW i \in 0 .. h - 1
    PROVE  j * h + i \in 0 .. m * h - 1
<1>1. j * h \in Nat /\ j + 1 <= m /\ m - (j + 1) \in Nat
  OBVIOUS
<1>2. (m - (j + 1)) * h \in Nat
  BY <1>1
<1>3. m * h = (m - (j + 1)) * h + (j * h + h)
  OBVIOUS
<1>4. m * h \in Nat
  OBVIOUS
<1> QED BY <1>1, <1>2, <1>3, <1>4

\* A reversed index is an index.
LEMMA ReversedType ==
    ASSUME NEW l \in Nat
    PROVE  Reversed(l) \in [0 .. TwoTo(l) - 1 -> 0 .. TwoTo(l) - 1]
<1> DEFINE Good == {i \in Nat : Reversed(i) \in [0 .. TwoTo(i) - 1 -> 0 .. TwoTo(i) - 1]}
<1>1. 0 \in Good
  <2>1. TwoTo(0) - 1 = 0 /\ 0 .. 0 = {0}
    BY TwoToLaws
  <2>2. Reversed(0) \in [{0} -> {0}]
    BY ReversedLaws
  <2> QED BY <2>1, <2>2
<1>2. ASSUME NEW i \in Nat, i \in Good PROVE i + 1 \in Good
  <2> DEFINE m == TwoTo(i)
             f == Reversed(i)
  <2>1. m \in Nat \ {0} /\ TwoTo(i + 1) = 2 * m /\ f \in [0 .. m - 1 -> 0 .. m - 1]
    BY <1>2, TwoToLaws
  <2>2. Reversed(i + 1) = Reversal(i + 1, f) /\ (i + 1) - 1 = i
    BY ReversedLaws
  <2>3. Reversed(i + 1) = [k \in 0 .. 2 * m - 1 |-> (k % 2) * m + f[k \div 2]]
    BY <2>1, <2>2 DEF Reversal
  <2> HIDE DEF m, f
  <2>4. ASSUME NEW k \in 0 .. 2 * m - 1
        PROVE  (k % 2) * m + f[k \div 2] \in 0 .. 2 * m - 1
    <3>1. k \div 2 \in 0 .. m - 1 /\ k % 2 \in {0, 1}
      BY <2>1
    <3>2. f[k \div 2] \in 0 .. m - 1
      BY <2>1, <3>1
    <3> DEFINE e == f[k \div 2]
               d == k % 2
    <3>3. e \in 0 .. m - 1 /\ d \in {0, 1} /\ m \in Nat
      BY <2>1, <3>1, <3>2
    <3> HIDE DEF e, d
    <3>4. d * m + e \in 0 .. 2 * m - 1
      <4>1. CASE d = 0
        BY <3>3, <4>1
      <4>2. CASE d = 1
        BY <3>3, <4>2
      <4> QED BY <3>3, <4>1, <4>2
    <3> QED BY <3>4 DEF e, d
  <2>5. Reversed(i + 1) \in [0 .. TwoTo(i + 1) - 1 -> 0 .. TwoTo(i + 1) - 1]
    BY <2>1, <2>3, <2>4
  <2> QED BY <2>5
<1> HIDE DEF Good
<1>3. Nat \subseteq Good
  BY <1>1, <1>2, SetInduction
<1> QED BY <1>3 DEF Good

\* Even places go to the lower half, odd ones to the upper.
LEMMA ReversedHalves ==
    ASSUME NEW l \in Nat, NEW q \in 0 .. TwoTo(l) - 1
    PROVE  /\ Reversed(l + 1)[2 * q] = Reversed(l)[q]
           /\ Reversed(l + 1)[2 * q + 1] = TwoTo(l) + Reversed(l)[q]
           /\ Reversed(l)[q] \in 0 .. TwoTo(l) - 1
<1> DEFINE m == TwoTo(l)
           f == Reversed(l)
<1>1. m \in Nat \ {0} /\ TwoTo(l + 1) = 2 * m /\ f \in [0 .. m - 1 -> 0 .. m - 1]
  BY TwoToLaws, ReversedType
<1>2. Reversed(l + 1) = [k \in 0 .. 2 * m - 1 |-> (k % 2) * m + f[k \div 2]]
  <2>1. Reversed(l + 1) = Reversal(l + 1, f) /\ (l + 1) - 1 = l
    BY ReversedLaws
  <2> QED BY <1>1, <2>1 DEF Reversal
<1>3. q \in 0 .. m - 1
  OBVIOUS
<1> HIDE DEF m, f
<1>4. 2 * q \in 0 .. 2 * m - 1 /\ 2 * q + 1 \in 0 .. 2 * m - 1
      /\ (2 * q) % 2 = 0 /\ (2 * q) \div 2 = q /\ (2 * q + 1) % 2 = 1 /\ (2 * q + 1) \div 2 = q
  BY <1>1, <1>3
<1>5. f[q] \in 0 .. m - 1 /\ 0 * m + f[q] = f[q] /\ 1 * m + f[q] = m + f[q]
  BY <1>1, <1>3
<1> QED BY <1>1, <1>2, <1>4, <1>5 DEF m, f

\* The even and the odd places of a vector.
Evens(m, w) == [p \in Domain(m) |-> w[2 * p]]
Odds(m, w) == [p \in Domain(m) |-> w[2 * p + 1]]

\* A sum over even and odd places.
LEMMA EvenOdd ==
    ASSUME NEW m \in Nat, NEW w \in [Domain(2 * m) -> Scalars]
    PROVE  /\ Total(w) = Plus(Total(Evens(m, w)), Total(Odds(m, w)))
           /\ Evens(m, w) \in [Domain(m) -> Scalars] /\ Odds(m, w) \in [Domain(m) -> Scalars]
<1> DEFINE D == Domain(2 * m)
           E == Domain(m)
           s == {k \in D : k % 2 = 0}
           o == D \ s
           ps == [p \in E |-> 2 * p]
           po == [p \in E |-> 2 * p + 1]
           vs == [k \in s |-> w[k]]
           vo == [k \in o |-> w[k]]
<1>1. IsFiniteSet(D) /\ IsFiniteSet(E) /\ s \in SUBSET D /\ o \in SUBSET D
  <2>1. 2 * m \in Nat
    OBVIOUS
  <2> QED BY <2>1, DomainFinite
<1>2. \A p \in E : 2 * p \in s /\ 2 * p + 1 \in o /\ 2 * p \in D /\ 2 * p + 1 \in D
  BY DEF Domain
<1>3. \A k \in s : k \div 2 \in E /\ 2 * (k \div 2) = k
  BY DEF Domain
<1>4. \A k \in o : k \div 2 \in E /\ 2 * (k \div 2) + 1 = k
  BY DEF Domain
<1>5. Evens(m, w) \in [E -> Scalars] /\ Odds(m, w) \in [E -> Scalars]
  BY <1>2 DEF Evens, Odds
<1>6. IsFiniteSet(s) /\ IsFiniteSet(o)
  BY <1>1, FS_Subset
<1>7. \A i, j \in E : (2 * i = 2 * j => i = j) /\ (2 * i + 1 = 2 * j + 1 => i = j)
  BY DEF Domain
<1>8. vs \in [s -> Scalars] /\ vo \in [o -> Scalars]
  OBVIOUS
<1>9. IsRenamed(Evens(m, w), E, vs, s, ps)
  <2>1. ps \in [E -> s] /\ \A k \in s : \E i \in E : ps[i] = k
    BY <1>2, <1>3
  <2>2. \A i \in E : Evens(m, w)[i] = vs[ps[i]]
    BY <1>2 DEF Evens
  <2>3. \A i, j \in E : ps[i] = ps[j] => i = j
    BY <1>7
  <2> HIDE DEF E, s, ps, vs
  <2> QED BY <1>5, <1>8, <2>1, <2>2, <2>3 DEF IsRenamed
<1>10. IsRenamed(Odds(m, w), E, vo, o, po)
  <2>1. po \in [E -> o] /\ \A k \in o : \E i \in E : po[i] = k
    BY <1>2, <1>4
  <2>2. \A i \in E : Odds(m, w)[i] = vo[po[i]]
    BY <1>2 DEF Odds
  <2>3. \A i, j \in E : po[i] = po[j] => i = j
    BY <1>7
  <2> HIDE DEF E, o, po, vo
  <2> QED BY <1>5, <1>8, <2>1, <2>2, <2>3 DEF IsRenamed
<1>11. Total(Evens(m, w)) = Part(w, s) /\ Total(Odds(m, w)) = Part(w, o)
  <2>1. Part(w, s) = Total(vs) /\ Part(w, o) = Total(vo)
    BY DEF Part
  <2> HIDE DEF E, o, s, po, ps, vo, vs
  <2> QED BY <1>1, <1>6, <1>9, <1>10, <2>1, AllRenamed
<1>12. Total(w) = Plus(Part(w, s), Part(w, o))
  <2> HIDE DEF D, s
  <2> QED BY <1>1, AllCut DEF D
<1> QED BY <1>5, <1>11, <1>12

\* The transform of the h-th entries of v from r on, of which there are m.
Block(n, v, h, r, m, e) == [j \in Domain(m) |-> Times(v[j * h + r], Root(n, (h * e) * j))]
Halves(n, v, h, r, m, e) ==
    /\ n \in DomainSizes /\ v \in [Domain(n) -> Scalars]
    /\ m \in Nat \ {0} /\ h \in Nat \ {0} /\ n = 2 * (m * h)
    /\ r \in 0 .. h - 1 /\ e \in Nat

\* The generator to half the size of the domain is -1.
LEMMA HalfRoot ==
    ASSUME NEW n \in DomainSizes, NEW k \in Nat \ {0}, n = 2 * k
    PROVE  Root(n, k) \in Scalars /\ Root(n, k) = Minus(One)
<1> DEFINE x == Root(n, k)
<1>1. x \in Scalars /\ Times(x, x) = One
  <2>1. Root(n, k + k) = Times(Root(n, k), Root(n, k)) /\ Root(n, n) = One /\ k + k = n /\ x \in Scalars
    <3>1. k \in Nat
      OBVIOUS
    <3> QED BY <3>1, RootKit
  <2> QED BY <2>1
<1>2. x # One
  <2>1. k % n = k /\ k \in Nat
    OBVIOUS
  <2> QED BY <2>1, RootMod
<1> HIDE DEF x
<1> DEFINE a == Plus(x, Minus(One))
           b == Plus(x, One)
<1>3. One \in Scalars /\ Minus(One) \in Scalars /\ a \in Scalars /\ b \in Scalars
  BY <1>1, Closure
<1>4. Times(a, b) = Zero
  <2>1. Times(a, b) = Plus(Times(a, x), Times(a, One))
    BY <1>1, <1>3, TimesPlus
  <2>2. Times(a, x) = Plus(Times(x, x), Times(Minus(One), x))
    BY <1>1, <1>3, TimesPlus
  <2>3. Times(Minus(One), x) = Minus(x)
    BY <1>1, <1>3, MinusTimes, TimesLaws
  <2>4. Times(a, One) = a
    BY <1>3, TimesLaws
  <2>5. Times(a, b) = Plus(Plus(One, Minus(x)), Plus(x, Minus(One)))
    BY <1>1, <2>1, <2>2, <2>3, <2>4
  <2>6. Minus(x) \in Scalars
    BY <1>1, Closure
  <2>7. Plus(Plus(One, Minus(x)), Plus(x, Minus(One))) = Plus(Plus(One, Minus(One)), Plus(Minus(x), x))
    <3>1. Plus(x, Minus(One)) = Plus(Minus(One), x)
      BY <1>1, <1>3, PlusLaws
    <3> QED BY <1>1, <1>3, <2>6, <3>1, PlusSwap
  <2>8. Plus(One, Minus(One)) = Zero /\ Plus(Minus(x), x) = Zero
    BY <1>1, <1>3, <2>6, PlusLaws, PlusZero
  <2> QED BY <2>5, <2>7, <2>8, Closure, PlusZero
<1>5. a # Zero
  <2>1. SUFFICES ASSUME a = Zero PROVE FALSE
    OBVIOUS
  <2>2. Plus(a, One) = x
    BY <1>1, <1>3, MinusPlus
  <2> QED BY <1>2, <1>3, <2>1, <2>2, PlusZero
<1>6. b = Zero
  BY <1>3, <1>4, <1>5, TimesNonZero
<1>7. Plus(One, x) = Zero
  BY <1>1, <1>3, <1>6, PlusLaws
<1>8. x = Minus(One)
  BY <1>1, <1>3, <1>7, MinusUnique
<1> QED BY <1>1, <1>8 DEF x

\* A sub-transform is a vector.
LEMMA BlockType ==
    ASSUME NEW n, NEW v, NEW h, NEW r, NEW m, NEW e,
           n \in DomainSizes, v \in [Domain(n) -> Scalars], h \in Nat, m \in Nat, e \in Nat,
           r \in 0 .. h - 1, n = m * h
    PROVE  Block(n, v, h, r, m, e) \in [Domain(m) -> Scalars]
<1>1. \A j \in Domain(m) : j * h + r \in Domain(n) /\ (h * e) * j \in Nat
  <2> TAKE j \in Domain(m)
  <2>1. j \in 0 .. m - 1 /\ j \in Nat /\ h * e \in Nat
    BY DEF Domain
  <2>2. (h * e) * j \in Nat
    BY <2>1
  <2> QED BY <2>1, <2>2, IndexBound DEF Domain
<1>2. \A d \in Nat : Root(n, d) \in Scalars
  BY RootKit
<1>3. \A j \in Domain(m) : Times(v[j * h + r], Root(n, (h * e) * j)) \in Scalars
  BY <1>1, <1>2, Closure
<1> QED BY <1>3 DEF Block

\* A sub-transform splits into its even and its odd half,
LEMMA BlockSplits ==
    ASSUME NEW n, NEW v, NEW h, NEW r, NEW m, NEW e, Halves(n, v, h, r, m, e)
    PROVE  Total(Block(n, v, h, r, 2 * m, e))
             = Plus(Total(Block(n, v, 2 * h, r, m, e)),
                    Times(Total(Block(n, v, 2 * h, h + r, m, e)), Root(n, h * e)))
<1>0. /\ n \in DomainSizes /\ v \in [Domain(n) -> Scalars]
      /\ m \in Nat /\ h \in Nat \ {0} /\ n = 2 * (m * h)
      /\ r \in 0 .. h - 1 /\ e \in Nat
  BY DEF Halves
<1> DEFINE w == Block(n, v, h, r, 2 * m, e)
           x == Block(n, v, 2 * h, r, m, e)
           y == Block(n, v, 2 * h, h + r, m, e)
           c == Root(n, h * e)
<1>1. /\ 2 * m \in Nat /\ 2 * h \in Nat /\ n = (2 * m) * h /\ n = m * (2 * h)
      /\ r \in 0 .. 2 * h - 1 /\ h + r \in 0 .. 2 * h - 1 /\ h * e \in Nat
  BY <1>0
<1>2. w \in [Domain(2 * m) -> Scalars]
  BY <1>0, <1>1, BlockType
<1>3. x \in [Domain(m) -> Scalars] /\ y \in [Domain(m) -> Scalars] /\ c \in Scalars
  BY <1>0, <1>1, BlockType, RootKit
<1>4. Evens(m, w) = x
  <2>1. \A p \in Domain(m) : 2 * p \in Domain(2 * m) /\ (2 * p) * h + r = p * (2 * h) + r
                             /\ (h * e) * (2 * p) = ((2 * h) * e) * p
    BY <1>0 DEF Domain
  <2>2. \A p \in Domain(m) : w[2 * p] = x[p]
    BY <2>1 DEF Block
  <2>3. x = [p \in Domain(m) |-> x[p]]
    BY DEF Block
  <2> HIDE DEF w, x
  <2> QED BY <2>2, <2>3 DEF Evens
<1>5. \A p \in Domain(m) : Odds(m, w)[p] = Times(y[p], c)
  <2> TAKE p \in Domain(m)
  <2>1. p \in 0 .. m - 1 /\ p \in Nat
    BY <1>0 DEF Domain
  <2>2. 2 * p + 1 \in Domain(2 * m) /\ (2 * p + 1) * h + r = p * (2 * h) + (h + r)
        /\ (h * e) * (2 * p + 1) = ((2 * h) * e) * p + h * e
        /\ ((2 * h) * e) * p \in Nat
    BY <1>0, <2>1 DEF Domain
  <2>3. p * (2 * h) + (h + r) \in Domain(n)
    <3> DEFINE g == 2 * h
               i == h + r
    <3>1. g \in Nat /\ i \in 0 .. g - 1 /\ n = m * g /\ m \in Nat
      BY <1>0, <1>1
    <3> HIDE DEF g, i
    <3>2. p * g + i \in 0 .. m * g - 1
      BY <2>1, <3>1, IndexBound
    <3> QED BY <3>1, <3>2 DEF Domain, g, i
  <2>4. Odds(m, w)[p] = w[2 * p + 1]
    BY DEF Odds
  <2>5. w[2 * p + 1] = Times(v[p * (2 * h) + (h + r)], Root(n, ((2 * h) * e) * p + h * e))
    BY <2>2 DEF Block
  <2>6. y[p] = Times(v[p * (2 * h) + (h + r)], Root(n, ((2 * h) * e) * p))
    BY DEF Block
  <2> DEFINE a == v[p * (2 * h) + (h + r)]
             f == Root(n, ((2 * h) * e) * p)
  <2>7. Root(n, ((2 * h) * e) * p + h * e) = Times(f, c) /\ f \in Scalars
    BY <1>0, <1>1, <2>2, RootKit
  <2>8. a \in Scalars
    BY <1>0, <2>3
  <2> HIDE DEF a, f, c, w, y
  <2>9. Times(a, Times(f, c)) = Times(Times(a, f), c)
    BY <1>3, <2>7, <2>8, TimesLaws
  <2> QED BY <2>4, <2>5, <2>6, <2>7, <2>9 DEF a, f
<1>6. IsFiniteSet(Domain(m))
  BY <1>0, DomainFinite
<1> HIDE DEF w, x, y, c
<1>7. /\ Total(w) = Plus(Total(Evens(m, w)), Total(Odds(m, w)))
      /\ Odds(m, w) \in [Domain(m) -> Scalars]
  BY <1>0, <1>2, EvenOdd
<1>8. Total(Odds(m, w)) = Times(Total(y), c)
  BY <1>3, <1>5, <1>6, <1>7, AllScale
<1> QED BY <1>4, <1>7, <1>8 DEF w, x, y, c

\* which half a turn later differ in one sign only.
LEMMA BlockTurns ==
    ASSUME NEW n, NEW v, NEW h, NEW r, NEW m, NEW e, Halves(n, v, h, r, m, e)
    PROVE  /\ Block(n, v, 2 * h, r, m, m + e) = Block(n, v, 2 * h, r, m, e)
           /\ Block(n, v, 2 * h, h + r, m, m + e) = Block(n, v, 2 * h, h + r, m, e)
           /\ Root(n, h * (m + e)) = Minus(Root(n, h * e))
           /\ Root(n, h * e) \in Scalars
<1>0. /\ n \in DomainSizes /\ v \in [Domain(n) -> Scalars]
      /\ m \in Nat \ {0} /\ h \in Nat \ {0} /\ n = 2 * (m * h)
      /\ r \in 0 .. h - 1 /\ e \in Nat
  BY DEF Halves
<1>1. \A j \in Domain(m) : Root(n, ((2 * h) * (m + e)) * j) = Root(n, ((2 * h) * e) * j)
  <2> TAKE j \in Domain(m)
  <2>1. j \in Nat
    BY <1>0 DEF Domain
  <2>2. ((2 * h) * (m + e)) * j = n * j + ((2 * h) * e) * j /\ ((2 * h) * e) * j \in Nat
    BY <1>0, <2>1
  <2> DEFINE d == ((2 * h) * e) * j
             f == ((2 * h) * (m + e)) * j
  <2>3. d \in Nat /\ f = n * j + d
    BY <2>2
  <2> HIDE DEF d, f
  <2>4. Root(n, n * j + d) = Root(n, d)
    BY <1>0, <2>1, <2>3, RootPeriod
  <2> QED BY <2>3, <2>4 DEF d, f
<1>2. Block(n, v, 2 * h, r, m, m + e) = Block(n, v, 2 * h, r, m, e)
      /\ Block(n, v, 2 * h, h + r, m, m + e) = Block(n, v, 2 * h, h + r, m, e)
  BY <1>1 DEF Block
<1> DEFINE k == m * h
<1>3. k \in Nat \ {0} /\ n = 2 * k /\ k \in Nat
  BY <1>0
<1>4. h * e \in Nat /\ h * (m + e) = k + h * e
  BY <1>0
<1> HIDE DEF k
<1>5. Root(n, k + h * e) = Times(Root(n, k), Root(n, h * e)) /\ Root(n, h * e) \in Scalars
  BY <1>0, <1>3, <1>4, RootKit
<1>6. Root(n, k) = Minus(One) /\ One \in Scalars
  BY <1>0, <1>3, HalfRoot, Closure
<1>7. Times(Minus(One), Root(n, h * e)) = Minus(Root(n, h * e))
  BY <1>5, <1>6, MinusTimes, TimesLaws
<1> QED BY <1>2, <1>4, <1>5, <1>6, <1>7

\* A place of a pass: the two inputs of a butterfly.
Spot(n, m, h, q, i) ==
    /\ n \in DomainSizes /\ m \in Nat \ {0} /\ h \in Nat \ {0} /\ n = 2 * (m * h)
    /\ q \in 0 .. h - 1 /\ i \in 0 .. m - 1

\* Where a butterfly reads and writes.
LEMMA SpotPlaces ==
    ASSUME NEW n, NEW m, NEW h, NEW q, NEW i, Spot(n, m, h, q, i)
    PROVE  /\ q * (2 * m) + i \in Domain(n) /\ q * (2 * m) + (m + i) \in Domain(n)
           /\ q * (2 * m) + i = (2 * q) * m + i /\ q * (2 * m) + (m + i) = (2 * q + 1) * m + i
           /\ (q * (2 * m) + i) % (2 * m) = i /\ (q * (2 * m) + i) % m = i
           /\ (q * (2 * m) + (m + i)) % (2 * m) = m + i /\ (q * (2 * m) + (m + i)) % m = i
           /\ n \div (2 * m) = h
           /\ Element(n, h * i) = Root(n, h * i) /\ Root(n, h * i) \in Scalars
<1>0. /\ n \in DomainSizes /\ m \in Nat \ {0} /\ h \in Nat \ {0} /\ n = 2 * (m * h)
      /\ q \in 0 .. h - 1 /\ i \in 0 .. m - 1
  BY DEF Spot
<1> DEFINE g == 2 * m
           j == m + i
<1>1. g \in Nat \ {0} /\ g \in Nat /\ m \in Nat /\ h \in Nat /\ q \in Nat
      /\ i \in 0 .. g - 1 /\ j \in 0 .. g - 1
      /\ 2 * q \in Nat /\ 2 * q + 1 \in Nat
  BY <1>0
<1>2. n = h * g /\ n = h * g + 0 /\ 0 \in 0 .. g - 1
  BY <1>0
<1>3. q * g + i = (2 * q) * m + i /\ q * g + j = (2 * q + 1) * m + i
  BY <1>0, <1>1
<1> HIDE DEF g, j
<1>4. q * g + i \in 0 .. h * g - 1 /\ q * g + j \in 0 .. h * g - 1
  BY <1>0, <1>1, IndexBound
<1>5. (q * g + i) % g = i /\ (q * g + j) % g = j
  BY <1>1, DivMod
<1>6. ((2 * q) * m + i) % m = i /\ ((2 * q + 1) * m + i) % m = i
  <2> DEFINE a == 2 * q
             b == 2 * q + 1
  <2>1. a \in Nat /\ b \in Nat
    BY <1>1
  <2> HIDE DEF a, b
  <2>2. (a * m + i) % m = i /\ (b * m + i) % m = i
    BY <1>0, <2>1, DivMod
  <2> QED BY <2>2 DEF a, b
<1>7. n \div g = h
  <2>1. (h * g + 0) \div g = h
    BY <1>1, <1>2, DivMod
  <2> QED BY <1>2, <2>1
<1>8. h * i \in Domain(n)
  <2>1. i + 1 <= m /\ m - (i + 1) \in Nat
    BY <1>0
  <2>2. h * (m - (i + 1)) \in Nat /\ h * i \in Nat /\ h * m = h * (m - (i + 1)) + (h * i + h)
    BY <1>0, <2>1
  <2>3. n = h * m + h * m
    BY <1>0
  <2> QED BY <1>0, <2>2, <2>3 DEF Domain
<1>9. Element(n, h * i) = Root(n, h * i) /\ Root(n, h * i) \in Scalars
  <2>1. h * i \in Nat
    BY <1>0
  <2> QED BY <1>0, <1>8, <2>1, RootKit
<1> QED BY <1>2, <1>3, <1>4, <1>5, <1>6, <1>7, <1>9 DEF Domain, g, j

\* The two outputs of a butterfly.
LEMMA ButterflyAt ==
    ASSUME NEW n, NEW m, NEW h, NEW q, NEW i, Spot(n, m, h, q, i), NEW x
    PROVE  /\ Butterflies(n, x, m)[q * (2 * m) + i]
                = Plus(x[(2 * q) * m + i], Times(x[(2 * q + 1) * m + i], Root(n, h * i)))
           /\ Butterflies(n, x, m)[q * (2 * m) + (m + i)]
                = Plus(x[(2 * q) * m + i], Minus(Times(x[(2 * q + 1) * m + i], Root(n, h * i))))
<1>0. m \in Nat \ {0} /\ i \in 0 .. m - 1 /\ q \in Nat
  BY DEF Spot
<1> DEFINE k == q * (2 * m) + i
           l == q * (2 * m) + (m + i)
<1>1. /\ k \in Domain(n) /\ l \in Domain(n)
      /\ k = (2 * q) * m + i /\ l = (2 * q + 1) * m + i
      /\ k % (2 * m) = i /\ k % m = i
      /\ l % (2 * m) = m + i /\ l % m = i
      /\ n \div (2 * m) = h
      /\ Element(n, h * i) = Root(n, h * i)
  BY SpotPlaces
<1>2. k + m = l /\ l - m = k /\ k \in Nat /\ l \in Nat
  BY <1>0
<1>3. i < m /\ ~ (m + i < m)
  BY <1>0
<1> HIDE DEF k, l
<1>4. Butterflies(n, x, m)[k] = Plus(x[k], Times(x[l], Root(n, h * i)))
  BY <1>1, <1>2, <1>3 DEF Butterflies, \oplus, \otimes
<1>5. Butterflies(n, x, m)[l] = Plus(x[k], Minus(Times(x[l], Root(n, h * i))))
  BY <1>1, <1>2, <1>3 DEF Butterflies, \ominus, \otimes
<1>6. k = (2 * q) * m + i /\ l = (2 * q + 1) * m + i
  BY <1>1
<1>7. k = q * (2 * m) + i /\ l = q * (2 * m) + (m + i)
  BY DEF k, l
<1> QED BY <1>4, <1>5, <1>6, <1>7

\* Every place of a pass is one of the two of some butterfly.
IsPlace(n, m, h, k) ==
    /\ n \in DomainSizes /\ m \in Nat \ {0} /\ h \in Nat \ {0} /\ n = 2 * (m * h)
    /\ k \in Domain(n)

\* Every place is the output of a butterfly.
LEMMA SpotExists ==
    ASSUME NEW n, NEW m, NEW h, NEW k, IsPlace(n, m, h, k)
    PROVE  \E q \in 0 .. h - 1, i \in 0 .. m - 1 :
              Spot(n, m, h, q, i) /\ (k = q * (2 * m) + i \/ k = q * (2 * m) + (m + i))
<1>0. /\ n \in DomainSizes /\ m \in Nat \ {0} /\ h \in Nat \ {0} /\ n = 2 * (m * h)
      /\ k \in Domain(n)
  BY DEF IsPlace
<1> DEFINE g == 2 * m
           q == k \div g
           r == k % g
<1>1. g \in Nat \ {0} /\ k \in Nat /\ k < n /\ n = g * h
  BY <1>0 DEF Domain
<1>2. q \in Nat /\ r \in 0 .. g - 1 /\ k = g * q + r
  <2> HIDE DEF g
  <2> QED BY <1>1
<1>3. q < h
  <2>1. SUFFICES ASSUME h <= q PROVE FALSE
    BY <1>0, <1>2
  <2>2. g * h <= g * q
    BY <1>0, <1>1, <1>2, <2>1
  <2>3. n = g * h
    BY <1>0
  <2> QED BY <1>1, <1>2, <2>2, <2>3
<1>4. q \in 0 .. h - 1
  BY <1>0, <1>2, <1>3
<1>5. CASE r < m
  <2>1. r \in 0 .. m - 1 /\ k = q * (2 * m) + r
    BY <1>0, <1>2, <1>5
  <2> HIDE DEF q, r
  <2>2. Spot(n, m, h, q, r)
    BY <1>0, <1>4, <2>1 DEF Spot
  <2> QED BY <1>4, <2>1, <2>2
<1>6. CASE ~ (r < m)
  <2> DEFINE i == r - m
  <2>1. i \in 0 .. m - 1 /\ k = q * (2 * m) + (m + i)
    BY <1>0, <1>2, <1>6
  <2> HIDE DEF q, r, i
  <2>2. Spot(n, m, h, q, i)
    BY <1>0, <1>4, <2>1 DEF Spot
  <2> QED BY <1>4, <2>1, <2>2
<1> QED BY <1>5, <1>6

\* A pass keeps vectors.
LEMMA ButterfliesType ==
    ASSUME NEW n \in DomainSizes, NEW m \in Nat \ {0}, NEW h \in Nat \ {0}, n = 2 * (m * h),
           NEW x \in [Domain(n) -> Scalars]
    PROVE  Butterflies(n, x, m) \in [Domain(n) -> Scalars]
<1> DEFINE y == Butterflies(n, x, m)
<1>1. ASSUME NEW k \in Domain(n) PROVE y[k] \in Scalars
  <2>1. PICK q \in 0 .. h - 1, i \in 0 .. m - 1 :
            Spot(n, m, h, q, i) /\ (k = q * (2 * m) + i \/ k = q * (2 * m) + (m + i))
    <3>1. IsPlace(n, m, h, k)
      BY DEF IsPlace
    <3> HIDE DEF y
    <3> QED BY <3>1, SpotExists
  <2>2. /\ (2 * q) * m + i \in Domain(n) /\ (2 * q + 1) * m + i \in Domain(n)
        /\ Root(n, h * i) \in Scalars
    <3>1. /\ q * (2 * m) + i \in Domain(n) /\ q * (2 * m) + (m + i) \in Domain(n)
          /\ q * (2 * m) + i = (2 * q) * m + i /\ q * (2 * m) + (m + i) = (2 * q + 1) * m + i
          /\ Root(n, h * i) \in Scalars
      BY <2>1, SpotPlaces
    <3> QED BY <3>1
  <2> DEFINE a == x[(2 * q) * m + i]
             b == Times(x[(2 * q + 1) * m + i], Root(n, h * i))
  <2>3. a \in Scalars /\ b \in Scalars
    BY <2>2, Closure
  <2>4. y[q * (2 * m) + i] = Plus(a, b) /\ y[q * (2 * m) + (m + i)] = Plus(a, Minus(b))
    BY <2>1, ButterflyAt
  <2> HIDE DEF a, b, y
  <2>5. Plus(a, b) \in Scalars /\ Plus(a, Minus(b)) \in Scalars
    BY <2>3, Closure
  <2> QED BY <2>1, <2>4, <2>5
<1>2. y = [k \in Domain(n) |-> y[k]]
  BY DEF Butterflies
<1> HIDE DEF y
<1> QED BY <1>1, <1>2 DEF y

\* Sizes on the way: n is twice the width of the s-th pass times the number of its butterflies' groups.
LEMMA PassSizes ==
    ASSUME NEW l \in Nat, NEW s \in 0 .. l - 1
    PROVE  /\ TwoTo(l) = 2 * (TwoTo(s) * TwoTo(l - s - 1))
           /\ TwoTo(s) \in Nat \ {0} /\ TwoTo(l - s - 1) \in Nat \ {0}
           /\ TwoTo(s + 1) = 2 * TwoTo(s) /\ TwoTo(l - s) = 2 * TwoTo(l - s - 1)
           /\ s \in Nat /\ l - s - 1 \in Nat /\ l - s \in Nat /\ s + 1 \in Nat
           /\ l - s = (l - s - 1) + 1 /\ l - (s + 1) = l - s - 1
<1>1. s \in Nat /\ l - s - 1 \in Nat /\ l - s \in Nat /\ s + 1 \in Nat
      /\ l - s = (l - s - 1) + 1 /\ l = s + (l - s) /\ l - (s + 1) = l - s - 1
  OBVIOUS
<1> DEFINE a == TwoTo(s)
           b == TwoTo(l - s - 1)
<1>2. a \in Nat \ {0} /\ b \in Nat \ {0} /\ TwoTo(s + 1) = 2 * a
  BY <1>1, TwoToLaws
<1>3. TwoTo((l - s - 1) + 1) = 2 * b
  BY <1>1, TwoToLaws
<1>4. TwoTo(s + (l - s)) = a * TwoTo(l - s)
  BY <1>1, TwoToPlus
<1>5. TwoTo(l - s) = 2 * b /\ TwoTo(l) = a * TwoTo(l - s)
  BY <1>1, <1>3, <1>4
<1> HIDE DEF a, b
<1>6. a * (2 * b) = 2 * (a * b)
  BY <1>2
<1> QED BY <1>1, <1>2, <1>5, <1>6 DEF a, b

IsPasses(g, n, v) ==
    /\ g \in [0 .. LogSize(n) -> [Domain(n) -> Scalars]]
    /\ g[0] = [k \in Domain(n) |-> v[Reversed(LogSize(n))[k]]]
    /\ \A s \in 0 .. LogSize(n) - 1 : g[s + 1] = Butterflies(n, g[s], TwoTo(s))
    /\ Fft(n, v) = g[LogSize(n)]

\* The recursion behind Fft is well defined.
LEMMA PassesExist ==
    ASSUME NEW n \in DomainSizes, NEW v \in [Domain(n) -> Scalars]
    PROVE  \E g : IsPasses(g, n, v)
<1> DEFINE l == LogSize(n)
           T == [Domain(n) -> Scalars]
           first == [k \in Domain(n) |-> v[Reversed(l)[k]]]
           D(p) == p = [s \in 0 .. l |-> IF s = 0 THEN first ELSE Butterflies(n, p[s - 1], TwoTo(s - 1))]
           step == [s \in 1 .. l |-> [x \in T |-> Butterflies(n, x, TwoTo(s - 1))]]
<1>1. Fft(n, v) = (CHOOSE p : D(p))[l]
  BY DEF Fft
<1>2. l \in Nat /\ n = TwoTo(l)
  BY LogSizeIs
<1>3. first \in T
  <2>1. Reversed(l) \in [0 .. TwoTo(l) - 1 -> 0 .. TwoTo(l) - 1]
    BY <1>2, ReversedType
  <2>2. Reversed(l) \in [Domain(n) -> Domain(n)]
    BY <1>2, <2>1 DEF Domain
  <2> HIDE DEF l
  <2> QED BY <2>2
<1>4. \A s \in 1 .. l : \A x \in T : Butterflies(n, x, TwoTo(s - 1)) \in T
  <2> TAKE s \in 1 .. l
  <2> TAKE x \in T
  <2>1. s - 1 \in 0 .. l - 1
    BY <1>2
  <2> DEFINE m == TwoTo(s - 1)
             h == TwoTo(l - (s - 1) - 1)
  <2>2. n = 2 * (m * h) /\ m \in Nat \ {0} /\ h \in Nat \ {0}
    <3> HIDE DEF l
    <3> QED BY <1>2, <2>1, PassSizes
  <2> HIDE DEF m, h
  <2>3. Butterflies(n, x, m) \in T
    BY <2>2, ButterfliesType
  <2> QED BY <2>3 DEF m
<1> HIDE DEF first, l
<1>5. step \in [1 .. l -> [T -> T]]
  <2> HIDE DEF T
  <2> QED BY <1>4
<1>6. \A s \in 1 .. l : \A x \in T : step[s][x] = Butterflies(n, x, TwoTo(s - 1))
  OBVIOUS
<1> HIDE DEF step, T
<1>7. PICK g : IsCourse(g, l, T, first, step)
  BY <1>2, <1>3, <1>5, LoopExists
<1>8. /\ g \in [0 .. l -> T] /\ g[0] = first
      /\ \A s \in 1 .. l : g[s] = step[s][g[s - 1]]
  BY <1>7 DEF IsCourse
<1>9. D(g)
  <2>1. \A s \in 0 .. l : g[s] = IF s = 0 THEN first ELSE Butterflies(n, g[s - 1], TwoTo(s - 1))
    <3> TAKE s \in 0 .. l
    <3>1. s # 0 => s \in 1 .. l /\ g[s - 1] \in T
      BY <1>2, <1>8
    <3> QED BY <1>6, <1>8, <3>1
  <2>2. g = [s \in 0 .. l |-> g[s]]
    BY <1>8
  <2> QED BY <2>1, <2>2
<1>10. D(CHOOSE p : D(p))
  <2> HIDE DEF D
  <2> QED BY <1>9
<1> DEFINE p == CHOOSE q : D(q)
<1>11. D(p)
  BY <1>10
<1> HIDE DEF p
<1>12. \A s \in 0 .. l : p[s] = IF s = 0 THEN first ELSE Butterflies(n, p[s - 1], TwoTo(s - 1))
  BY <1>11
<1>13. p[0] = first /\ \A s \in 0 .. l - 1 : p[s + 1] = Butterflies(n, p[s], TwoTo(s))
  <2>1. 0 \in 0 .. l /\ \A s \in 0 .. l - 1 : s + 1 \in 0 .. l /\ s + 1 # 0 /\ (s + 1) - 1 = s
    BY <1>2
  <2>2. p[0] = first
    BY <1>12, <2>1
  <2>3. \A s \in 0 .. l - 1 : p[s + 1] = Butterflies(n, p[s], TwoTo(s))
    <3> TAKE s \in 0 .. l - 1
    <3>1. p[s + 1] = IF s + 1 = 0 THEN first ELSE Butterflies(n, p[(s + 1) - 1], TwoTo((s + 1) - 1))
      BY <1>12, <2>1
    <3> QED BY <2>1, <3>1
  <2> QED BY <2>2, <2>3
<1>14. \A s \in 0 .. l : p[s] \in T
  <2>1. \A s \in 1 .. l : p[s - 1] \in T => p[s] \in T
    <3> TAKE s \in 1 .. l
    <3>1. p[s] = Butterflies(n, p[s - 1], TwoTo(s - 1))
      BY <1>2, <1>12
    <3> QED BY <1>4, <3>1 DEF T
  <2> QED BY <1>2, <1>3, <1>13, <2>1, LoopKeeps
<1>15. p = [s \in 0 .. l |-> p[s]]
  BY <1>11
<1>16. p \in [0 .. l -> T]
  BY <1>14, <1>15
<1>17. Fft(n, v) = p[l]
  BY <1>1 DEF p
<1> QED BY <1>13, <1>16, <1>17 DEF IsPasses, l, T, first

\* After s passes, block q of the array is the transform of the entries from the
\* reversal of q on, TwoTo(LogSize - s) apart.
BlockRight(g, n, v, s, q, i) ==
    g[s][q * TwoTo(s) + i]
       = Total(Block(n, v, TwoTo(LogSize(n) - s), Reversed(LogSize(n) - s)[q], TwoTo(s), i))
PassRight(g, n, v, s) ==
    \A q \in 0 .. TwoTo(LogSize(n) - s) - 1 : \A i \in 0 .. TwoTo(s) - 1 : BlockRight(g, n, v, s, q, i)

IsStep(g, n, v, s, q, i) ==
    /\ n \in DomainSizes /\ v \in [Domain(n) -> Scalars]
    /\ IsPasses(g, n, v) /\ s \in 0 .. LogSize(n) - 1
    /\ PassRight(g, n, v, s)
    /\ q \in 0 .. TwoTo(LogSize(n) - s - 1) - 1 /\ i \in 0 .. TwoTo(s) - 1

\* A pass doubles the length of the transforms that are done.
LEMMA PassStep ==
    ASSUME NEW g, NEW n, NEW v, NEW s, NEW q, NEW i, IsStep(g, n, v, s, q, i)
    PROVE  /\ BlockRight(g, n, v, s + 1, q, i)
           /\ BlockRight(g, n, v, s + 1, q, TwoTo(s) + i)
<1>0. /\ n \in DomainSizes /\ v \in [Domain(n) -> Scalars]
      /\ IsPasses(g, n, v) /\ s \in 0 .. LogSize(n) - 1
      /\ PassRight(g, n, v, s)
      /\ q \in 0 .. TwoTo(LogSize(n) - s - 1) - 1 /\ i \in 0 .. TwoTo(s) - 1
  BY DEF IsStep
<1> DEFINE l == LogSize(n)
           m == TwoTo(s)
           h == TwoTo(l - s - 1)
           r == Reversed(l - s - 1)[q]
           x == g[s]
           c == Root(n, h * i)
           X == Total(Block(n, v, 2 * h, r, m, i))
           Y == Total(Block(n, v, 2 * h, h + r, m, i))
<1>1. l \in Nat /\ n = TwoTo(l)
  BY <1>0, LogSizeIs
<1>2. /\ n = 2 * (m * h) /\ m \in Nat \ {0} /\ h \in Nat \ {0}
      /\ TwoTo(s + 1) = 2 * m /\ TwoTo(l - s) = 2 * h
      /\ s \in Nat /\ l - s - 1 \in Nat
      /\ l - s = (l - s - 1) + 1 /\ l - (s + 1) = l - s - 1
  <2> HIDE DEF l
  <2> QED BY <1>0, <1>1, PassSizes DEF l
<1>3. /\ Reversed(l - s)[2 * q] = r /\ Reversed(l - s)[2 * q + 1] = h + r /\ r \in 0 .. h - 1
  <2> DEFINE k == l - s - 1
  <2>1. k \in Nat /\ q \in 0 .. TwoTo(k) - 1
    BY <1>0, <1>2
  <2> HIDE DEF k
  <2>2. /\ Reversed(k + 1)[2 * q] = Reversed(k)[q] /\ Reversed(k + 1)[2 * q + 1] = TwoTo(k) + Reversed(k)[q]
        /\ Reversed(k)[q] \in 0 .. TwoTo(k) - 1
    BY <2>1, ReversedHalves
  <2>3. l - s = k + 1
    BY <1>2 DEF k
  <2>4. k = l - s - 1
    BY DEF k
  <2> QED BY <2>2, <2>3, <2>4
<1>4. g[s + 1] = Butterflies(n, x, m)
  BY <1>0 DEF IsPasses
<1>5. x[(2 * q) * m + i] = X /\ x[(2 * q + 1) * m + i] = Y
  <2>1. 2 * q \in 0 .. TwoTo(l - s) - 1 /\ 2 * q + 1 \in 0 .. TwoTo(l - s) - 1
    <3> HIDE DEF l, m, h
    <3> QED BY <1>0, <1>2 DEF h, l
  <2>2. BlockRight(g, n, v, s, 2 * q, i) /\ BlockRight(g, n, v, s, 2 * q + 1, i)
    BY <1>0, <2>1 DEF PassRight
  <2> QED BY <1>2, <1>3, <2>2 DEF BlockRight
<1>6. Spot(n, m, h, q, i)
  BY <1>0, <1>2 DEF Spot
<1>7. /\ g[s + 1][q * (2 * m) + i] = Plus(X, Times(Y, c))
      /\ g[s + 1][q * (2 * m) + (m + i)] = Plus(X, Minus(Times(Y, c)))
  <2> HIDE DEF m, h, X, Y, x, c
  <2>1. /\ Butterflies(n, x, m)[q * (2 * m) + i]
             = Plus(x[(2 * q) * m + i], Times(x[(2 * q + 1) * m + i], Root(n, h * i)))
        /\ Butterflies(n, x, m)[q * (2 * m) + (m + i)]
             = Plus(x[(2 * q) * m + i], Minus(Times(x[(2 * q + 1) * m + i], Root(n, h * i))))
    BY <1>6, ButterflyAt
  <2> QED BY <1>4, <1>5, <2>1 DEF c
<1>8. i \in Nat /\ m + i \in Nat /\ Halves(n, v, h, r, m, i) /\ Halves(n, v, h, r, m, m + i)
  <2> HIDE DEF m, h, r
  <2>1. i \in Nat /\ m + i \in Nat
    BY <1>0, <1>2
  <2> QED BY <1>0, <1>2, <1>3, <2>1 DEF Halves
<1>9. Total(Block(n, v, h, r, 2 * m, i)) = Plus(X, Times(Y, c))
  <2> HIDE DEF m, h, r
  <2> QED BY <1>8, BlockSplits
<1>10. Total(Block(n, v, h, r, 2 * m, m + i)) = Plus(X, Minus(Times(Y, c)))
  <2> HIDE DEF m, h, r
  <2>1. /\ Block(n, v, 2 * h, r, m, m + i) = Block(n, v, 2 * h, r, m, i)
        /\ Block(n, v, 2 * h, h + r, m, m + i) = Block(n, v, 2 * h, h + r, m, i)
        /\ Root(n, h * (m + i)) = Minus(Root(n, h * i)) /\ c \in Scalars
    BY <1>8, BlockTurns
  <2>2. Total(Block(n, v, h, r, 2 * m, m + i)) = Plus(X, Times(Y, Minus(c)))
    <3>1. Total(Block(n, v, h, r, 2 * m, m + i))
            = Plus(Total(Block(n, v, 2 * h, r, m, m + i)),
                   Times(Total(Block(n, v, 2 * h, h + r, m, m + i)), Root(n, h * (m + i))))
      BY <1>8, BlockSplits
    <3> QED BY <2>1, <3>1
  <2>3. Y \in Scalars
    <3> DEFINE a == 2 * h
               b == h + r
    <3>1. a \in Nat /\ b \in 0 .. a - 1 /\ n = m * a /\ m \in Nat
      BY <1>2, <1>3
    <3>2. n \in DomainSizes /\ v \in [Domain(n) -> Scalars] /\ i \in Nat
      BY <1>0, <1>8
    <3> HIDE DEF a, b
    <3>3. Block(n, v, a, b, m, i) \in [Domain(m) -> Scalars] /\ IsFiniteSet(Domain(m))
      BY <3>1, <3>2, BlockType, DomainFinite
    <3>4. Total(Block(n, v, a, b, m, i)) \in Scalars
      BY <3>3, TotalType
    <3> QED BY <3>4 DEF a, b
  <2> HIDE DEF X, Y, c
  <2>4. Times(Y, Minus(c)) = Minus(Times(Y, c))
    BY <2>1, <2>3, MinusTimes
  <2> QED BY <2>2, <2>4
<1>11. TwoTo(l - (s + 1)) = h /\ Reversed(l - (s + 1))[q] = r
  BY <1>2
<1> HIDE DEF X, Y, c, m, h, r, x
<1>12. BlockRight(g, n, v, s + 1, q, i)
  BY <1>2, <1>7, <1>9, <1>11 DEF BlockRight
<1>13. BlockRight(g, n, v, s + 1, q, m + i)
  BY <1>2, <1>7, <1>10, <1>11 DEF BlockRight
<1> QED BY <1>12, <1>13 DEF m

\* After the last pass the whole transform is done.
LEMMA PassesRight ==
    ASSUME NEW n \in DomainSizes, NEW v \in [Domain(n) -> Scalars], NEW g, IsPasses(g, n, v)
    PROVE  PassRight(g, n, v, LogSize(n))
<1> DEFINE l == LogSize(n)
           Good == {s \in Nat : s <= l => PassRight(g, n, v, s)}
<1>1. l \in Nat /\ n = TwoTo(l)
  BY LogSizeIs
<1>2. 0 \in Good
  <2>1. SUFFICES ASSUME NEW q \in 0 .. TwoTo(l - 0) - 1, NEW i \in 0 .. TwoTo(0) - 1
                 PROVE  BlockRight(g, n, v, 0, q, i)
    BY DEF PassRight
  <2>2. i = 0 /\ TwoTo(0) = 1 /\ l - 0 = l /\ q \in Domain(n) /\ q * 1 + 0 = q
    BY <1>1, <2>1, TwoToLaws DEF Domain
  <2> DEFINE r == Reversed(l)[q]
             b == Block(n, v, n, r, 1, 0)
  <2>3. r \in Domain(n)
    <3>1. Reversed(l) \in [0 .. TwoTo(l) - 1 -> 0 .. TwoTo(l) - 1]
      BY <1>1, ReversedType
    <3> QED BY <1>1, <2>2, <3>1 DEF Domain
  <2>4. g[0][q] = v[r]
    BY <2>2 DEF IsPasses
  <2>5. Domain(1) = {0} /\ 0 \in Domain(1)
    BY DEF Domain
  <2>6. b[0] = v[r] /\ b \in [Domain(1) -> Scalars]
    <3>1. 0 * n + r = r /\ (n * 0) * 0 = 0
      <4>1. n \in Nat /\ r \in Nat
        BY <2>3, RootKit DEF Domain
      <4> HIDE DEF r
      <4> QED BY <4>1
    <3>2. Root(n, 0) = One /\ v[r] \in Scalars
      BY <2>3, RootKit
    <3>3. b[0] = Times(v[0 * n + r], Root(n, (n * 0) * 0))
      BY <2>5 DEF Block
    <3>4. b[0] = v[r]
      BY <3>1, <3>2, <3>3, TimesLaws
    <3>5. b = [j \in Domain(1) |-> b[j]]
      BY DEF Block
    <3> HIDE DEF b, r
    <3> QED BY <2>5, <3>2, <3>4, <3>5
  <2>7. Total(b) = b[0]
    <3>1. IsFiniteSet(Domain(1)) /\ \A k \in Domain(1) : k # 0 => b[k] = Zero
      BY <2>5, DomainFinite
    <3> HIDE DEF b
    <3> QED BY <2>5, <2>6, <3>1, AllSingle
  <2>8. g[0][q * TwoTo(0) + i] = g[0][q]
    BY <2>2
  <2>9. Block(n, v, TwoTo(l - 0), Reversed(l - 0)[q], TwoTo(0), i) = b
    BY <1>1, <2>2
  <2> QED BY <2>4, <2>6, <2>7, <2>8, <2>9 DEF BlockRight
<1>3. ASSUME NEW s \in Nat, s \in Good PROVE s + 1 \in Good
  <2>1. SUFFICES ASSUME s + 1 <= l PROVE PassRight(g, n, v, s + 1)
    OBVIOUS
  <2>2. s \in 0 .. l - 1 /\ PassRight(g, n, v, s)
    BY <1>1, <1>3, <2>1
  <2>3. /\ TwoTo(s + 1) = 2 * TwoTo(s) /\ l - (s + 1) = l - s - 1 /\ TwoTo(s) \in Nat \ {0}
    BY <1>1, <2>2, PassSizes
  <2>4. SUFFICES ASSUME NEW q \in 0 .. TwoTo(l - s - 1) - 1, NEW j \in 0 .. 2 * TwoTo(s) - 1
                 PROVE  BlockRight(g, n, v, s + 1, q, j)
    BY <2>3 DEF PassRight
  <2>5. CASE j < TwoTo(s)
    <3>1. j \in 0 .. TwoTo(s) - 1
      BY <2>3, <2>5
    <3>2. IsStep(g, n, v, s, q, j)
      BY <2>2, <3>1 DEF IsStep
    <3> QED BY <3>2, PassStep
  <2>6. CASE ~ (j < TwoTo(s))
    <3> DEFINE i == j - TwoTo(s)
    <3>1. i \in 0 .. TwoTo(s) - 1 /\ j = TwoTo(s) + i
      BY <2>3, <2>6
    <3> HIDE DEF i
    <3>2. IsStep(g, n, v, s, q, i)
      BY <2>2, <3>1 DEF IsStep
    <3>3. BlockRight(g, n, v, s + 1, q, TwoTo(s) + i)
      BY <3>2, PassStep
    <3> QED BY <3>1, <3>3
  <2> QED BY <2>5, <2>6
<1> HIDE DEF Good
<1>4. Nat \subseteq Good
  BY <1>2, <1>3, SetInduction
<1> QED BY <1>1, <1>4 DEF Good

\* parallel_fft computes the discrete Fourier transform.
LEMMA FftIs ==
    ASSUME NEW n \in DomainSizes, NEW v \in [Domain(n) -> Scalars]
    PROVE  Fft(n, v) = Dft(n, v) /\ Fft(n, v) \in [Domain(n) -> Scalars]
<1> DEFINE l == LogSize(n)
           f == Fft(n, v)
<1>1. l \in Nat /\ n = TwoTo(l) /\ n \in Nat \ {0} /\ n \in Nat
  BY LogSizeIs, RootKit
<1>2. PICK g : IsPasses(g, n, v)
  BY PassesExist
<1>3. f = g[l] /\ f \in [Domain(n) -> Scalars]
  BY <1>1, <1>2 DEF IsPasses
<1>4. PassRight(g, n, v, l)
  BY <1>2, PassesRight
<1>5. l - l = 0 /\ TwoTo(0) = 1 /\ 0 \in 0 .. TwoTo(0) - 1 /\ Reversed(0)[0] = 0
  BY <1>1, TwoToLaws, ReversedLaws
<1>6. ASSUME NEW i \in Domain(n) PROVE f[i] = Dft(n, v)[i]
  <2>1. i \in 0 .. TwoTo(l) - 1 /\ i \in Nat
    BY <1>1 DEF Domain
  <2>2. BlockRight(g, n, v, l, 0, i)
    BY <1>4, <1>5, <2>1 DEF PassRight
  <2>3. f[0 * n + i] = Total(Block(n, v, 1, 0, n, i))
    BY <1>1, <1>3, <1>5, <2>2 DEF BlockRight
  <2>4. 0 * n + i = i
    BY <1>1, <2>1
  <2>5. Block(n, v, 1, 0, n, i) = [j \in Domain(n) |-> Times(Root(n, j * i), v[j])]
    <3>1. ASSUME NEW j \in Domain(n)
          PROVE  Times(v[j * 1 + 0], Root(n, (1 * i) * j)) = Times(Root(n, j * i), v[j])
      <4>1. j \in Nat
        BY <1>1 DEF Domain
      <4>2. j * 1 + 0 = j /\ (1 * i) * j = j * i /\ j * i \in Nat
        BY <2>1, <4>1
      <4>3. Root(n, j * i) \in Scalars /\ v[j] \in Scalars
        BY <4>2, RootKit
      <4> QED BY <4>2, <4>3, TimesLaws
    <3> QED BY <3>1 DEF Block
  <2>6. Dft(n, v)[i] = Total([j \in Domain(n) |-> Times(Root(n, j * i), v[j])])
    <3>1. Dft(n, v)[i] = Dot(Domain(n), [j \in Domain(n) |-> Root(n, j * i)], v)
      BY DEF Dft
    <3>2. Dot(Domain(n), [j \in Domain(n) |-> Root(n, j * i)], v)
            = Total([j \in Domain(n) |-> Times(Root(n, j * i), v[j])])
      BY DEF Dot
    <3> QED BY <3>1, <3>2
  <2> QED BY <2>3, <2>4, <2>5, <2>6
<1>7. Dft(n, v) \in [Domain(n) -> Scalars]
  BY DftType
<1> HIDE DEF f
<1>8. f = Dft(n, v)
  BY <1>3, <1>6, <1>7
<1> QED BY <1>3, <1>8 DEF f

--------------------------------------------------------------------------------
(***************************************************************************)
(* Convolutions, and the kernel of the diagonal.                           *)
(***************************************************************************)
\* The group IFFT of compute_witness_bases computes coefficients.
LEMMA IfftIs ==
    ASSUME NEW n \in DomainSizes, NEW v \in [Domain(n) -> Scalars]
    PROVE  Ifft(n, v) = Coefficients(n, v) /\ Ifft(n, v) \in [Domain(n) -> Scalars]
<1> DEFINE D == Domain(n)
           f == Fft(n, v)
           c == Reciprocal(OfNat(n))
<1>1. n \in Nat \ {0} /\ n \in Nat
  BY RootKit
<1>2. f = Dft(n, v) /\ f \in [D -> Scalars]
  BY FftIs
<1>3. ASSUME NEW k \in D
      PROVE  c \otimes ReverseTail(n, f)[k] = Coefficient(n, v, k)
  <2> DEFINE j == (n - k) % n
             x == [i \in D |-> Root(n, i * j)]
             y == [i \in D |-> Root(n, (n - k) * i)]
  <2>1. j \in D /\ k \in 0 .. n - 1 /\ (k # 0 => j = n - k) /\ (k = 0 => j = 0)
    BY <1>1 DEF Domain
  <2>2. ReverseTail(n, f)[k] = f[j]
    BY DEF ReverseTail
  <2>3. f[j] = Dot(D, x, v)
    <3> HIDE DEF j
    <3> QED BY <1>2, <2>1 DEF Dft
  <2>4. ASSUME NEW i \in D PROVE Root(n, i * j) = Root(n, (n - k) * i)
    <3>1. i \in Nat
      BY <1>1 DEF Domain
    <3>2. CASE k = 0
      <4>1. i * j = 0 /\ (n - k) * i = n * i + 0
        BY <1>1, <2>1, <3>1, <3>2
      <4>2. Root(n, n * i + 0) = Root(n, 0)
        BY <3>1, RootPeriod
      <4> QED BY <4>1, <4>2
    <3>3. CASE k # 0
      <4>1. i * j = (n - k) * i
        BY <1>1, <2>1, <3>1, <3>3
      <4> QED BY <4>1
    <3> QED BY <3>2, <3>3
  <2>5. x = y
    <3> HIDE DEF j
    <3> QED BY <2>4
  <2>6. Coefficient(n, v, k) = Times(c, Dot(D, y, v))
    BY CoefficientDot
  <2> QED BY <2>2, <2>3, <2>5, <2>6 DEF \otimes
<1>4. Ifft(n, v) = Coefficients(n, v)
  BY <1>3 DEF Ifft, Coefficients
<1>5. Coefficients(n, v) \in [D -> Scalars]
  BY CoefficientType DEF Coefficients
<1> QED BY <1>4, <1>5

\* The step from k to m around the domain.
Step(n, k, m) == (m + n - k) % n

\* Steps around the domain,
LEMMA StepLaws ==
    ASSUME NEW n \in DomainSizes, NEW k \in Domain(n)
    PROVE  /\ \A m \in Domain(n) : Step(n, k, m) \in Domain(n)
           /\ \A m \in Domain(n) : Step(n, k, m) = IF m < k THEN m + n - k ELSE m - k
           /\ \A m, l \in Domain(n) : Step(n, k, m) = Step(n, k, l) => m = l
           /\ \A d \in Domain(n) : \E m \in Domain(n) : Step(n, k, m) = d
           /\ \A m \in Domain(n) : Step(n, k, m) = 0 <=> m = k
           /\ \A m \in Domain(n) : Root(n, m) = Times(Root(n, k), Root(n, Step(n, k, m)))
<1>1. n \in Nat \ {0} /\ n \in Nat
  BY RootKit
<1>2. k \in 0 .. n - 1 /\ Domain(n) = 0 .. n - 1
  BY DEF Domain
<1>3. \A m \in 0 .. n - 1 : Step(n, k, m) = IF m < k THEN m + n - k ELSE m - k
  <2> TAKE m \in 0 .. n - 1
  <2>1. CASE m < k
    <3>1. m + n - k \in 0 .. n - 1
      BY <1>1, <1>2, <2>1
    <3> QED BY <1>1, <2>1, <3>1 DEF Step
  <2>2. CASE ~ (m < k)
    <3>1. m - k \in 0 .. n - 1 /\ m + n - k = 1 * n + (m - k)
      BY <1>1, <1>2, <2>2
    <3>2. (1 * n + (m - k)) % n = m - k
      <4> DEFINE i == m - k
      <4>1. i \in 0 .. n - 1 /\ 1 \in Nat
        BY <3>1
      <4> HIDE DEF i
      <4>2. (1 * n + i) % n = i
        BY <1>1, <4>1, DivMod
      <4> QED BY <4>2 DEF i
    <3> QED BY <2>2, <3>1, <3>2 DEF Step
  <2> QED BY <2>1, <2>2
<1>4. \A m \in 0 .. n - 1 : Step(n, k, m) \in 0 .. n - 1
  BY <1>1, <1>2, <1>3
<1>5. \A m, l \in 0 .. n - 1 : Step(n, k, m) = Step(n, k, l) => m = l
  BY <1>1, <1>2, <1>3
<1>6. \A d \in 0 .. n - 1 : \E m \in 0 .. n - 1 : Step(n, k, m) = d
  <2> TAKE d \in 0 .. n - 1
  <2>1. CASE d + k < n
    <3>1. d + k \in 0 .. n - 1 /\ Step(n, k, d + k) = d
      BY <1>1, <1>2, <1>3, <2>1
    <3> QED BY <3>1
  <2>2. CASE ~ (d + k < n)
    <3>1. d + k - n \in 0 .. n - 1 /\ Step(n, k, d + k - n) = d
      BY <1>1, <1>2, <1>3, <2>2
    <3> QED BY <3>1
  <2> QED BY <2>1, <2>2
<1>7. \A m \in 0 .. n - 1 : Step(n, k, m) = 0 <=> m = k
  BY <1>1, <1>2, <1>3
<1>8. \A m \in 0 .. n - 1 : Root(n, m) = Times(Root(n, k), Root(n, Step(n, k, m)))
  <2> TAKE m \in 0 .. n - 1
  <2> DEFINE d == Step(n, k, m)
  <2>1. d \in Nat /\ k \in Nat /\ m \in Nat
    BY <1>2, <1>4
  <2>2. Root(n, k + d) = Times(Root(n, k), Root(n, d))
    BY <2>1, RootKit
  <2>3. k + d = m \/ k + d = n * 1 + m
    BY <1>1, <1>2, <1>3
  <2>4. Root(n, n * 1 + m) = Root(n, m)
    BY <2>1, RootPeriod
  <2> QED BY <2>2, <2>3, <2>4
<1> QED BY <1>2, <1>3, <1>4, <1>5, <1>6, <1>7, <1>8

\* A sum over the steps from k is a sum over the domain.
StepsTotal(n, k, w, v) ==
    /\ n \in DomainSizes /\ k \in Domain(n)
    /\ {w, v} \subseteq [Domain(n) -> Scalars]
    /\ \A m \in Domain(n) : w[m] = v[Step(n, k, m)]

\* which reorder a sum.
LEMMA StepsRenamed ==
    ASSUME NEW n, NEW k, NEW w, NEW v, StepsTotal(n, k, w, v)
    PROVE  Total(w) = Total(v)
<1>0. /\ n \in DomainSizes /\ k \in Domain(n)
      /\ w \in [Domain(n) -> Scalars] /\ v \in [Domain(n) -> Scalars]
      /\ \A m \in Domain(n) : w[m] = v[Step(n, k, m)]
  BY DEF StepsTotal
<1> DEFINE D == Domain(n)
           p == [m \in D |-> Step(n, k, m)]
<1>1. IsFiniteSet(D)
  BY <1>0, RootKit, DomainFinite
<1>2. /\ \A m \in D : Step(n, k, m) \in D
      /\ \A m, l \in D : Step(n, k, m) = Step(n, k, l) => m = l
      /\ \A d \in D : \E m \in D : Step(n, k, m) = d
  <2>1. n \in DomainSizes /\ k \in Domain(n)
    BY <1>0
  <2>2. \A m \in D : Step(n, k, m) \in D
    BY <2>1, StepLaws
  <2>3. \A m, l \in D : Step(n, k, m) = Step(n, k, l) => m = l
    BY <2>1, StepLaws
  <2>4. \A d \in D : \E m \in D : Step(n, k, m) = d
    BY <2>1, StepLaws
  <2> QED BY <2>2, <2>3, <2>4
<1>3. p \in [D -> D] /\ \A m \in D : p[m] = Step(n, k, m)
  BY <1>2
<1> HIDE DEF p, D
<1>4. IsRenamed(w, D, v, D, p)
  BY <1>0, <1>2, <1>3 DEF IsRenamed, D
<1> QED BY <1>1, <1>4, AllRenamed

\* The cyclic convolution of two vectors.
Convolution(n, x, y) == [k \in Domain(n) |-> Dot(Domain(n), [a \in Domain(n) |-> y[Step(n, a, k)]], x)]

\* A transform takes a convolution to a product.
LEMMA ConvolutionDft ==
    ASSUME NEW n \in DomainSizes, NEW x \in [Domain(n) -> Scalars], NEW y \in [Domain(n) -> Scalars],
           NEW e \in Domain(n)
    PROVE  /\ Convolution(n, x, y) \in [Domain(n) -> Scalars]
           /\ Dft(n, Convolution(n, x, y))[e] = Times(Dft(n, x)[e], Dft(n, y)[e])
<1> DEFINE D == Domain(n)
           w == [i \in D |-> Root(n, i * e)]
           M == [k \in D |-> [a \in D |-> y[Step(n, a, k)]]]
           c == Dft(n, y)[e]
           g == Preimage(D, D, w, M)
<1>1. n \in Nat /\ IsFiniteSet(D) /\ w \in [D -> Scalars]
      /\ Dft(n, y) \in [D -> Scalars] /\ Dft(n, x) \in [D -> Scalars] /\ c \in Scalars
  <2>1. n \in Nat
    BY RootKit
  <2>2. Dft(n, y) \in [D -> Scalars] /\ Dft(n, x) \in [D -> Scalars] /\ IsFiniteSet(D)
    BY DftType
  <2>3. w \in [D -> Scalars]
    BY DftType
  <2> QED BY <2>1, <2>2, <2>3
<1>2. M \in [D -> [D -> Scalars]]
  <2>1. \A k, a \in D : Step(n, a, k) \in D
    BY StepLaws
  <2>2. \A k, a \in D : y[Step(n, a, k)] \in Scalars
    BY <2>1
  <2> QED BY <2>2
<1>3. Convolution(n, x, y) = Image(D, D, M, x)
  BY DEF Convolution, Image
<1>4. IsMove(D, D, M, w, x)
  <2> HIDE DEF D, M, w
  <2> QED BY <1>1, <1>2 DEF IsMove, D
<1>5. /\ Dot(D, w, Image(D, D, M, x)) = Dot(D, g, x)
      /\ Image(D, D, M, x) \in [D -> Scalars]
      /\ g \in [D -> Scalars]
  <2> HIDE DEF D, M, w
  <2> QED BY <1>4, MatrixMove
<1>6. ASSUME NEW a \in D PROVE g[a] = Times(c, w[a])
  <2> DEFINE u == [k \in D |-> Times(w[k], M[k][a])]
             v == [b \in D |-> Times(Root(n, b * e), y[b])]
             s == [b \in D |-> Times(v[b], w[a])]
  <2>1. g[a] = Total(u)
    <3>1. g[a] = Dot(D, w, [k \in D |-> M[k][a]])
      BY DEF Preimage
    <3>2. Dot(D, w, [k \in D |-> M[k][a]]) = Total(u)
      BY DEF Dot
    <3> QED BY <3>1, <3>2
  <2>2. c = Total(v)
    <3>1. c = Dot(D, [b \in D |-> Root(n, b * e)], y)
      BY DEF Dft
    <3>2. Dot(D, [b \in D |-> Root(n, b * e)], y) = Total(v)
      BY DEF Dot
    <3> QED BY <3>1, <3>2
  <2>3. \A b \in D : b * e \in Nat /\ Root(n, b * e) \in Scalars
    <3>1. \A b \in D : b * e \in Nat
      BY <1>1 DEF Domain
    <3> QED BY <3>1, RootKit
  <2>4. v \in [D -> Scalars] /\ w[a] \in Scalars
    BY <1>1, <2>3, Closure
  <2>5. s \in [D -> Scalars]
    <3> HIDE DEF v, w
    <3> QED BY <2>4, Closure
  <2>6. u \in [D -> Scalars]
    <3> HIDE DEF w, M
    <3> QED BY <1>1, <1>2, Closure
  <2>7. \A k \in D : u[k] = s[Step(n, a, k)]
    <3> TAKE k \in D
    <3> DEFINE d == Step(n, a, k)
    <3>1. d \in D /\ Root(n, k) = Times(Root(n, a), Root(n, d))
      BY StepLaws
    <3>2. k \in Nat /\ a \in Nat /\ d \in Nat /\ e \in Nat
      BY <1>1, <3>1 DEF Domain
    <3> HIDE DEF d
    <3>3. Root(n, k * e) = Times(Root(n, a * e), Root(n, d * e))
      <4>1. \A i \in Nat : Root(n, i * e) = Power(Root(n, i), e) /\ Root(n, i) \in Scalars
        <5> TAKE i \in Nat
        <5>1. Element(n, 1) \in Scalars
          BY RootsAssumption
        <5>2. Power(Power(Element(n, 1), i), e) = Power(Element(n, 1), i * e)
          BY <3>2, <5>1, PowerTimes
        <5> QED BY <5>2, RootKit DEF Root
      <4>2. Power(Times(Root(n, a), Root(n, d)), e) = Times(Power(Root(n, a), e), Power(Root(n, d), e))
        BY <3>2, <4>1, PowerProduct
      <4> QED BY <3>1, <3>2, <4>1, <4>2
    <3>4. u[k] = Times(Root(n, k * e), y[d])
      BY DEF d
    <3>5. s[d] = Times(Times(Root(n, d * e), y[d]), Root(n, a * e))
      BY <3>1
    <3> DEFINE p == Root(n, a * e)
               q == Root(n, d * e)
               z == y[d]
    <3>6. p \in Scalars /\ q \in Scalars /\ z \in Scalars
      BY <2>3, <3>1
    <3> HIDE DEF p, q, z, u, s
    <3>7. Times(Times(p, q), z) = Times(Times(q, z), p)
      <4>1. Times(q, z) \in Scalars
        BY <3>6, Closure
      <4> QED BY <3>6, <4>1, TimesLaws
    <3>8. u[k] = s[d]
      BY <3>3, <3>4, <3>5, <3>7 DEF p, q, z
    <3> QED BY <3>8 DEF d
  <2> HIDE DEF u, s, v
  <2>8. StepsTotal(n, a, u, s)
    BY <2>5, <2>6, <2>7 DEF StepsTotal
  <2>9. Total(u) = Total(s)
    BY <2>8, StepsRenamed
  <2>10. Total(s) = Times(Total(v), w[a])
    <3>1. \A b \in D : s[b] = Times(v[b], w[a])
      BY DEF s
    <3> HIDE DEF D, w
    <3> QED BY <1>1, <2>4, <2>5, <3>1, AllScale
  <2> QED BY <2>1, <2>2, <2>9, <2>10
<1>7. Dot(D, g, x) = Times(c, Dot(D, w, x))
  <2>1. x \in [D -> Scalars]
    OBVIOUS
  <2> HIDE DEF g, w, c, D
  <2>2. IsScaled(D, g, w, c)
    BY <1>6 DEF IsScaled
  <2> QED BY <1>1, <1>5, <2>1, <2>2, DotScale
<1>8. Dft(n, x)[e] = Dot(D, w, x) /\ Dft(n, Convolution(n, x, y))[e] = Dot(D, w, Convolution(n, x, y))
  BY DEF Dft
<1>9. Times(c, Dot(D, w, x)) = Times(Dft(n, x)[e], c)
  <2>1. Dft(n, x)[e] \in Scalars
    BY <1>1
  <2> QED BY <1>1, <1>8, <2>1, TimesLaws
<1> QED BY <1>3, <1>5, <1>7, <1>8, <1>9

\* The convolution theorem, with the transforms of the code.
LEMMA ConvolutionIs ==
    ASSUME NEW n \in DomainSizes, NEW x \in [Domain(n) -> Scalars], NEW y \in [Domain(n) -> Scalars]
    PROVE  /\ Ifft(n, [k \in Domain(n) |-> Fft(n, x)[k] \otimes Fft(n, y)[k]]) = Convolution(n, x, y)
           /\ Convolution(n, x, y) \in [Domain(n) -> Scalars]
<1> DEFINE D == Domain(n)
           z == Convolution(n, x, y)
           f == [k \in D |-> Fft(n, x)[k] \otimes Fft(n, y)[k]]
<1>1. 0 \in D
  <2>1. n \in Nat \ {0}
    BY RootKit
  <2> QED BY <2>1 DEF Domain
<1>2. z \in [D -> Scalars]
  BY <1>1, ConvolutionDft
<1>3. Dft(n, z) \in [D -> Scalars]
  BY <1>2, DftType
<1>4. f = Dft(n, z)
  <2>1. Fft(n, x) = Dft(n, x) /\ Fft(n, y) = Dft(n, y)
    BY FftIs
  <2>2. \A k \in D : f[k] = Dft(n, z)[k]
    BY <2>1, ConvolutionDft DEF \otimes
  <2>3. f = [k \in D |-> f[k]] /\ Dft(n, z) = [k \in D |-> Dft(n, z)[k]]
    BY <1>3
  <2> HIDE DEF f, z
  <2> QED BY <2>2, <2>3
<1> HIDE DEF z, f
<1>5. Ifft(n, Dft(n, z)) = Coefficients(n, Dft(n, z))
  BY <1>3, IfftIs
<1>6. \A i \in D : Coefficient(n, Dft(n, z), i) = z[i]
  BY <1>2, DftInverse
<1>7. Coefficients(n, Dft(n, z)) = z
  BY <1>2, <1>6 DEF Coefficients
<1> QED BY <1>2, <1>4, <1>5, <1>7 DEF z, f

\* F::from is additive up to twice a domain size.
LEMMA OfNatSum ==
    ASSUME NEW n \in DomainSizes
    PROVE  /\ \A k \in 0 .. 2 * n : OfNat(k) \in Scalars
           /\ OfNat(2 * n) = Plus(OfNat(n), OfNat(n)) /\ OfNat(2 * n) # Zero
           /\ OfNat(n) = Plus(OfNat(n - 1), One)
<1>1. n \in Nat \ {0} /\ n \in Nat /\ Zero \in Scalars /\ One \in Scalars
  BY RootKit, Closure
<1>2. /\ OfNat(0) = Zero /\ OfNat(2 * n) # Zero
      /\ \A k \in 1 .. 2 * n : OfNat(k) = Plus(OfNat(k - 1), One)
  BY RootsAssumption DEF \oplus
<1>3. \A k \in 0 .. 2 * n : OfNat(k) \in Scalars
  <2> DEFINE Good == {k \in Nat : k <= 2 * n => OfNat(k) \in Scalars}
  <2>1. 0 \in Good
    BY <1>1, <1>2
  <2>2. ASSUME NEW k \in Nat, k \in Good PROVE k + 1 \in Good
    <3>1. CASE k + 1 <= 2 * n
      <4>1. k + 1 \in 1 .. 2 * n /\ (k + 1) - 1 = k /\ k <= 2 * n
        BY <1>1, <3>1
      <4>2. OfNat(k + 1) = Plus(OfNat(k), One)
        BY <1>2, <4>1
      <4> QED BY <1>1, <2>2, <4>1, <4>2, Closure
    <3> QED BY <3>1
  <2> HIDE DEF Good
  <2>3. Nat \subseteq Good
    BY <2>1, <2>2, SetInduction
  <2> QED BY <1>1, <2>3 DEF Good
<1>4. \A k \in 0 .. n : OfNat(n + k) = Plus(OfNat(n), OfNat(k))
  <2> DEFINE Good == {k \in Nat : k <= n => OfNat(n + k) = Plus(OfNat(n), OfNat(k))}
  <2>0. OfNat(n) \in Scalars
    BY <1>1, <1>3
  <2>1. 0 \in Good
    <3>1. n + 0 = n
      BY <1>1
    <3> QED BY <1>2, <2>0, <3>1, PlusZero
  <2>2. ASSUME NEW k \in Nat, k \in Good PROVE k + 1 \in Good
    <3>1. SUFFICES ASSUME k + 1 <= n PROVE OfNat(n + (k + 1)) = Plus(OfNat(n), OfNat(k + 1))
      OBVIOUS
    <3>2. /\ k + 1 \in 1 .. 2 * n /\ n + (k + 1) \in 1 .. 2 * n /\ (k + 1) - 1 = k
          /\ (n + (k + 1)) - 1 = n + k /\ k <= n /\ k \in 0 .. 2 * n
      BY <1>1, <3>1
    <3>3. OfNat(n + (k + 1)) = Plus(OfNat(n + k), One) /\ OfNat(k + 1) = Plus(OfNat(k), One)
      BY <1>2, <3>2
    <3>4. OfNat(n + k) = Plus(OfNat(n), OfNat(k)) /\ OfNat(k) \in Scalars
      BY <1>3, <2>2, <3>2
    <3> QED BY <1>1, <2>0, <3>3, <3>4, PlusLaws
  <2> HIDE DEF Good
  <2>3. Nat \subseteq Good
    BY <2>1, <2>2, SetInduction
  <2> QED BY <1>1, <2>3 DEF Good
<1>5. OfNat(2 * n) = Plus(OfNat(n), OfNat(n))
  <2>1. n + n = 2 * n /\ n \in 0 .. n
    BY <1>1
  <2> QED BY <1>4, <2>1
<1>6. OfNat(n) = Plus(OfNat(n - 1), One)
  <2>1. n \in 1 .. 2 * n
    BY <1>1
  <2> QED BY <1>2, <2>1
<1> QED BY <1>2, <1>3, <1>5, <1>6

\* w / c (1 - w) and its counterpart at 1 / w.
Mirror(c, i, w, x, u, y) ==
    /\ {c, i, w, x, u, y} \subseteq Scalars
    /\ Times(c, i) = One /\ Times(w, x) = One
    /\ Times(u, Times(c, Plus(One, Minus(w)))) = One
    /\ Times(y, Times(c, Plus(One, Minus(x)))) = One

\* An entry of the kernel and its mirror image.
LEMMA MirrorSum ==
    ASSUME NEW c, NEW i, NEW w, NEW x, NEW u, NEW y, Mirror(c, i, w, x, u, y)
    PROVE  Plus(Times(w, u), Times(x, y)) = Minus(i)
<1>0. /\ c \in Scalars /\ i \in Scalars /\ w \in Scalars /\ x \in Scalars /\ u \in Scalars /\ y \in Scalars
      /\ Times(c, i) = One /\ Times(w, x) = One
  BY DEF Mirror
<1>1. One \in Scalars /\ Minus(w) \in Scalars /\ Minus(x) \in Scalars
  BY <1>0, Closure
<1> DEFINE d == Plus(One, Minus(w))
           e == Plus(One, Minus(x))
           a == Times(c, d)
           p == Times(w, u)
           q == Times(x, y)
<1>2. d \in Scalars /\ e \in Scalars /\ a \in Scalars /\ p \in Scalars /\ q \in Scalars
  BY <1>0, <1>1, Closure
<1>3. Times(u, a) = One /\ Times(y, Times(c, e)) = One
  BY DEF Mirror
<1>4. Times(x, d) = Minus(e)
  <2>1. Times(x, d) = Plus(Times(x, One), Times(x, Minus(w)))
    BY <1>0, <1>1, TimesPlus
  <2>2. Times(x, One) = x /\ Times(x, Minus(w)) = Minus(Times(x, w)) /\ Times(x, w) = One
    BY <1>0, MinusTimes, TimesLaws
  <2>3. Minus(e) = Plus(Minus(One), Minus(Minus(x))) /\ Minus(Minus(x)) = x
    BY <1>0, <1>1, MinusPlusLaw, MinusMinus
  <2>4. Plus(x, Minus(One)) = Plus(Minus(One), x)
    BY <1>0, <1>1, Closure, PlusLaws
  <2> QED BY <2>1, <2>2, <2>3, <2>4
<1> HIDE DEF d, e
<1>5. Times(q, a) = Minus(One)
  <2>1. Times(q, a) = Times(Times(x, y), Times(c, d))
    OBVIOUS
  <2>2. Times(Times(x, y), Times(c, d)) = Times(Times(y, c), Times(x, d))
    <3>1. Times(x, y) = Times(y, x) /\ Times(c, d) = Times(c, d)
      BY <1>0, TimesLaws
    <3>2. Times(Times(y, x), Times(c, d)) = Times(Times(y, c), Times(x, d))
      BY <1>0, <1>2, TimesRegroup
    <3> QED BY <3>1, <3>2
  <2>3. Times(Times(y, c), Minus(e)) = Minus(Times(Times(y, c), e))
    BY <1>0, <1>2, Closure, MinusTimes
  <2>4. Times(Times(y, c), e) = One
    BY <1>0, <1>2, <1>3, TimesLaws
  <2> QED BY <1>4, <2>1, <2>2, <2>3, <2>4
<1>6. Times(p, a) = w
  <2>1. Times(Times(w, u), a) = Times(w, Times(u, a))
    BY <1>0, <1>2, TimesLaws
  <2> QED BY <1>0, <1>3, <2>1, TimesLaws
<1>7. Times(Plus(p, q), a) = Plus(w, Minus(One))
  BY <1>2, <1>5, <1>6, Distributes
<1>8. Times(Minus(i), a) = Minus(d)
  <2>1. Times(Minus(i), a) = Minus(Times(i, a))
    BY <1>0, <1>2, MinusTimes
  <2>2. Times(i, Times(c, d)) = Times(Times(i, c), d) /\ Times(i, c) = One /\ Times(One, d) = d
    <3>1. Times(i, c) = Times(c, i) /\ Times(One, d) = Times(d, One)
      BY <1>0, <1>1, <1>2, TimesLaws
    <3> QED BY <1>0, <1>2, <3>1, TimesLaws
  <2> QED BY <2>1, <2>2
<1>9. Minus(d) = Plus(w, Minus(One))
  <2>1. Minus(d) = Plus(Minus(One), Minus(Minus(w))) /\ Minus(Minus(w)) = w
    BY <1>0, <1>1, MinusPlusLaw, MinusMinus DEF d
  <2>2. Plus(w, Minus(One)) = Plus(Minus(One), w)
    BY <1>0, <1>1, Closure, PlusLaws
  <2> QED BY <2>1, <2>2
<1>10. a # Zero
  BY <1>0, <1>2, <1>3, ReciprocalUnique
<1>11. Plus(p, q) \in Scalars /\ Minus(i) \in Scalars
  BY <1>0, <1>2, Closure
<1> HIDE DEF a, p, q
<1>12. Plus(p, q) = Minus(i)
  BY <1>2, <1>7, <1>8, <1>9, <1>10, <1>11, TimesCancel
<1> QED BY <1>12 DEF p, q

\* The entries of the kernel.
LEMMA KernelType ==
    ASSUME NEW n \in DomainSizes
    PROVE  /\ Kernel(n) \in [Domain(n) -> Scalars]
           /\ \A d \in Domain(n) : d # 0 =>
                 Times(Kernel(n)[d], Times(OfNat(n), Plus(One, Minus(Root(n, d))))) = One
           /\ Times(Kernel(n)[0], OfNat(2 * n)) = OfNat(n - 1)
<1> DEFINE D == Domain(n)
           u == Kernel(n)
<1>1. n \in Nat \ {0} /\ 0 \in D /\ Root(n, 0) = One /\ Element(n, 0) = One
      /\ \A d \in D : Element(n, d) = Root(n, d)
  <2>1. n \in Nat \ {0}
    BY RootKit
  <2>2. 0 \in D
    BY <2>1 DEF Domain
  <2> QED BY <2>1, <2>2, RootKit
<1>2. ASSUME NEW d \in D, d # 0
      PROVE  /\ u[d] \in Scalars
             /\ Times(u[d], Times(OfNat(n), Plus(One, Minus(Root(n, d))))) = One
  <2>1. u[d] = Reciprocal(OfNat(n) \otimes (One \ominus Element(n, d)))
    BY <1>2 DEF Kernel
  <2>2. u[d] = GapInverse(n, 0, d)
    BY <1>1, <2>1 DEF GapInverse, \otimes
  <2>3. /\ GapInverse(n, 0, d) \in Scalars
        /\ Times(GapInverse(n, 0, d), Times(OfNat(n), Element(n, 0) \ominus Element(n, d))) = One
    BY <1>1, <1>2, InverseType
  <2> QED BY <1>1, <2>2, <2>3 DEF \ominus
<1>3. OfNat(n - 1) \in Scalars /\ OfNat(2 * n) \in Scalars /\ OfNat(2 * n) # Zero
  <2>1. n - 1 \in 0 .. 2 * n /\ 2 * n \in 0 .. 2 * n
    BY <1>1
  <2> QED BY <2>1, OfNatSum
<1>4. u[0] = Times(OfNat(n - 1), Reciprocal(OfNat(2 * n)))
  BY <1>1 DEF Kernel, \otimes
<1>5. u[0] \in Scalars /\ Times(u[0], OfNat(2 * n)) = OfNat(n - 1)
  <2> DEFINE a == OfNat(n - 1)
             b == OfNat(2 * n)
             r == Reciprocal(b)
  <2> HIDE DEF a, b
  <2>1. a \in Scalars /\ b \in Scalars /\ b # Zero
    BY <1>3 DEF a, b
  <2>2. r \in Scalars /\ Times(r, b) = One
    BY <2>1, ReciprocalNonZero
  <2> HIDE DEF r
  <2>3. Times(a, r) \in Scalars /\ Times(Times(a, r), b) = Times(a, Times(r, b))
    BY <2>1, <2>2, Closure, TimesLaws
  <2>4. Times(a, One) = a
    BY <2>1, TimesLaws
  <2> QED BY <1>4, <2>2, <2>3, <2>4 DEF a, b, r
<1>6. u = [d \in D |-> u[d]]
  BY DEF Kernel
<1> HIDE DEF u
<1>7. \A d \in D : u[d] \in Scalars
  BY <1>2, <1>5
<1> QED BY <1>2, <1>5, <1>6, <1>7 DEF u

\* The kernel has no component along the elements of the domain.
LEMMA KernelBalance ==
    ASSUME NEW n \in DomainSizes
    PROVE  Dot(Domain(n), Elements(n), Kernel(n)) = Zero
<1> DEFINE D == Domain(n)
           u == Kernel(n)
           c == OfNat(n)
           i == Reciprocal(c)
           v == [d \in D |-> Times(Elements(n)[d], u[d])]
           mir(d) == IF d = 0 THEN 0 ELSE n - d
           p == [d \in D |-> mir(d)]
           y == [d \in D |-> v[mir(d)]]
           s == [d \in D |-> Plus(v[d], y[d])]
           w0 == Plus(s[0], i)
           f == [d \in D |-> Minus(i)]
           g == [d \in D |-> IF d = 0 THEN w0 ELSE Zero]
           S == Total(v)
<1>1. /\ n \in Nat \ {0} /\ n \in Nat /\ 0 \in D /\ IsFiniteSet(D)
      /\ c \in Scalars /\ c # Zero /\ i \in Scalars /\ Times(c, i) = One /\ Times(i, c) = One
      /\ Zero \in Scalars /\ One \in Scalars
  <2>1. n \in Nat \ {0} /\ n \in Nat
    BY RootKit
  <2>2. 0 \in D
    BY <2>1 DEF Domain
  <2>3. IsFiniteSet(D)
    BY <2>1, DomainFinite
  <2>4. c \in Scalars /\ c # Zero
    BY OfNatType
  <2>5. i \in Scalars /\ Times(c, i) = One /\ Times(i, c) = One
    <3> HIDE DEF c
    <3> QED BY <2>4, ReciprocalNonZero
  <2> QED BY <2>1, <2>2, <2>3, <2>4, <2>5, Closure
<1>2. /\ u \in [D -> Scalars] /\ Elements(n) \in [D -> Scalars]
      /\ \A d \in D : Elements(n)[d] = Root(n, d) /\ Root(n, d) \in Scalars
  <2>1. u \in [D -> Scalars]
    BY KernelType
  <2>2. \A d \in D : Elements(n)[d] = Root(n, d)
    BY RootKit DEF Elements
  <2>3. \A d \in D : d \in Nat
    BY <1>1 DEF Domain
  <2>4. \A d \in D : Root(n, d) \in Scalars
    BY <2>3, RootKit
  <2>5. Elements(n) = [d \in D |-> Elements(n)[d]]
    BY DEF Elements
  <2> QED BY <2>1, <2>2, <2>4, <2>5
<1>3. v \in [D -> Scalars]
  <2> HIDE DEF u
  <2> QED BY <1>2, Closure
<1>4. /\ \A d \in D : mir(d) \in D
      /\ \A d, e \in D : mir(d) = mir(e) => d = e
      /\ \A d \in D : mir(mir(d)) = d
  BY <1>1 DEF Domain
<1>5. Total(y) = S /\ y \in [D -> Scalars]
  <2>1. p \in [D -> D] /\ \A d \in D : p[d] = mir(d)
    BY <1>4
  <2>2. y \in [D -> Scalars] /\ \A d \in D : y[d] = v[p[d]]
    <3> HIDE DEF v
    <3> QED BY <1>3, <1>4
  <2>3. \A k \in D : \E d \in D : p[d] = k
    BY <1>4, <2>1
  <2>4. \A d, e \in D : p[d] = p[e] => d = e
    BY <1>4, <2>1
  <2> HIDE DEF p, v, y, D
  <2>5. IsRenamed(y, D, v, D, p)
    BY <1>3, <2>1, <2>2, <2>3, <2>4 DEF IsRenamed
  <2> QED BY <1>1, <2>2, <2>5, AllRenamed
<1>6. s \in [D -> Scalars] /\ Total(s) = Plus(S, S)
  <2>1. s \in [D -> Scalars] /\ \A d \in D : s[d] = Plus(v[d], y[d])
    <3> HIDE DEF v, y
    <3> QED BY <1>3, <1>5, Closure
  <2> HIDE DEF s, v, y, D
  <2>2. Total(s) = Plus(Total(v), Total(y))
    BY <1>1, <1>3, <1>5, <2>1, AllPlus
  <2> QED BY <1>5, <2>1, <2>2
<1>7. ASSUME NEW d \in D, d # 0 PROVE s[d] = Minus(i)
  <2> DEFINE w == Root(n, d)
             e == n - d
             x == Root(n, e)
  <2>1. e \in D /\ e # 0 /\ mir(d) = e /\ d + e = n /\ d \in Nat /\ e \in Nat
    BY <1>1, <1>7 DEF Domain
  <2>2. s[d] = Plus(Times(w, u[d]), Times(x, u[e]))
    <3>1. s[d] = Plus(v[d], v[e])
      BY <2>1
    <3>2. v[d] = Times(w, u[d]) /\ v[e] = Times(x, u[e])
      BY <1>2, <2>1
    <3> QED BY <3>1, <3>2
  <2>3. Times(w, x) = One /\ w \in Scalars /\ x \in Scalars
    <3>1. Root(n, d + e) = Times(Root(n, d), Root(n, e)) /\ Root(n, n) = One
      BY <2>1, RootKit
    <3> QED BY <1>2, <2>1, <3>1
  <2>4. /\ Times(u[d], Times(c, Plus(One, Minus(w)))) = One
        /\ Times(u[e], Times(c, Plus(One, Minus(x)))) = One
    BY <1>7, <2>1, KernelType
  <2>5. u[d] \in Scalars /\ u[e] \in Scalars
    BY <1>2, <2>1
  <2> HIDE DEF w, x, e, c, i, u
  <2>6. Mirror(c, i, w, x, u[d], u[e])
    BY <1>1, <2>3, <2>4, <2>5 DEF Mirror
  <2>7. Plus(Times(w, u[d]), Times(x, u[e])) = Minus(i)
    BY <2>6, MirrorSum
  <2> QED BY <2>2, <2>7
<1>8. w0 = One
  <2> DEFINE k == u[0]
             m == OfNat(n - 1)
  <2>1. k \in Scalars /\ m \in Scalars /\ Times(k, Plus(c, c)) = m /\ c = Plus(m, One)
    <3>1. n - 1 \in 0 .. 2 * n
      BY <1>1
    <3>2. m \in Scalars /\ c = Plus(m, One) /\ OfNat(2 * n) = Plus(c, c)
      BY <3>1, OfNatSum
    <3>3. Times(k, OfNat(2 * n)) = m
      BY KernelType
    <3> QED BY <1>1, <1>2, <3>2, <3>3
  <2>2. s[0] = Plus(k, k)
    <3>1. s[0] = Plus(v[0], v[0])
      BY <1>1
    <3>2. v[0] = Times(Root(n, 0), k) /\ Root(n, 0) = One
      BY <1>1, <1>2, RootKit
    <3>3. Times(One, k) = k
      BY <1>1, <2>1, TimesLaws
    <3> QED BY <3>1, <3>2, <3>3
  <2> HIDE DEF k, m, c, i
  <2>3. Times(Plus(k, k), c) = m
    <3>1. Times(Plus(k, k), c) = Plus(Times(k, c), Times(k, c))
      BY <1>1, <2>1, Distributes
    <3>2. Times(k, Plus(c, c)) = Plus(Times(k, c), Times(k, c))
      BY <1>1, <2>1, TimesPlus
    <3> QED BY <2>1, <3>1, <3>2
  <2>4. Plus(k, k) \in Scalars
    BY <2>1, Closure
  <2>5. Times(Plus(Plus(k, k), i), c) = Plus(m, One)
    BY <1>1, <2>3, <2>4, Distributes
  <2>6. Times(One, c) = c
    BY <1>1, TimesLaws
  <2>7. Plus(Plus(k, k), i) \in Scalars
    BY <1>1, <2>4, Closure
  <2>8. Plus(Plus(k, k), i) = One
    BY <1>1, <2>1, <2>5, <2>6, <2>7, TimesCancel
  <2> QED BY <2>2, <2>8
<1>9. f \in [D -> Scalars] /\ g \in [D -> Scalars] /\ \A d \in D : s[d] = Plus(f[d], g[d])
  <2>0. Minus(i) \in Scalars /\ s[0] \in Scalars /\ w0 \in Scalars
    <3> HIDE DEF i, s
    <3> QED BY <1>1, <1>6, Closure
  <2>1. f \in [D -> Scalars] /\ g \in [D -> Scalars]
    <3> HIDE DEF i, s, w0
    <3> QED BY <1>1, <2>0
  <2>2. ASSUME NEW d \in D PROVE s[d] = Plus(f[d], g[d])
    <3>1. CASE d # 0
      <4>1. s[d] = Minus(i) /\ f[d] = Minus(i) /\ g[d] = Zero
        BY <1>7, <3>1
      <4> HIDE DEF s, f, g, i
      <4> QED BY <2>0, <4>1, PlusZero
    <3>2. CASE d = 0
      <4>1. f[0] = Minus(i) /\ g[0] = w0
        BY <1>1
      <4> HIDE DEF s, f, g, i
      <4>2. Plus(Minus(i), Plus(s[0], i)) = s[0]
        <5>1. Plus(Minus(i), Plus(s[0], i)) = Plus(Plus(s[0], i), Minus(i))
          BY <1>1, <2>0, Closure, PlusLaws
        <5>2. Plus(Plus(s[0], i), Minus(i)) = Plus(s[0], Plus(i, Minus(i))) /\ Plus(i, Minus(i)) = Zero
          BY <1>1, <2>0, PlusLaws, PlusZero
        <5> QED BY <2>0, <5>1, <5>2, PlusZero
      <4> QED BY <3>2, <4>1, <4>2
    <3> QED BY <3>1, <3>2
  <2> QED BY <2>1, <2>2
<1>10. Total(f) = Minus(One)
  <2> DEFINE o == [d \in D |-> One]
  <2>1. o \in [D -> Scalars] /\ \A d \in D : f[d] = Times(o[d], Minus(i))
    <3>1. Times(One, Minus(i)) = Minus(i)
      <4> HIDE DEF i
      <4> QED BY <1>1, Closure, TimesLaws
    <3> QED BY <1>1, <3>1
  <2>2. Total(o) = c
    BY TotalOnes
  <2>3. Minus(i) \in Scalars
    <3> HIDE DEF i
    <3> QED BY <1>1, Closure
  <2> HIDE DEF o, f, D, i, c
  <2>4. Total(f) = Times(Total(o), Minus(i))
    BY <1>1, <1>9, <2>1, <2>3, AllScale
  <2>5. Times(c, Minus(i)) = Minus(Times(c, i))
    BY <1>1, MinusTimes
  <2> QED BY <1>1, <2>2, <2>4, <2>5
<1>11. Total(g) = One
  <2>1. g[0] = w0 /\ \A d \in D : d # 0 => g[d] = Zero
    BY <1>1
  <2> HIDE DEF g, D, w0
  <2> QED BY <1>1, <1>8, <1>9, <2>1, AllSingle
<1>12. Total(s) = Zero
  <2> HIDE DEF s, f, g, D
  <2>1. Total(s) = Plus(Total(f), Total(g))
    BY <1>1, <1>6, <1>9, AllPlus
  <2>2. Plus(Minus(One), One) = Zero
    BY <1>1, Closure, PlusLaws, PlusZero
  <2> QED BY <1>10, <1>11, <2>1, <2>2
<1>13. S \in Scalars
  <2> HIDE DEF v, D
  <2> QED BY <1>1, <1>3, TotalType
<1>14. S = Zero
  <2>1. Plus(c, c) # Zero /\ Plus(c, c) \in Scalars
    BY <1>1, OfNatSum, Closure
  <2> HIDE DEF S, c, s
  <2>2. Times(S, Plus(c, c)) = Zero
    <3>1. Times(S, Plus(c, c)) = Plus(Times(S, c), Times(S, c))
      BY <1>1, <1>13, TimesPlus
    <3>2. Times(Plus(S, S), c) = Plus(Times(S, c), Times(S, c))
      BY <1>1, <1>13, Distributes
    <3>3. Times(Zero, c) = Zero
      BY <1>1, TimesZero
    <3> QED BY <1>6, <1>12, <3>1, <3>2, <3>3
  <2> QED BY <1>13, <2>1, <2>2, TimesNonZero
<1>15. Dot(D, Elements(n), u) = S
  BY DEF Dot
<1> QED BY <1>14, <1>15

KernelFrom(n, k) == [a \in Domain(n) |-> Kernel(n)[Step(n, k, a)]]

\* The kernel around a point.
LEMMA KernelFromType ==
    ASSUME NEW n \in DomainSizes, NEW k \in Domain(n)
    PROVE  KernelFrom(n, k) \in [Domain(n) -> Scalars]
<1>1. \A a \in Domain(n) : Step(n, k, a) \in Domain(n)
  BY StepLaws
<1>2. Kernel(n) \in [Domain(n) -> Scalars]
  BY KernelType
<1> QED BY <1>1, <1>2 DEF KernelFrom

\* correct_diagonal: the convolution with the reversed kernel.
LEMMA DiagonalIs ==
    ASSUME NEW n \in DomainSizes, NEW lag \in [Domain(n) -> Scalars]
    PROVE  /\ DiagonalVector(n, lag) \in [Domain(n) -> Scalars]
           /\ \A k \in Domain(n) : DiagonalVector(n, lag)[k] = Dot(Domain(n), KernelFrom(n, k), lag)
<1> DEFINE D == Domain(n)
           u == Kernel(n)
           r == ReverseTail(n, u)
           z == Convolution(n, lag, r)
<1>1. n \in Nat \ {0} /\ n \in Nat /\ D = 0 .. n - 1
  BY RootKit DEF Domain
<1>2. \A k \in D : (n - k) % n = IF k = 0 THEN 0 ELSE n - k
  BY <1>1
<1>3. u \in [D -> Scalars]
  BY KernelType
<1>4. r \in [D -> Scalars]
  <2>1. \A k \in D : (n - k) % n \in D
    BY <1>1, <1>2
  <2> HIDE DEF u, D
  <2>2. \A k \in D : u[(n - k) % n] \in Scalars
    BY <1>3, <2>1
  <2> QED BY <2>2 DEF ReverseTail, D
<1>5. DiagonalVector(n, lag) = z /\ z \in [D -> Scalars]
  <2>1. DiagonalVector(n, lag) = Ifft(n, [k \in D |-> Fft(n, lag)[k] \otimes Fft(n, r)[k]])
    BY DEF DiagonalVector
  <2> HIDE DEF r, u
  <2>2. /\ Ifft(n, [k \in D |-> Fft(n, lag)[k] \otimes Fft(n, r)[k]]) = z
        /\ z \in [D -> Scalars]
    BY <1>4, ConvolutionIs
  <2> QED BY <2>1, <2>2
<1>6. ASSUME NEW k \in D PROVE z[k] = Dot(D, KernelFrom(n, k), lag)
  <2>1. ASSUME NEW a \in D PROVE r[Step(n, a, k)] = u[Step(n, k, a)]
    <3>1. Step(n, a, k) \in D /\ Step(n, a, k) = (IF k < a THEN k + n - a ELSE k - a)
      BY StepLaws
    <3>2. Step(n, k, a) = IF a < k THEN a + n - k ELSE a - k
      BY StepLaws
    <3>3. r[Step(n, a, k)] = u[(n - Step(n, a, k)) % n]
      BY <3>1 DEF ReverseTail
    <3>4. (n - Step(n, a, k)) % n = Step(n, k, a)
      <4> DEFINE d == Step(n, a, k)
                 e == Step(n, k, a)
      <4>1. d \in D /\ d = (IF k < a THEN k + n - a ELSE k - a) /\ e = IF a < k THEN a + n - k ELSE a - k
        BY <3>1, <3>2
      <4> HIDE DEF d, e
      <4>2. (n - d) % n = IF d = 0 THEN 0 ELSE n - d
        BY <1>2, <4>1
      <4>3. k \in 0 .. n - 1 /\ a \in 0 .. n - 1
        BY <1>1
      <4>4. (n - d) % n = e
        BY <1>1, <4>1, <4>2, <4>3
      <4> QED BY <4>4 DEF d, e
    <3> QED BY <3>3, <3>4
  <2>2. [a \in D |-> r[Step(n, a, k)]] = KernelFrom(n, k)
    <3> HIDE DEF r
    <3> QED BY <2>1 DEF KernelFrom
  <2>3. z[k] = Dot(D, [a \in D |-> r[Step(n, a, k)]], lag)
    <3> HIDE DEF r
    <3> QED BY DEF Convolution
  <2> QED BY <2>2, <2>3
<1> QED BY <1>5, <1>6

\* An entry of the kernel is the inverse of a difference.
LEMMA KernelStep ==
    ASSUME NEW n \in DomainSizes, NEW k \in Domain(n), NEW a \in Domain(n), a # k
    PROVE  /\ Kernel(n)[Step(n, k, a)] = Times(Root(n, k), GapInverse(n, k, a))
           /\ GapInverse(n, k, a) \in Scalars
<1> DEFINE d == Step(n, k, a)
           u == Kernel(n)[d]
           c == OfNat(n)
           wk == Root(n, k)
           wd == Root(n, d)
           i == GapInverse(n, k, a)
           e == Plus(One, Minus(wd))
           x == Times(c, e)
<1>1. d \in Domain(n) /\ d # 0 /\ Root(n, a) = Times(wk, wd)
  BY StepLaws
<1>2. Element(n, k) = wk /\ Element(n, a) = Root(n, a) /\ wk \in Scalars /\ wd \in Scalars
  <2>1. k \in Nat /\ d \in Nat
    BY <1>1, RootKit DEF Domain
  <2> QED BY <2>1, RootKit
<1>3. u \in Scalars /\ Times(u, x) = One
  <2> HIDE DEF d
  <2> QED BY <1>1, KernelType
<1>4. c \in Scalars /\ One \in Scalars
  BY OfNatType, Closure
<1>5. i \in Scalars /\ Times(i, Times(c, Plus(wk, Minus(Times(wk, wd))))) = One
  <2>1. /\ GapInverse(n, k, a) \in Scalars
        /\ Times(GapInverse(n, k, a), Times(OfNat(n), Element(n, k) \ominus Element(n, a))) = One
    BY InverseType
  <2> QED BY <1>1, <1>2, <2>1 DEF \ominus
<1> HIDE DEF u, d, c, wk, wd, i
<1>6. e \in Scalars /\ x \in Scalars
  BY <1>2, <1>4, Closure
<1>7. Plus(wk, Minus(Times(wk, wd))) = Times(wk, e)
  <2>1. Times(wk, e) = Plus(Times(wk, One), Times(wk, Minus(wd)))
    BY <1>2, <1>4, Closure, TimesPlus
  <2>2. Times(wk, One) = wk /\ Times(wk, Minus(wd)) = Minus(Times(wk, wd))
    BY <1>2, TimesLaws, MinusTimes
  <2> QED BY <2>1, <2>2
<1> HIDE DEF e
<1>8. Times(i, Times(c, Times(wk, e))) = Times(Times(wk, i), x)
  <2>1. Times(c, Times(wk, e)) = Times(wk, Times(c, e))
    BY <1>2, <1>4, <1>6, TimesRotate
  <2>2. Times(i, Times(wk, x)) = Times(Times(i, wk), x) /\ Times(i, wk) = Times(wk, i)
    BY <1>2, <1>5, <1>6, TimesLaws
  <2> QED BY <2>1, <2>2
<1> HIDE DEF x
<1>9. Times(wk, i) \in Scalars /\ Times(Times(wk, i), x) = Times(u, x) /\ x # Zero
  <2>1. x # Zero
    BY <1>3, <1>6, ReciprocalUnique
  <2> QED BY <1>2, <1>3, <1>5, <1>7, <1>8, <2>1, Closure
<1>10. Times(wk, i) = u
  BY <1>3, <1>6, <1>9, TimesCancel
<1> QED BY <1>5, <1>10 DEF u, d, wk, i

\* The balance, around any point.
LEMMA KernelFromBalance ==
    ASSUME NEW n \in DomainSizes, NEW k \in Domain(n)
    PROVE  Dot(Domain(n), Elements(n), KernelFrom(n, k)) = Zero
<1> DEFINE D == Domain(n)
           u == Kernel(n)
           e == Elements(n)
           q == KernelFrom(n, k)
           c == Root(n, k)
           w == [a \in D |-> Times(e[a], q[a])]
           v == [d \in D |-> Times(e[d], u[d])]
           s == [d \in D |-> Times(v[d], c)]
<1>1. /\ IsFiniteSet(D) /\ u \in [D -> Scalars] /\ q \in [D -> Scalars] /\ e \in [D -> Scalars]
      /\ \A d \in D : e[d] = Root(n, d)
      /\ c \in Scalars
  <2>1. n \in Nat
    BY RootKit
  <2>2. \A d \in D : d \in Nat
    BY <2>1 DEF Domain
  <2>3. \A d \in D : e[d] = Root(n, d) /\ Root(n, d) \in Scalars
    BY <2>2, RootKit DEF Elements
  <2>4. e \in [D -> Scalars]
    BY <2>3 DEF Elements
  <2> QED BY <2>1, <2>3, <2>4, DomainFinite, KernelType, KernelFromType
<1>2. v \in [D -> Scalars] /\ w \in [D -> Scalars]
  <2> HIDE DEF u, e, q
  <2> QED BY <1>1, Closure
<1>3. s \in [D -> Scalars]
  <2> HIDE DEF v, c
  <2> QED BY <1>1, <1>2, Closure
<1>4. \A a \in D : w[a] = s[Step(n, k, a)]
  <2> TAKE a \in D
  <2> DEFINE d == Step(n, k, a)
  <2>1. d \in D /\ Root(n, a) = Times(c, Root(n, d))
    BY StepLaws
  <2>2. w[a] = Times(Times(c, Root(n, d)), u[d])
    BY <1>1, <2>1 DEF KernelFrom
  <2> HIDE DEF d
  <2>3. s[d] = Times(Times(Root(n, d), u[d]), c)
    BY <1>1, <2>1
  <2> DEFINE x == Root(n, d)
             y == u[d]
  <2>4. x \in Scalars /\ y \in Scalars
    BY <1>1, <2>1
  <2> HIDE DEF x, y, c, w, s
  <2>5. Times(Times(c, x), y) = Times(Times(x, y), c)
    BY <1>1, <2>4, Closure, TimesLaws
  <2>6. w[a] = s[d]
    BY <2>2, <2>3, <2>5 DEF x, y
  <2> QED BY <2>6 DEF d
<1>5. Dot(D, e, q) = Total(w) /\ Total(v) = Zero
  <2>1. Dot(D, e, q) = Total(w) /\ Dot(D, e, u) = Total(v)
    BY DEF Dot
  <2> QED BY <2>1, KernelBalance
<1>6. Total(w) = Total(s)
  <2>1. StepsTotal(n, k, w, s)
    <3> HIDE DEF w, s
    <3> QED BY <1>2, <1>3, <1>4 DEF StepsTotal
  <2> QED BY <2>1, StepsRenamed
<1>7. Total(s) = Times(Total(v), c)
  <2>1. \A d \in D : s[d] = Times(v[d], c)
    OBVIOUS
  <2> HIDE DEF s, v, c, D
  <2> QED BY <1>1, <1>2, <1>3, <2>1, AllScale
<1>8. Times(Zero, c) = Zero
  <2> HIDE DEF c
  <2> QED BY <1>1, TimesZero
<1> QED BY <1>5, <1>6, <1>7, <1>8

\* One term of the sum below.
Around(z, r, lk, la, wk, wa, i) ==
    /\ {z, r, lk, la, wk, wa, i} \subseteq Scalars
    /\ Times(r, wk) = One
    /\ Times(lk, la) = Times(z, Times(i, Plus(Times(wa, lk), Minus(Times(wk, la)))))

\* One term of the diagonal, as a computation in the field.
LEMMA AroundTurn ==
    ASSUME NEW z, NEW r, NEW lk, NEW la, NEW wk, NEW wa, NEW i, Around(z, r, lk, la, wk, wa, i)
    PROVE  Times(z, Times(Times(wk, i), la))
             = Plus(Times(Times(Times(z, r), lk), Times(wa, Times(wk, i))), Minus(Times(lk, la)))
<1>0. /\ z \in Scalars /\ r \in Scalars /\ lk \in Scalars /\ la \in Scalars
      /\ wk \in Scalars /\ wa \in Scalars /\ i \in Scalars
      /\ Times(r, wk) = One
      /\ Times(lk, la) = Times(z, Times(i, Plus(Times(wa, lk), Minus(Times(wk, la)))))
  BY DEF Around
<1> DEFINE A == Times(z, Times(i, Times(wa, lk)))
           B == Times(z, Times(i, Times(wk, la)))
           p == Times(wa, lk)
           q == Times(wk, la)
<1>1. p \in Scalars /\ q \in Scalars /\ Minus(q) \in Scalars
      /\ Times(i, p) \in Scalars /\ Times(i, q) \in Scalars /\ A \in Scalars /\ B \in Scalars
  BY <1>0, Closure
<1>2. Times(lk, la) = Plus(A, Minus(B))
  <2> HIDE DEF p, q
  <2>1. Times(i, Plus(p, Minus(q))) = Plus(Times(i, p), Minus(Times(i, q)))
    <3>1. Times(i, Plus(p, Minus(q))) = Plus(Times(i, p), Times(i, Minus(q)))
      BY <1>0, <1>1, TimesPlus
    <3> QED BY <1>0, <1>1, <3>1, MinusTimes
  <2> DEFINE x == Times(i, p)
             y == Times(i, q)
  <2>2. Times(z, Plus(x, Minus(y))) = Plus(Times(z, x), Minus(Times(z, y)))
    <3> HIDE DEF x, y
    <3>0. x \in Scalars /\ y \in Scalars /\ Minus(y) \in Scalars
      BY <1>1, Closure DEF x, y
    <3>1. Times(z, Plus(x, Minus(y))) = Plus(Times(z, x), Times(z, Minus(y)))
      BY <1>0, <3>0, TimesPlus
    <3> QED BY <1>0, <3>0, <3>1, MinusTimes
  <2> QED BY <1>0, <2>1, <2>2 DEF p, q
<1>3. Times(z, Times(Times(wk, i), la)) = B
  <2>1. Times(Times(wk, i), la) = Times(i, Times(wk, la))
    <3>1. Times(wk, i) = Times(i, wk)
      BY <1>0, TimesLaws
    <3> QED BY <1>0, <3>1, TimesLaws
  <2> QED BY <2>1
<1>4. Times(Times(Times(z, r), lk), Times(wa, Times(wk, i))) = A
  <2>1. Times(Times(z, r), lk) = Times(Times(z, lk), r) /\ Times(z, lk) \in Scalars
    BY <1>0, TimesRotate, Closure
  <2>2. Times(wa, Times(wk, i)) = Times(wk, Times(wa, i)) /\ Times(wa, i) \in Scalars
    BY <1>0, TimesRotate, Closure
  <2>3. Times(Times(Times(z, lk), r), Times(wk, Times(wa, i)))
          = Times(Times(Times(z, lk), Times(wa, i)), Times(r, wk))
    <3> DEFINE x == Times(z, lk)
               y == Times(wa, i)
    <3>0. x \in Scalars /\ y \in Scalars
      BY <2>1, <2>2
    <3> HIDE DEF x, y
    <3>1. Times(wk, y) = Times(y, wk)
      BY <1>0, <3>0, TimesLaws
    <3>2. Times(Times(x, r), Times(y, wk)) = Times(Times(x, y), Times(r, wk))
      BY <1>0, <3>0, TimesRegroup
    <3> QED BY <3>1, <3>2 DEF x, y
  <2>4. Times(Times(z, lk), Times(wa, i)) = A
    <3>1. Times(Times(z, lk), Times(wa, i)) = Times(z, Times(lk, Times(wa, i)))
      BY <1>0, <2>2, TimesLaws
    <3>2. Times(lk, Times(wa, i)) = Times(i, Times(wa, lk))
      <4>1. Times(lk, Times(wa, i)) = Times(wa, Times(lk, i)) /\ Times(lk, i) = Times(i, lk)
        BY <1>0, TimesRotate, TimesLaws
      <4>2. Times(wa, Times(i, lk)) = Times(i, Times(wa, lk))
        BY <1>0, TimesRotate
      <4> QED BY <4>1, <4>2
    <3> QED BY <3>1, <3>2
  <2>5. Times(A, One) = A
    BY <1>1, TimesLaws
  <2> QED BY <1>0, <2>1, <2>2, <2>3, <2>4, <2>5
<1>5. B = Plus(A, Minus(Plus(A, Minus(B))))
  <2> HIDE DEF A, B
  <2>0. Minus(B) \in Scalars /\ Minus(A) \in Scalars
    BY <1>1, Closure
  <2>1. Minus(Plus(A, Minus(B))) = Plus(Minus(A), Minus(Minus(B))) /\ Minus(Minus(B)) = B
    BY <1>1, <2>0, MinusPlusLaw, MinusMinus
  <2>2. Plus(A, Plus(Minus(A), B)) = Plus(Plus(A, Minus(A)), B)
    BY <1>1, <2>0, PlusLaws
  <2>3. Plus(A, Minus(A)) = Zero /\ Plus(Zero, B) = B
    BY <1>1, PlusZero
  <2> QED BY <2>1, <2>2, <2>3
<1> QED BY <1>2, <1>3, <1>4, <1>5

\* The quotient of L_k (L_k - 1), from the partial fractions of L_k L_a over the other a.
LEMMA KernelLagrange ==
    ASSUME NEW n \in DomainSizes, NEW t \in Scalars, Vanishing(n, t) # Zero, NEW k \in Domain(n)
    PROVE  Times(Vanishing(n, t), Dot(Domain(n), KernelFrom(n, k), LagrangeAt(n, t)))
             = Plus(Times(Lagrange(n, k, t), Lagrange(n, k, t)), Minus(Lagrange(n, k, t)))
<1> DEFINE D == Domain(n)
           q == KernelFrom(n, k)
           L == LagrangeAt(n, t)
           e == Elements(n)
           z == Vanishing(n, t)
           lk == L[k]
           wk == Element(n, k)
           r == Reciprocal(wk)
           c == Times(Times(z, r), lk)
           v == [a \in D |-> Times(q[a], L[a])]
           f == [a \in D |-> Times(v[a], z)]
           b == [a \in D |-> Times(e[a], q[a])]
           f1 == [a \in D |-> Times(b[a], c)]
           h == [a \in D |-> Times(L[a], Minus(lk))]
           g == [a \in D |-> IF a = k THEN Times(lk, lk) ELSE Zero]
           f2 == [a \in D |-> Plus(h[a], g[a])]
<1>1. /\ IsFiniteSet(D) /\ z \in Scalars /\ L \in [D -> Scalars] /\ Total(L) = One
      /\ q \in [D -> Scalars] /\ e \in [D -> Scalars] /\ Dot(D, e, q) = Zero
      /\ wk \in Scalars /\ wk # Zero /\ \A a \in D : e[a] = Element(n, a)
      /\ \A a \in D : L[a] = Lagrange(n, a, t)
      /\ Zero \in Scalars
  <2>1. IsFiniteSet(D)
    BY RootKit, DomainFinite
  <2>2. z \in Scalars /\ L \in [D -> Scalars]
    BY OffDomain
  <2>3. Total(L) = One
    BY LagrangeOnes
  <2>4. q \in [D -> Scalars] /\ Dot(D, e, q) = Zero
    BY KernelFromType, KernelFromBalance
  <2>5. wk \in Scalars /\ wk # Zero /\ \A a \in D : Element(n, a) \in Scalars
    BY RootLaws
  <2>6. e \in [D -> Scalars] /\ \A a \in D : e[a] = Element(n, a)
    BY <2>5 DEF Elements
  <2>7. \A a \in D : L[a] = Lagrange(n, a, t)
    BY DEF LagrangeAt
  <2> QED BY <2>1, <2>2, <2>3, <2>4, <2>5, <2>6, <2>7, Closure
<1>2. r \in Scalars /\ Times(r, wk) = One /\ Times(wk, r) = One
  <2> HIDE DEF wk
  <2> QED BY <1>1, ReciprocalNonZero
<1>3. lk \in Scalars /\ c \in Scalars /\ Minus(lk) \in Scalars /\ Times(lk, lk) \in Scalars
  <2> HIDE DEF L, r, z
  <2> QED BY <1>1, <1>2, Closure
<1>4. v \in [D -> Scalars] /\ b \in [D -> Scalars] /\ h \in [D -> Scalars] /\ g \in [D -> Scalars]
  <2> HIDE DEF q, L, e
  <2> QED BY <1>1, <1>3, Closure
<1>5. f \in [D -> Scalars] /\ f1 \in [D -> Scalars] /\ f2 \in [D -> Scalars]
  <2> HIDE DEF v, b, h, g, c, z
  <2> QED BY <1>1, <1>3, <1>4, Closure
<1>6. ASSUME NEW a \in D PROVE f[a] = Plus(f1[a], f2[a])
  <2> DEFINE la == L[a]
             wa == Element(n, a)
             p == q[a]
  <2>0. la \in Scalars /\ wa \in Scalars /\ p \in Scalars
    BY <1>1
  <2>1. /\ f[a] = Times(Times(p, la), z) /\ f1[a] = Times(Times(wa, p), c)
        /\ f2[a] = Plus(Times(la, Minus(lk)), g[a])
    BY <1>1
  <2>2. Times(Times(p, la), z) = Times(z, Times(p, la)) /\ Times(Times(wa, p), c) = Times(c, Times(wa, p))
        /\ Times(la, Minus(lk)) = Minus(Times(lk, la))
    <3> HIDE DEF p, la, wa, c, lk, z
    <3>1. Times(p, la) \in Scalars /\ Times(wa, p) \in Scalars
      BY <2>0, Closure
    <3>2. Times(la, Minus(lk)) = Minus(Times(la, lk)) /\ Times(la, lk) = Times(lk, la)
      BY <1>3, <2>0, MinusTimes, TimesLaws
    <3> QED BY <1>1, <1>3, <2>0, <3>1, <3>2, TimesLaws
  <2>3. CASE a # k
    <3> DEFINE i == GapInverse(n, k, a)
    <3>1. p = Times(wk, i) /\ i \in Scalars
      <4>1. p = Kernel(n)[Step(n, k, a)]
        BY DEF KernelFrom
      <4>2. Kernel(n)[Step(n, k, a)] = Times(Root(n, k), GapInverse(n, k, a)) /\ GapInverse(n, k, a) \in Scalars
        BY <2>3, KernelStep
      <4>3. Root(n, k) = wk
        BY RootKit
      <4> QED BY <4>1, <4>2, <4>3
    <3>2. Times(lk, la) = Times(z, Times(i, Plus(Times(wa, lk), Minus(Times(wk, la)))))
      BY <1>1, <2>3, LagrangeProduct
    <3>3. g[a] = Zero
      BY <2>3
    <3> HIDE DEF i, p, la, wa, lk, wk, z, r
    <3>4. Around(z, r, lk, la, wk, wa, i)
      BY <1>1, <1>2, <1>3, <2>0, <3>1, <3>2 DEF Around
    <3>5. Times(z, Times(Times(wk, i), la))
             = Plus(Times(Times(Times(z, r), lk), Times(wa, Times(wk, i))), Minus(Times(lk, la)))
      BY <3>4, AroundTurn
    <3>6. Minus(Times(lk, la)) \in Scalars
      BY <1>3, <2>0, Closure
    <3>7. Plus(Minus(Times(lk, la)), Zero) = Minus(Times(lk, la))
      BY <3>6, PlusZero
    <3> HIDE DEF f, f1, f2, g
    <3> QED BY <2>1, <2>2, <3>1, <3>3, <3>5, <3>7
  <2>4. CASE a = k
    <3>1. la = lk /\ wa = wk /\ g[a] = Times(lk, lk)
      BY <2>4
    <3> HIDE DEF p, la, wa, lk, wk, z, r, f, f1, f2, g
    <3>2. f2[a] = Zero
      <4>1. Times(lk, lk) \in Scalars /\ Minus(Times(lk, lk)) \in Scalars
        BY <1>3, Closure
      <4>2. Plus(Minus(Times(lk, lk)), Times(lk, lk)) = Zero
        BY <4>1, PlusLaws, PlusZero
      <4> QED BY <2>1, <2>2, <3>1, <4>2
    <3>3. Times(c, Times(wk, p)) = Times(z, Times(p, lk))
      <4>1. Times(Times(z, r), lk) = Times(Times(z, lk), r) /\ Times(z, lk) \in Scalars
        BY <1>1, <1>2, <1>3, TimesRotate, Closure
      <4>2. Times(Times(Times(z, lk), r), Times(wk, p)) = Times(Times(z, lk), Times(r, Times(wk, p)))
        BY <1>1, <1>2, <2>0, <4>1, TimesLaws, Closure
      <4>3. Times(r, Times(wk, p)) = p
        <5>1. Times(r, Times(wk, p)) = Times(Times(r, wk), p) /\ Times(One, p) = p
          <6>1. Times(p, One) = p /\ Times(One, p) = Times(p, One)
            BY <2>0, Closure, TimesLaws
          <6> QED BY <1>1, <1>2, <2>0, <6>1, TimesLaws
        <5> QED BY <1>2, <5>1
      <4>4. Times(Times(z, lk), p) = Times(z, Times(p, lk))
        <5>1. Times(lk, p) = Times(p, lk)
          BY <1>3, <2>0, TimesLaws
        <5> QED BY <1>1, <1>3, <2>0, <5>1, TimesLaws
      <4> QED BY <4>1, <4>2, <4>3, <4>4
    <3>4. f1[a] \in Scalars
      BY <1>5
    <3>5. Plus(f1[a], Zero) = f1[a]
      BY <3>4, PlusZero
    <3> QED BY <2>1, <2>2, <3>1, <3>2, <3>3, <3>5
  <2> QED BY <2>3, <2>4
<1>7. Total(f) = Plus(Total(f1), Total(f2))
  <2> HIDE DEF f, f1, f2, D
  <2> QED BY <1>1, <1>5, <1>6, AllPlus
<1>8. Total(f1) = Zero
  <2>1. Dot(D, e, q) = Total(b)
    BY DEF Dot
  <2>2. \A a \in D : f1[a] = Times(b[a], c)
    OBVIOUS
  <2> HIDE DEF f1, b, c, D
  <2>3. Total(f1) = Times(Total(b), c)
    BY <1>1, <1>3, <1>4, <1>5, <2>2, AllScale
  <2> QED BY <1>1, <1>3, <2>1, <2>3, TimesZero
<1>9. Total(f2) = Plus(Total(h), Total(g))
  <2>1. \A a \in D : f2[a] = Plus(h[a], g[a])
    OBVIOUS
  <2> HIDE DEF f2, h, g, D
  <2> QED BY <1>1, <1>4, <1>5, <2>1, AllPlus
<1>10. Total(h) = Minus(lk)
  <2>1. \A a \in D : h[a] = Times(L[a], Minus(lk))
    OBVIOUS
  <2> HIDE DEF h, L, D, lk
  <2>2. Total(h) = Times(Total(L), Minus(lk))
    BY <1>1, <1>3, <1>4, <2>1, AllScale
  <2>3. Times(One, Minus(lk)) = Times(Minus(lk), One) /\ Times(Minus(lk), One) = Minus(lk)
    BY <1>3, Closure, TimesLaws
  <2> QED BY <1>1, <2>2, <2>3
<1>11. Total(g) = Times(lk, lk)
  <2>1. k \in D /\ g[k] = Times(lk, lk) /\ \A a \in D : a # k => g[a] = Zero
    OBVIOUS
  <2> HIDE DEF g, D, lk
  <2> QED BY <1>1, <1>4, <2>1, AllSingle
<1>12. Total(f) = Times(z, Dot(D, q, L))
  <2>1. Dot(D, q, L) = Total(v) /\ \A a \in D : f[a] = Times(v[a], z)
    BY DEF Dot
  <2> HIDE DEF f, v, D, z
  <2>2. Total(f) = Times(Total(v), z) /\ Total(v) \in Scalars
    BY <1>1, <1>4, <1>5, <2>1, AllScale, TotalType
  <2> QED BY <1>1, <2>1, <2>2, TimesLaws
<1>13. Plus(Zero, Plus(Minus(lk), Times(lk, lk))) = Plus(Times(lk, lk), Minus(lk))
  <2> HIDE DEF lk
  <2>1. Plus(Minus(lk), Times(lk, lk)) = Plus(Times(lk, lk), Minus(lk)) /\ Plus(Minus(lk), Times(lk, lk)) \in Scalars
    BY <1>3, Closure, PlusLaws
  <2> QED BY <2>1, PlusZero
<1>14. lk = Lagrange(n, k, t)
  BY <1>1
<1> HIDE DEF lk, f, f1, f2, h, g, v, b, q, L
<1> QED BY <1>7, <1>8, <1>9, <1>10, <1>11, <1>12, <1>13, <1>14 DEF q, L

--------------------------------------------------------------------------------
(***************************************************************************)
(* The quotient bases.                                                     *)
(***************************************************************************)
\* lagrange_srs: L_k at tau without its last coefficient, over delta.
IsLag(n, t, lag, e, g) ==
    /\ {e, g} \subseteq Scalars /\ lag \in [Domain(n) -> Scalars]
    /\ \A k \in Domain(n) : lag[k] = Times(e, Plus(Lagrange(n, k, t), Minus(Times(g, Element(n, k)))))

\* One power short, the group IFFT gives the Lagrange values but for their last coefficient.
LEMMA SrsIs ==
    ASSUME NEW c, NEW t, NEW w, KeyInputs(c, t, w)
    PROVE  IsLag(DomainSize(c), t, LagrangeSrs(c, ProvingKey(c, t, w)),
                 Times(Vanishing(DomainSize(c), t), Reciprocal(w.delta)),
                 Times(Reciprocal(OfNat(DomainSize(c))), Power(t, DomainSize(c) - 1)))
<1> DEFINE n == DomainSize(c)
           D == Domain(n)
           z == Vanishing(n, t)
           e == Times(z, Reciprocal(w.delta))
           i == Reciprocal(OfNat(n))
           g == Times(i, Power(t, n - 1))
           H == 0 .. n - 2
           hp == [j \in D |-> IF j \in H THEN Times(e, Power(t, j)) ELSE Zero]
           lag == LagrangeSrs(c, ProvingKey(c, t, w))
<1>1. c \in Circuits /\ t \in Scalars /\ z # Zero /\ w.delta \in Scalars /\ w.delta # Zero
  BY DEF KeyInputs
<1>2. n \in DomainSizes /\ n \in Nat \ {0} /\ IsFiniteSet(D)
  BY <1>1, CircuitKit
<1>3. e \in Scalars /\ i \in Scalars /\ g \in Scalars /\ (\A j \in D : Power(t, j) \in Scalars)
      /\ Zero \in Scalars /\ n - 1 \in D
  <2>1. z \in Scalars
    <3> HIDE DEF n
    <3> QED BY <1>1, <1>2, OffDomain
  <2>2. Reciprocal(w.delta) \in Scalars
    BY <1>1, ReciprocalNonZero
  <2>3. i \in Scalars
    <3> HIDE DEF n
    <3>1. OfNat(n) \in Scalars /\ OfNat(n) # Zero
      BY <1>2, OfNatType
    <3> QED BY <3>1, ReciprocalNonZero
  <2>4. \A j \in D : j \in Nat
    BY <1>2 DEF Domain
  <2>5. \A j \in D : Power(t, j) \in Scalars
    BY <1>1, <2>4, PowerType
  <2>6. n - 1 \in D
    BY <1>2 DEF Domain
  <2> HIDE DEF n, z, i, D
  <2> QED BY <2>1, <2>2, <2>3, <2>5, <2>6, Closure
<1>4. hp \in [D -> Scalars]
  <2> HIDE DEF n, D, e, H
  <2> QED BY <1>3, Closure
<1>5. lag = Coefficients(n, hp)
  <2> DEFINE key == ProvingKey(c, t, w)
  <2>1. key.h = KeyH(c, t, w) /\ DOMAIN key.h = H
    <3>1. key.h = KeyH(c, t, w)
      BY KeyIs
    <3> QED BY <3>1 DEF KeyH
  <2>2. \A j \in H : key.h[j] = Times(e, Power(t, j))
    BY <2>1 DEF KeyH
  <2>3. [k \in D |-> IF k \in DOMAIN key.h THEN key.h[k] ELSE Zero] = hp
    <3> HIDE DEF key, e, H, n, D
    <3> QED BY <2>1, <2>2
  <2>4. lag = Ifft(n, hp)
    <3>1. lag = Ifft(n, [k \in D |-> IF k \in DOMAIN key.h THEN key.h[k] ELSE Zero])
      BY DEF LagrangeSrs
    <3> HIDE DEF hp, n, key
    <3> QED BY <2>3, <3>1
  <2> HIDE DEF hp, n, D
  <2> QED BY <1>2, <1>4, <2>4, IfftIs DEF D
<1>6. ASSUME NEW k \in D
      PROVE  /\ lag[k] = Times(e, Plus(Lagrange(n, k, t), Minus(Times(g, Element(n, k)))))
             /\ lag[k] \in Scalars
  <2> DEFINE x == [j \in D |-> Root(n, (n - k) * j)]
             y == [j \in D |-> Times(x[j], hp[j])]
             W == Weights(n, k, t)
             l == Lagrange(n, k, t)
             wl == W[n - 1]
             G == [j \in D |-> IF j = n - 1 THEN Minus(wl) ELSE Zero]
             s == [j \in D |-> Plus(W[j], G[j])]
             u == [j \in D |-> Times(y[j], i)]
  <2>1. x \in [D -> Scalars] /\ lag[k] = Times(i, Dot(D, x, hp))
    <3>1. lag[k] = Coefficient(n, hp, k)
      BY <1>5 DEF Coefficients
    <3>0. k \in Domain(n) /\ hp \in [Domain(n) -> Scalars]
      BY <1>4
    <3> HIDE DEF hp, n
    <3>2. [j \in Domain(n) |-> Root(n, (n - k) * j)] \in [Domain(n) -> Scalars]
      <4>1. \A e1 \in Nat : Root(n, e1) \in Scalars
        BY <1>2, RootKit
      <4>2. \A j \in Domain(n) : (n - k) * j \in Nat
        <5>1. n - k \in Nat /\ \A j \in Domain(n) : j \in Nat
          BY <1>2, <3>0 DEF Domain
        <5> DEFINE d == n - k
        <5> HIDE DEF d
        <5>2. \A j \in Domain(n) : d * j \in Nat
          BY <5>1 DEF d
        <5> QED BY <5>2 DEF d
      <4> QED BY <4>1, <4>2
    <3>3. Coefficient(n, hp, k)
            = Times(Reciprocal(OfNat(n)),
                    Dot(Domain(n), [j \in Domain(n) |-> Root(n, (n - k) * j)], hp))
      BY <1>2, <3>0, CoefficientDot
    <3> QED BY <3>1, <3>2, <3>3
  <2>2. W \in [D -> Scalars] /\ Total(W) = l /\ l \in Scalars /\ wl \in Scalars
    <3> HIDE DEF n
    <3>1. W \in [Domain(n) -> Scalars]
      BY <1>1, <1>2, KernelTerms
    <3>2. Total(W) = l /\ l \in Scalars
      BY <1>1, <1>2, OffDomain
    <3> QED BY <1>3, <3>1, <3>2
  <2>3. \A j \in D : W[j] = Times(Times(i, x[j]), Power(t, j))
    <3> TAKE j \in D
    <3>1. W[j] = Times(Times(i, Element(n, (n - j) * k)), Power(t, j))
      BY DEF Weights
    <3>2. n - j \in 0 .. n /\ k \in Nat /\ j \in Nat /\ n - j \in Nat /\ n - k \in Nat
      BY <1>2 DEF Domain
    <3>3. Element(n, (n - j) * k) = Root(n, (n - j) * k)
      <4> DEFINE d == n - j
      <4>1. d \in 0 .. n /\ k \in Domain(n) /\ n \in DomainSizes
        BY <1>2, <3>2
      <4> HIDE DEF d, n
      <4>2. Element(n, d * k) = Root(n, d * k)
        BY <4>1, ElementRoot
      <4> QED BY <4>2 DEF d
    <3>4. Root(n, (n - j) * k) = Root(n, (n - k) * j)
      <4> DEFINE a == (n - j) * k
                 b == (n - k) * j
      <4>1. a \in Nat /\ b \in Nat /\ n * j + a = n * k + b
        BY <1>2, <3>2
      <4> HIDE DEF a, b, n
      <4>2. Root(n, n * j + a) = Root(n, a) /\ Root(n, n * k + b) = Root(n, b)
        BY <1>2, <3>2, <4>1, RootPeriod
      <4> QED BY <4>1, <4>2 DEF a, b
    <3> QED BY <3>1, <3>3, <3>4
  <2>4. wl = Times(g, Element(n, k))
    <3>1. wl = Times(Times(i, Element(n, (n - (n - 1)) * k)), Power(t, n - 1))
      BY <1>3 DEF Weights
    <3>2. (n - (n - 1)) * k = k
      BY <1>2 DEF Domain
    <3>3. Element(n, k) \in Scalars /\ Power(t, n - 1) \in Scalars
      <4> HIDE DEF n
      <4> QED BY <1>2, <1>3, RootLaws
    <3> DEFINE p == Power(t, n - 1)
               q == Element(n, k)
    <3>4. Times(Times(i, q), p) = Times(Times(i, p), q)
      <4> HIDE DEF i, p, q
      <4> QED BY <1>3, <3>3, TimesRotate DEF p, q
    <3> QED BY <3>1, <3>2, <3>4
  <2>5. y \in [D -> Scalars] /\ G \in [D -> Scalars]
    <3> HIDE DEF x, hp, W, n, D
    <3> QED BY <1>3, <1>4, <2>1, <2>2, Closure
  <2>6. s \in [D -> Scalars] /\ u \in [D -> Scalars]
    <3> HIDE DEF y, G, W, i, D
    <3> QED BY <1>3, <2>2, <2>5, Closure
  <2>7. \A j \in D : u[j] = Times(s[j], e)
    <3> TAKE j \in D
    <3> DEFINE a == x[j]
               p == Power(t, j)
    <3>0. a \in Scalars /\ p \in Scalars /\ W[j] \in Scalars /\ W[j] = Times(Times(i, a), p)
      BY <1>3, <2>1, <2>2, <2>3
    <3>1. u[j] = Times(Times(a, hp[j]), i) /\ s[j] = Plus(W[j], G[j])
      OBVIOUS
    <3>2. CASE j \in H
      <4>1. j # n - 1
        BY <1>2, <3>2
      <4>2. hp[j] = Times(e, p) /\ G[j] = Zero
        BY <3>2, <4>1
      <4> HIDE DEF a, p, W, u, s, hp, G, e, i
      <4>3. s[j] = Times(Times(i, a), p)
        BY <3>0, <3>1, <4>2, PlusZero
      <4>4. Times(Times(a, Times(e, p)), i) = Times(Times(Times(i, a), p), e)
        <5>1. Times(e, p) = Times(p, e) /\ Times(i, a) \in Scalars /\ Times(p, e) \in Scalars
              /\ Times(a, Times(p, e)) \in Scalars
          BY <1>3, <3>0, Closure, TimesLaws
        <5>2. Times(Times(a, Times(p, e)), i) = Times(i, Times(a, Times(p, e)))
          BY <1>3, <5>1, TimesLaws
        <5>3. Times(i, Times(a, Times(p, e))) = Times(Times(i, a), Times(p, e))
          BY <1>3, <3>0, <5>1, TimesLaws
        <5>4. Times(Times(i, a), Times(p, e)) = Times(Times(Times(i, a), p), e)
          BY <1>3, <3>0, <5>1, TimesLaws
        <5> QED BY <5>1, <5>2, <5>3, <5>4
      <4> QED BY <3>1, <4>2, <4>3, <4>4
    <3>3. CASE j \notin H
      <4>1. j = n - 1
        BY <1>2, <3>3 DEF Domain
      <4>2. hp[j] = Zero /\ G[j] = Minus(wl) /\ W[j] = wl
        BY <3>3, <4>1
      <4> HIDE DEF a, p, W, u, s, hp, G, e, i
      <4>3. s[j] = Zero
        BY <2>2, <3>1, <4>2, PlusZero
      <4>4. Times(a, Zero) = Zero /\ Times(Zero, i) = Zero /\ Times(Zero, e) = Zero
        BY <1>3, <3>0, TimesZero
      <4> QED BY <3>1, <4>2, <4>3, <4>4
    <3> QED BY <3>2, <3>3
  <2>8. Total(u) = Times(Total(y), i) /\ Total(u) = Times(Total(s), e)
    <3>1. \A j \in D : u[j] = Times(y[j], i)
      OBVIOUS
    <3> HIDE DEF u, y, s, i, e, D
    <3>2. Total(u) = Times(Total(y), i)
      BY <1>2, <1>3, <2>5, <2>6, <3>1, AllScale
    <3>3. Total(u) = Times(Total(s), e)
      BY <1>2, <1>3, <2>6, <2>7, AllScale
    <3> QED BY <3>2, <3>3
  <2>9. Total(s) = Plus(l, Minus(wl))
    <3>1. /\ \A j \in D : s[j] = Plus(W[j], G[j])
          /\ G[n - 1] = Minus(wl) /\ \A j \in D : j # n - 1 => G[j] = Zero
      BY <1>3
    <3> HIDE DEF s, W, G, D, l
    <3>2. Total(s) = Plus(Total(W), Total(G))
      BY <1>2, <2>2, <2>5, <2>6, <3>1, AllPlus
    <3>3. Total(G) = Minus(wl)
      <4> DEFINE j == n - 1
      <4> HIDE DEF j, n
      <4>1. j \in D /\ G[j] = Minus(wl) /\ \A k1 \in D : k1 # j => G[k1] = Zero
        BY <1>3, <3>1 DEF j
      <4> QED BY <1>2, <2>5, <4>1, AllSingle
    <3> QED BY <2>2, <3>2, <3>3
  <2>10. lag[k] = Times(Total(y), i)
    <3>1. Dot(D, x, hp) = Total(y)
      BY DEF Dot
    <3>2. Total(y) \in Scalars
      <4> HIDE DEF y, D
      <4> QED BY <1>2, <2>5, TotalType
    <3> HIDE DEF y, x, hp, i, lag
    <3> QED BY <1>3, <2>1, <3>1, <3>2, TimesLaws
  <2>11. Plus(l, Minus(wl)) \in Scalars
    <3> HIDE DEF l, wl
    <3> QED BY <2>2, Closure
  <2> DEFINE d == Plus(l, Minus(wl))
  <2> HIDE DEF lag, y, s, i, e, l, wl, u, d
  <2>12. lag[k] = Times(d, e)
    BY <2>8, <2>9, <2>10 DEF d
  <2>13. d \in Scalars
    BY <2>11 DEF d
  <2>14. Times(d, e) = Times(e, d) /\ Times(e, d) \in Scalars
    BY <1>3, <2>13, TimesLaws, Closure
  <2>15. lag[k] = Times(e, Plus(l, Minus(wl))) /\ lag[k] \in Scalars
    BY <2>12, <2>14 DEF d
  <2> QED BY <2>4, <2>15 DEF l
<1>7. lag = [k \in D |-> lag[k]]
  <2> HIDE DEF hp
  <2> QED BY <1>5 DEF Coefficients
<1> HIDE DEF lag, e, g, n
<1>8. lag \in [Domain(n) -> Scalars]
  BY <1>6, <1>7
<1>9. IsLag(n, t, lag, e, g)
  BY <1>3, <1>6, <1>8 DEF IsLag
<1> QED BY <1>9 DEF lag, e, g, n, z, i

\* The inverse of a difference changes sign with it.
LEMMA InverseFlip ==
    ASSUME NEW n \in DomainSizes, NEW k \in Domain(n), NEW m \in Domain(n), k # m
    PROVE  GapInverse(n, m, k) = Minus(GapInverse(n, k, m)) /\ GapInverse(n, k, m) \in Scalars
<1> DEFINE x == Element(n, k)
           y == Element(n, m)
           c == OfNat(n)
           i == GapInverse(n, k, m)
           d == Times(c, x \ominus y)
           e == Times(c, y \ominus x)
<1>1. x \in Scalars /\ y \in Scalars /\ c \in Scalars
  BY RootLaws, OfNatType
<1>2. i \in Scalars /\ d \in Scalars /\ Times(i, d) = One
  BY InverseType
<1>3. GapInverse(n, m, k) = Reciprocal(e)
  BY DEF GapInverse
<1>4. e = Minus(d)
  <2> HIDE DEF x, y, c
  <2>1. Minus(x) \in Scalars /\ Minus(y) \in Scalars /\ Minus(Minus(y)) = y
    BY <1>1, Closure, MinusMinus
  <2>2. Minus(Plus(x, Minus(y))) = Plus(Minus(x), Minus(Minus(y)))
    BY <1>1, <2>1, MinusPlusLaw
  <2>3. Minus(x \ominus y) = y \ominus x
    BY <1>1, <2>1, <2>2, PlusLaws DEF \ominus
  <2>4. x \ominus y \in Scalars
    BY <1>1, MinusType
  <2> DEFINE u == x \ominus y
  <2> HIDE DEF u
  <2>5. Times(c, Minus(u)) = Minus(Times(c, u))
    BY <1>1, <2>4, MinusTimes DEF u
  <2> QED BY <2>3, <2>5 DEF u
<1> HIDE DEF i, d, e
<1>5. Minus(i) \in Scalars /\ Minus(d) \in Scalars /\ Times(Minus(d), Minus(i)) = One
  <2>1. Times(d, i) = One
    BY <1>2, TimesLaws
  <2> QED BY <1>2, <2>1, MinusTimes
<1>6. Minus(i) = Reciprocal(Minus(d))
  BY <1>5, ReciprocalUnique
<1> QED BY <1>2, <1>3, <1>4, <1>6 DEF i

\* inverse_difference: read off the kernel.
LEMMA InverseDifferenceIs ==
    ASSUME NEW n \in DomainSizes, NEW k \in Domain(n), NEW m \in Domain(n), k # m
    PROVE  InverseDifference(n, k, m) = GapInverse(n, k, m) /\ GapInverse(n, k, m) \in Scalars
<1> DEFINE i == GapInverse(n, m, k)
           r == Root(n, m)
           q == Root(n, n - m)
<1>1. n \in Nat \ {0} /\ k \in Nat /\ m \in Nat /\ n - m \in Nat /\ n - m \in 0 .. n /\ 1 \in Domain(n)
  <2>1. n \in Nat \ {0}
    BY RootKit
  <2> QED BY <2>1 DEF Domain
<1>2. Kernel(n)[Step(n, m, k)] = Times(r, i) /\ i \in Scalars
  BY KernelStep
<1>3. Element(n, n - m) = q
  <2> DEFINE d == n - m
  <2>1. d \in 0 .. n
    BY <1>1
  <2>2. d * 1 = d
    BY <1>1
  <2> HIDE DEF d
  <2>3. Element(n, d * 1) = Root(n, d * 1)
    BY <1>1, <2>1, ElementRoot
  <2> QED BY <2>2, <2>3 DEF d
<1>4. r \in Scalars /\ q \in Scalars /\ Times(q, r) = One
  <2>1. Root(n, (n - m) + m) = Times(q, r) /\ Root(n, n) = One /\ r \in Scalars /\ q \in Scalars
    BY <1>1, RootKit
  <2>2. (n - m) + m = n
    BY <1>1
  <2> QED BY <2>1, <2>2
<1>5. InverseDifference(n, k, m) = Minus(Times(q, Kernel(n)[Step(n, m, k)]))
  BY <1>3 DEF InverseDifference, Step, \otimes
<1>6. i = Minus(GapInverse(n, k, m)) /\ GapInverse(n, k, m) \in Scalars
  BY InverseFlip
<1> HIDE DEF i, r, q
<1>7. Times(q, Times(r, i)) = i
  <2>1. Times(q, Times(r, i)) = Times(Times(q, r), i)
    BY <1>2, <1>4, TimesLaws
  <2>2. Times(One, i) = i
    BY <1>2, TimesLaws, Closure
  <2> QED BY <1>4, <2>1, <2>2
<1>8. Minus(i) = GapInverse(n, k, m)
  BY <1>6, MinusMinus
<1> QED BY <1>2, <1>5, <1>6, <1>7, <1>8

\* What the convolution sees of lagrange_srs: the missing coefficient is lost.
LEMMA DiagonalLag ==
    ASSUME NEW n \in DomainSizes, NEW t \in Scalars, Vanishing(n, t) # Zero, NEW k \in Domain(n),
           NEW lag, NEW e, NEW g, IsLag(n, t, lag, e, g)
    PROVE  /\ Dot(Domain(n), KernelFrom(n, k), lag)
                = Times(e, Dot(Domain(n), KernelFrom(n, k), LagrangeAt(n, t)))
           /\ Dot(Domain(n), KernelFrom(n, k), LagrangeAt(n, t)) \in Scalars
<1> DEFINE D == Domain(n)
           kf == KernelFrom(n, k)
           l == LagrangeAt(n, t)
           w == Elements(n)
           h == [j \in D |-> Times(g, w[j])]
           d == [j \in D |-> Plus(l[j], Minus(h[j]))]
<1>1. e \in Scalars /\ g \in Scalars /\ lag \in [D -> Scalars]
  BY DEF IsLag
<1>2. kf \in [D -> Scalars] /\ l \in [D -> Scalars] /\ w \in [D -> Scalars] /\ IsFiniteSet(D)
  <2>1. \A j \in D : Element(n, j) \in Scalars
    BY RootLaws
  <2>2. w \in [D -> Scalars]
    BY <2>1 DEF Elements
  <2> QED BY <2>2, KernelFromType, OffDomain, DomainFinite, RootKit
<1>3. \A j \in D : lag[j] = Times(e, d[j])
  <2>1. \A j \in D : lag[j] = Times(e, Plus(Lagrange(n, j, t), Minus(Times(g, Element(n, j)))))
    BY DEF IsLag
  <2>2. \A j \in D : l[j] = Lagrange(n, j, t) /\ w[j] = Element(n, j)
    BY DEF LagrangeAt, Elements
  <2> HIDE DEF l, w
  <2> QED BY <2>1, <2>2
<1>4. Dot(D, kf, w) = Zero
  <2>1. Dot(D, w, kf) = Zero
    BY KernelFromBalance
  <2> HIDE DEF D, w, kf
  <2> QED BY <1>2, <2>1, DotFlip
<1>5. h \in [D -> Scalars] /\ d \in [D -> Scalars]
  <2> HIDE DEF D, l, w
  <2> QED BY <1>1, <1>2, Closure
<1>6. IsScaled(D, lag, d, e) /\ IsDifference(D, d, l, h) /\ IsScaled(D, h, w, g)
  <2> HIDE DEF l, w
  <2> QED BY <1>3 DEF IsScaled, IsDifference
<1> HIDE DEF D, kf, l, w, h, d
<1>7. Dot(D, kf, lag) = Times(e, Dot(D, kf, d))
  BY <1>1, <1>2, <1>5, <1>6, DotScale
<1>8. Dot(D, kf, d) = Plus(Dot(D, kf, l), Minus(Dot(D, kf, h)))
  BY <1>2, <1>5, <1>6, DotSub
<1>9. Dot(D, kf, h) = Times(g, Dot(D, kf, w))
  BY <1>1, <1>2, <1>5, <1>6, DotScale
<1>10. Dot(D, kf, h) = Zero
  BY <1>1, <1>4, <1>9, TimesZero
<1>11. Dot(D, kf, l) \in Scalars
  BY <1>2, DotType
<1>12. Plus(Dot(D, kf, l), Minus(Zero)) = Dot(D, kf, l)
  BY <1>11, ZeroLaws DEF \ominus
<1> QED BY <1>7, <1>8, <1>10, <1>11, <1>12 DEF D, kf, l

\* Off the diagonal: a and b are lag_k and lag_m, x and y the points of the domain.
Pair(e, g, x, y, p, q, a, b, i, z, d, f) ==
    /\ {e, g, x, y, p, q, a, b, i, z, d, f} \subseteq Scalars
    /\ a = Times(e, Plus(p, Minus(Times(g, x)))) /\ b = Times(e, Plus(q, Minus(Times(g, y))))
    /\ e = Times(z, f) /\ Times(f, d) = One
    /\ Times(p, q) = Times(z, Times(i, Plus(Times(y, p), Minus(Times(x, q)))))

\* The missing coefficient cancels out of the off-diagonal formula.
LEMMA PairTurn ==
    ASSUME NEW e, NEW g, NEW x, NEW y, NEW p, NEW q, NEW a, NEW b, NEW i, NEW z, NEW d, NEW f,
           Pair(e, g, x, y, p, q, a, b, i, z, d, f)
    PROVE  /\ Times(i, Plus(Times(y, a), Minus(Times(x, b)))) \in Scalars
           /\ Times(Times(i, Plus(Times(y, a), Minus(Times(x, b)))), d) = Times(p, q)
<1>0. /\ e \in Scalars /\ g \in Scalars /\ x \in Scalars /\ y \in Scalars /\ p \in Scalars
      /\ q \in Scalars /\ a \in Scalars /\ b \in Scalars /\ i \in Scalars /\ z \in Scalars
      /\ d \in Scalars /\ f \in Scalars
      /\ a = Times(e, Plus(p, Minus(Times(g, x)))) /\ b = Times(e, Plus(q, Minus(Times(g, y))))
      /\ e = Times(z, f) /\ Times(f, d) = One
      /\ Times(p, q) = Times(z, Times(i, Plus(Times(y, p), Minus(Times(x, q)))))
  BY DEF Pair
<1> DEFINE gx == Times(g, x)
           gy == Times(g, y)
           u == Times(y, p)
           v == Times(x, q)
           h == Times(y, gx)
           s == u \ominus v
           o == Times(y, a) \ominus Times(x, b)
<1>1. gx \in Scalars /\ gy \in Scalars /\ u \in Scalars /\ v \in Scalars /\ h \in Scalars
  BY <1>0, Closure
<1>2. h = Times(x, gy)
  <2>1. h = Times(Times(y, g), x) /\ Times(Times(y, g), x) = Times(x, Times(y, g))
        /\ Times(y, g) = Times(g, y)
    BY <1>0, TimesLaws, Closure
  <2> QED BY <2>1
<1>3. Times(y, a) = Times(e, u \ominus h) /\ Times(x, b) = Times(e, v \ominus h)
  <2>1. p \ominus gx \in Scalars /\ q \ominus gy \in Scalars
    BY <1>0, <1>1, MinusType
  <2>2. a = Times(e, p \ominus gx) /\ b = Times(e, q \ominus gy)
    BY <1>0 DEF \ominus
  <2> HIDE DEF gx, gy
  <2>3. Times(y, a) = Times(e, Times(y, p \ominus gx)) /\ Times(x, b) = Times(e, Times(x, q \ominus gy))
    BY <1>0, <2>1, <2>2, TimesRotate
  <2>4. Times(y, p \ominus gx) = u \ominus h
    BY <1>0, <1>1, TimesSub DEF \otimes
  <2>5. Times(x, q \ominus gy) = v \ominus h
    BY <1>0, <1>1, <1>2, TimesSub DEF \otimes
  <2> QED BY <2>3, <2>4, <2>5
<1> HIDE DEF gx, gy, u, v, h
<1>4. o = Times(e, s)
  <2>1. u \ominus h \in Scalars /\ v \ominus h \in Scalars /\ h \ominus h = Zero /\ s \in Scalars
    BY <1>1, MinusType, ZeroLaws
  <2>2. (u \ominus h) \ominus (v \ominus h) = (u \ominus v) \ominus (h \ominus h)
    BY <1>1, SubSwap
  <2>3. s \ominus Zero = s
    BY <2>1, ZeroLaws
  <2>4. Times(e, (u \ominus h) \ominus (v \ominus h))
          = Times(e, u \ominus h) \ominus Times(e, v \ominus h)
    BY <1>0, <2>1, TimesSub DEF \otimes
  <2> QED BY <1>3, <2>1, <2>2, <2>3, <2>4
<1>5. s \in Scalars /\ o \in Scalars /\ Times(i, o) \in Scalars
  <2>1. s \in Scalars
    BY <1>1, MinusType
  <2> HIDE DEF s, o
  <2> QED BY <1>0, <1>4, <2>1, Closure
<1>6. Times(p, q) = Times(z, Times(i, s))
  BY <1>0 DEF s, u, v, \ominus
<1> HIDE DEF s
<1>7. Times(Times(i, Times(e, s)), d) = Times(p, q)
  <2> DEFINE n == Times(i, s)
  <2>0. n \in Scalars /\ Times(z, f) \in Scalars
    BY <1>0, <1>5, Closure
  <2>1. Times(i, Times(e, s)) = Times(e, n)
    BY <1>0, <1>5, TimesRotate
  <2> HIDE DEF n
  <2>2. Times(Times(e, n), d) = Times(Times(e, d), n)
    BY <1>0, <2>0, TimesRotate
  <2>3. Times(e, d) = z
    <3>1. Times(Times(z, f), d) = Times(z, Times(f, d))
      BY <1>0, TimesLaws
    <3> QED BY <1>0, <3>1, TimesLaws
  <2> QED BY <1>6, <2>1, <2>2, <2>3 DEF n
<1> HIDE DEF o
<1>8. Times(Times(i, o), d) = Times(p, q)
  BY <1>4, <1>7
<1> QED BY <1>5, <1>8 DEF o, \ominus

\* H_ij's part of a row of A and a row of B.
LEMMA RowPairIs ==
    ASSUME NEW c, NEW t, NEW w, KeyInputs(c, t, w),
           NEW k \in Domain(DomainSize(c)), NEW m \in Domain(DomainSize(c)),
           NEW lag, lag = LagrangeSrs(c, ProvingKey(c, t, w))
    PROVE  /\ RowPair(c, lag, DiagonalVector(DomainSize(c), lag), k, m) \in Scalars
           /\ Times(RowPair(c, lag, DiagonalVector(DomainSize(c), lag), k, m), w.delta)
                = Plus(Times(Lagrange(DomainSize(c), k, t), Lagrange(DomainSize(c), m, t)),
                       Minus(IF k = m THEN Lagrange(DomainSize(c), k, t) ELSE Zero))
<1> DEFINE n == DomainSize(c)
           D == Domain(n)
           diag == DiagonalVector(n, lag)
           z == Vanishing(n, t)
           d == w.delta
           f == Reciprocal(d)
           e == Times(z, f)
           g == Times(Reciprocal(OfNat(n)), Power(t, n - 1))
           p == Lagrange(n, k, t)
           q == Lagrange(n, m, t)
           h == RowPair(c, lag, diag, k, m)
<1>1. /\ c \in Circuits /\ t \in Scalars /\ z # Zero /\ d \in Scalars /\ d # Zero
      /\ n \in DomainSizes /\ k \in Domain(n) /\ m \in Domain(n)
  BY CircuitKit DEF KeyInputs
<1>2. IsLag(n, t, lag, e, g)
  BY SrsIs
<1>3. f \in Scalars /\ Times(f, d) = One
  BY <1>1, ReciprocalNonZero
<1>4. /\ p \in Scalars /\ q \in Scalars /\ z \in Scalars
      /\ Element(n, k) \in Scalars /\ Element(n, m) \in Scalars
  <2> HIDE DEF n
  <2> QED BY <1>1, OffDomain
<1>5. e \in Scalars /\ g \in Scalars /\ lag \in [D -> Scalars]
  BY <1>2 DEF IsLag
<1>6. h = IF k = m THEN diag[k]
          ELSE Times(InverseDifference(n, k, m),
                     Plus(Times(Element(n, m), lag[k]), Minus(Times(Element(n, k), lag[m]))))
  BY DEF RowPair, \otimes, \ominus
<1> HIDE DEF n, diag, h, d
<1>7. CASE k = m
  <2> DEFINE x == Dot(Domain(n), KernelFrom(n, k), LagrangeAt(n, t))
  <2>1. h = Dot(Domain(n), KernelFrom(n, k), lag)
    <3>1. diag[k] = Dot(Domain(n), KernelFrom(n, k), lag)
      BY <1>1, <1>5, DiagonalIs DEF diag
    <3> QED BY <1>6, <1>7, <3>1
  <2>2. Dot(Domain(n), KernelFrom(n, k), lag) = Times(e, x) /\ x \in Scalars
    <3> HIDE DEF e, g, z
    <3> QED BY <1>1, <1>2, DiagonalLag DEF z
  <2>3. Times(z, x) = Plus(Times(p, p), Minus(p))
    BY <1>1, KernelLagrange
  <2> HIDE DEF x, z, f, p
  <2>4. Times(Times(e, x), d) = Times(z, x)
    <3>1. Times(Times(e, x), d) = Times(Times(e, d), x)
      BY <1>1, <1>5, <2>2, TimesRotate
    <3>2. Times(Times(z, f), d) = Times(z, Times(f, d))
      BY <1>1, <1>3, <1>4, TimesLaws
    <3> QED BY <1>3, <1>4, <3>1, <3>2, TimesLaws
  <2>5. Times(e, x) \in Scalars
    BY <1>5, <2>2, Closure
  <2>6. h \in Scalars /\ Times(h, d) = Plus(Times(p, p), Minus(p))
    BY <2>1, <2>2, <2>3, <2>4, <2>5
  <2> QED BY <1>7, <2>6 DEF h, d, diag, n, p
<1>8. CASE k # m
  <2> DEFINE i == GapInverse(n, k, m)
             x == Element(n, k)
             y == Element(n, m)
             a == lag[k]
             b == lag[m]
  <2>1. i \in Scalars /\ InverseDifference(n, k, m) = i
    BY <1>1, <1>8, InverseDifferenceIs
  <2>2. /\ a = Times(e, Plus(p, Minus(Times(g, x)))) /\ b = Times(e, Plus(q, Minus(Times(g, y))))
        /\ a \in Scalars /\ b \in Scalars
    <3> HIDE DEF e, g, p, q
    <3> QED BY <1>1, <1>2, <1>5 DEF IsLag, p, q
  <2>3. Times(p, q) = Times(z, Times(i, Plus(Times(y, p), Minus(Times(x, q)))))
    BY <1>1, <1>8, LagrangeProduct
  <2>4. h = Times(i, Plus(Times(y, a), Minus(Times(x, b))))
    BY <1>6, <1>8, <2>1
  <2>5. e = Times(z, f)
    OBVIOUS
  <2> HIDE DEF i, x, y, a, b, e, g, p, q, z, f
  <2>6. Pair(e, g, x, y, p, q, a, b, i, z, d, f)
    BY <1>1, <1>3, <1>4, <1>5, <2>1, <2>2, <2>3, <2>5 DEF Pair, x, y
  <2>7. h \in Scalars /\ Times(h, d) = Times(p, q)
    BY <2>4, <2>6, PairTurn
  <2>8. Plus(Times(p, q), Minus(Zero)) = Times(p, q)
    <3>1. Times(p, q) \in Scalars
      BY <1>4, Closure
    <3> QED BY <3>1, ZeroLaws DEF \ominus
  <2> QED BY <1>8, <2>7, <2>8 DEF h, d, diag, n, p, q
<1> QED BY <1>7, <1>8

ScaleOf(D, w, v, c) ==
    /\ IsFiniteSet(D) /\ c \in Scalars /\ v \in [D -> Scalars] /\ w \in [D -> Scalars]
    /\ \A k \in D : w[k] = Times(v[k], c)

\* AllScale, with its typings in one hypothesis.
LEMMA ScaleTotal ==
    ASSUME NEW D, NEW w, NEW v, NEW c, ScaleOf(D, w, v, c)
    PROVE  Total(w) = Times(Total(v), c)
<1>1. /\ IsFiniteSet(D) /\ c \in Scalars /\ v \in [D -> Scalars] /\ w \in [D -> Scalars]
      /\ \A k \in D : w[k] = Times(v[k], c)
  BY DEF ScaleOf
<1> QED BY <1>1, AllScale

\* All pairs of rows of two columns x and y, weighted by what rows k and m share.
Shared(R, x, y, h) == [k \in R |-> [m \in R |-> Times(Times(x[k], y[m]), h[k][m])]]
IsShare(R, x, y, l, h, d) ==
    /\ IsFiniteSet(R) /\ {x, y, l} \subseteq [R -> Scalars] /\ d \in Scalars
    /\ h \in [R -> [R -> Scalars]]
    /\ \A k \in R : \A m \in R :
          Times(h[k][m], d) = Plus(Times(l[k], l[m]), Minus(IF k = m THEN l[k] ELSE Zero))

\* Two columns that meet: the product of their values less what they share on the domain.
LEMMA SharedTotal ==
    ASSUME NEW R, NEW x, NEW y, NEW l, NEW h, NEW d, IsShare(R, x, y, l, h, d)
    PROVE  /\ Shared(R, x, y, h) \in [R -> [R -> Scalars]]
           /\ Double(R, Shared(R, x, y, h)) \in Scalars
           /\ Times(Double(R, Shared(R, x, y, h)), d)
                = Plus(Times(Dot(R, l, x), Dot(R, l, y)), Minus(Dot(R, Products(R, l, x), y)))
<1>0. /\ IsFiniteSet(R) /\ x \in [R -> Scalars] /\ y \in [R -> Scalars] /\ l \in [R -> Scalars]
      /\ d \in Scalars /\ h \in [R -> [R -> Scalars]]
      /\ \A k \in R : \A m \in R :
            Times(h[k][m], d) = Plus(Times(l[k], l[m]), Minus(IF k = m THEN l[k] ELSE Zero))
  BY DEF IsShare
<1> DEFINE F == Shared(R, x, y, h)
           H == [k \in R |-> [m \in R |-> Times(F[k][m], d)]]
           lx == [k \in R |-> Times(l[k], x[k])]
           ly == [k \in R |-> Times(l[k], y[k])]
           X == [k \in R |-> [m \in R |-> Times(ly[m], lx[k])]]
           Y == [k \in R |-> [m \in R |-> IF m = k THEN Times(lx[k], y[k]) ELSE Zero]]
           meet == [k \in R |-> Times(lx[k], y[k])]
<1>1. F \in [R -> [R -> Scalars]]
  <2>1. \A k \in R : \A m \in R : h[k][m] \in Scalars
    BY <1>0
  <2>2. \A k \in R : \A m \in R : Times(Times(x[k], y[m]), h[k][m]) \in Scalars
    BY <1>0, <2>1, Closure
  <2> QED BY <2>2 DEF Shared
<1>2. lx \in [R -> Scalars] /\ ly \in [R -> Scalars]
  BY <1>0, Closure
<1>3. meet \in [R -> Scalars]
  <2> HIDE DEF lx
  <2> QED BY <1>0, <1>2, Closure
<1>4. H \in [R -> [R -> Scalars]] /\ X \in [R -> [R -> Scalars]] /\ Y \in [R -> [R -> Scalars]]
  <2> HIDE DEF F, lx, ly
  <2>1. \A k \in R : \A m \in R : Times(F[k][m], d) \in Scalars
    BY <1>0, <1>1, Closure
  <2>2. \A k \in R : \A m \in R : Times(ly[m], lx[k]) \in Scalars
    BY <1>2, Closure
  <2>3. \A k \in R : \A m \in R : (IF m = k THEN Times(lx[k], y[k]) ELSE Zero) \in Scalars
    BY <1>0, <1>2, Closure
  <2>4. H \in [R -> [R -> Scalars]]
    BY <2>1
  <2>5. X \in [R -> [R -> Scalars]]
    BY <2>2
  <2>6. Y \in [R -> [R -> Scalars]]
    BY <2>3
  <2> QED BY <2>4, <2>5, <2>6
<1>5. \A k \in R : \A m \in R : H[k][m] = Times(One, Plus(X[k][m], Minus(Y[k][m])))
  <2> TAKE k \in R
  <2> TAKE m \in R
  <2> DEFINE u == x[k]
             v == y[m]
             q == h[k][m]
             p == l[k]
             o == l[m]
             s == IF k = m THEN p ELSE Zero
             uv == Times(u, v)
  <2>1. /\ u \in Scalars /\ v \in Scalars /\ q \in Scalars /\ p \in Scalars /\ o \in Scalars
        /\ Times(q, d) = Plus(Times(p, o), Minus(s)) /\ Zero \in Scalars
    BY <1>0, Closure
  <2>2. H[k][m] = Times(Times(uv, q), d)
    BY DEF Shared
  <2>3. X[k][m] = Times(Times(o, v), Times(p, u))
    OBVIOUS
  <2>4. Y[k][m] = IF m = k THEN Times(Times(p, u), v) ELSE Zero
    BY DEF u, v, p
  <2>5. s \in Scalars /\ uv \in Scalars
    BY <2>1, Closure
  <2>6. X[k][m] \in Scalars /\ Y[k][m] \in Scalars
    BY <1>4
  <2>7. Y[k][m] = Times(uv, s)
    <3>1. CASE k = m
      <4>1. Times(Times(u, v), p) = Times(p, Times(u, v)) /\ Times(p, Times(u, v)) = Times(Times(p, u), v)
        <5> HIDE DEF u, v, p
        <5> QED BY <2>1, <2>5, TimesLaws
      <4> QED BY <2>4, <3>1, <4>1
    <3>2. CASE k # m
      <4>1. Times(uv, Zero) = Zero
        <5> HIDE DEF uv
        <5> QED BY <2>5, TimesZero
      <4> QED BY <2>4, <3>2, <4>1
    <3> QED BY <3>1, <3>2
  <2> HIDE DEF u, v, q, p, o, s, H, X, Y
  <2>8. Times(Times(o, v), Times(p, u)) = Times(uv, Times(p, o))
    <3>1. Times(Times(o, v), Times(p, u)) = Times(Times(o, p), Times(v, u))
      BY <2>1, TimesRegroup
    <3>2. Times(o, p) = Times(p, o) /\ Times(v, u) = Times(u, v)
      BY <2>1, TimesLaws
    <3>3. Times(p, o) \in Scalars
      BY <2>1, Closure
    <3>4. Times(Times(p, o), uv) = Times(uv, Times(p, o))
      BY <2>5, <3>3, TimesLaws
    <3> QED BY <3>1, <3>2, <3>4
  <2> HIDE DEF uv
  <2>9. H[k][m] = Times(uv, Times(p, o) \ominus s)
    <3>1. Times(Times(uv, q), d) = Times(uv, Times(q, d))
      BY <1>0, <2>1, <2>5, TimesLaws
    <3> QED BY <2>1, <2>2, <3>1 DEF \ominus
  <2>10. Times(uv, Times(p, o) \ominus s) = Times(uv, Times(p, o)) \ominus Times(uv, s)
    <3> DEFINE po == Times(p, o)
    <3>1. po \in Scalars
      BY <2>1, Closure
    <3> HIDE DEF po
    <3>2. Times(uv, po \ominus s) = Times(uv, po) \ominus Times(uv, s)
      BY <2>5, <3>1, TimesSub DEF \otimes
    <3> QED BY <3>2 DEF po
  <2>11. H[k][m] = X[k][m] \ominus Y[k][m]
    BY <2>3, <2>7, <2>8, <2>9, <2>10
  <2>12. X[k][m] \ominus Y[k][m] \in Scalars
    BY <2>6, MinusType
  <2>13. Times(One, X[k][m] \ominus Y[k][m]) = X[k][m] \ominus Y[k][m]
    BY <2>12, ZeroLaws DEF \otimes
  <2> QED BY <2>11, <2>13 DEF \ominus
<1>6. Double(R, H) = Times(One, Plus(Double(R, X), Minus(Double(R, Y))))
  <2> HIDE DEF H, X, Y
  <2>1. IsCombination(R, H, One, X, Y)
    BY <1>0, <1>4, <1>5, Closure DEF IsCombination
  <2> QED BY <2>1, DoubleCombination
<1>7. Double(R, X) = Times(Dot(R, l, x), Dot(R, l, y))
  <2> DEFINE row == [k \in R |-> Total(X[k])]
  <2>1. Total(ly) \in Scalars /\ Total(lx) \in Scalars
    <3> HIDE DEF lx, ly
    <3> QED BY <1>0, <1>2, TotalType
  <2>2. \A k \in R : row[k] = Times(Total(ly), lx[k])
    <3> TAKE k \in R
    <3> DEFINE f == X[k]
               a == lx[k]
    <3>1. f \in [R -> Scalars] /\ a \in Scalars /\ \A m \in R : f[m] = Times(ly[m], a)
      BY <1>2, <1>4
    <3> HIDE DEF f, a, ly
    <3>2. Total(f) = Times(Total(ly), a)
      <4>1. ScaleOf(R, f, ly, a)
        BY <1>0, <1>2, <3>1 DEF ScaleOf
      <4> QED BY <4>1, ScaleTotal
    <3> QED BY <3>2 DEF f, a
  <2>3. row \in [R -> Scalars] /\ \A k \in R : row[k] = Times(lx[k], Total(ly))
    <3> HIDE DEF lx, ly, X
    <3>1. \A k \in R : row[k] \in Scalars /\ row[k] = Times(lx[k], Total(ly))
      <4> TAKE k \in R
      <4> DEFINE a == lx[k]
                 b == Total(ly)
      <4>1. a \in Scalars /\ b \in Scalars /\ row[k] = Times(b, a)
        BY <1>2, <2>1, <2>2
      <4> HIDE DEF row, a, b
      <4>2. Times(b, a) = Times(a, b) /\ Times(b, a) \in Scalars
        BY <4>1, TimesLaws, Closure
      <4> QED BY <4>1, <4>2 DEF a, b
    <3> QED BY <3>1
  <2>4. Total(row) = Times(Total(lx), Total(ly))
    <3> DEFINE c == Total(ly)
    <3> HIDE DEF row, lx, c
    <3> QED BY <1>0, <1>2, <2>1, <2>3, AllScale DEF c
  <2> QED BY <2>4 DEF Double, Dot
<1>8. Double(R, Y) = Dot(R, Products(R, l, x), y)
  <2>1. \A k \in R : Total(Y[k]) = meet[k]
    <3> TAKE k \in R
    <3> DEFINE f == Y[k]
    <3>1. f \in [R -> Scalars] /\ f[k] = meet[k] /\ \A m \in R : m # k => f[m] = Zero
      BY <1>4
    <3> HIDE DEF f, meet
    <3>2. Total(f) = f[k]
      BY <1>0, <3>1, AllSingle
    <3> QED BY <3>1, <3>2 DEF f
  <2>2. [k \in R |-> Total(Y[k])] = meet
    <3> HIDE DEF Y
    <3> QED BY <2>1
  <2>3. Dot(R, Products(R, l, x), y) = Total(meet)
    BY DEF Dot, Products
  <2> QED BY <2>2, <2>3 DEF Double
<1>9. Double(R, H) = Times(Double(R, F), d)
  <2> DEFINE f == [k \in R |-> Total(F[k])]
             g == [k \in R |-> Total(H[k])]
  <2>1. f \in [R -> Scalars] /\ g \in [R -> Scalars]
    <3> HIDE DEF F, H
    <3> QED BY <1>0, <1>1, <1>4, TotalType
  <2>2. \A k \in R : g[k] = Times(f[k], d)
    <3> TAKE k \in R
    <3> DEFINE a == F[k]
               b == H[k]
    <3>1. a \in [R -> Scalars] /\ b \in [R -> Scalars] /\ \A m \in R : b[m] = Times(a[m], d)
      BY <1>1, <1>4
    <3> HIDE DEF a, b
    <3>2. Total(b) = Times(Total(a), d)
      <4>1. ScaleOf(R, b, a, d)
        BY <1>0, <3>1 DEF ScaleOf
      <4> QED BY <4>1, ScaleTotal
    <3> QED BY <3>2 DEF a, b
  <2> HIDE DEF f, g
  <2>3. Total(g) = Times(Total(f), d)
    <3>1. ScaleOf(R, g, f, d)
      BY <1>0, <2>1, <2>2 DEF ScaleOf
    <3> QED BY <3>1, ScaleTotal
  <2> QED BY <2>3 DEF Double, f, g
<1>10. Double(R, F) \in Scalars /\ Double(R, X) \in Scalars /\ Double(R, Y) \in Scalars
  <2> HIDE DEF F, X, Y
  <2> QED BY <1>0, <1>1, <1>4, DoubleType
<1> HIDE DEF F, X, Y, H
<1>11. Times(One, Double(R, X) \ominus Double(R, Y)) = Double(R, X) \ominus Double(R, Y)
  <2>1. Double(R, X) \ominus Double(R, Y) \in Scalars
    BY <1>10, MinusType
  <2> QED BY <2>1, ZeroLaws DEF \otimes
<1> QED BY <1>1, <1>6, <1>7, <1>8, <1>9, <1>10, <1>11 DEF F, \ominus

\* The rows where column i of A meets column j of B.
Meets(c, t, i, j) ==
    Total([k \in Rows(c) |-> Times(Times(Lagrange(DomainSize(c), k, t), c.a[k][i]), c.b[k][j])])

\* A quotient base is A_i B_j less the polynomial that agrees with it on the domain, over delta.
LEMMA BaseIs ==
    ASSUME NEW c, NEW t, NEW w, KeyInputs(c, t, w), NEW i \in Cols(c), NEW j \in Cols(c),
           NEW lag, lag = LagrangeSrs(c, ProvingKey(c, t, w))
    PROVE  /\ Base(c, lag, DiagonalVector(DomainSize(c), lag), << i, j >>) \in Scalars
           /\ Meets(c, t, i, j) \in Scalars
           /\ ColumnsAt(c, c.a, t)[i] \in Scalars /\ ColumnsAt(c, c.b, t)[j] \in Scalars
           /\ Times(Base(c, lag, DiagonalVector(DomainSize(c), lag), << i, j >>), w.delta)
                = Plus(Times(ColumnsAt(c, c.a, t)[i], ColumnsAt(c, c.b, t)[j]),
                       Minus(Meets(c, t, i, j)))
<1> DEFINE n == DomainSize(c)
           R == Rows(c)
           diag == DiagonalVector(n, lag)
           d == w.delta
           x == [k \in R |-> c.a[k][i]]
           y == [k \in R |-> c.b[k][j]]
           l == [k \in R |-> Lagrange(n, k, t)]
           h == [k \in R |-> [m \in R |-> RowPair(c, lag, diag, k, m)]]
           F == Shared(R, x, y, h)
           V == [r \in R \X R |-> Times(Times(x[r[1]], y[r[2]]), h[r[1]][r[2]])]
           S == Support(c, c.a, i) \X Support(c, c.b, j)
           base == Base(c, lag, diag, << i, j >>)
<1>1. /\ c \in Circuits /\ t \in Scalars /\ Vanishing(n, t) # Zero /\ d \in Scalars
      /\ n \in DomainSizes /\ IsFiniteSet(R) /\ R \subseteq Domain(n)
      /\ c.a \in [R -> [Cols(c) -> Scalars]] /\ c.b \in [R -> [Cols(c) -> Scalars]]
  BY CircuitKit DEF KeyInputs
<1>2. x \in [R -> Scalars] /\ y \in [R -> Scalars]
  BY <1>1
<1>3. \A k \in Domain(n) : Lagrange(n, k, t) \in Scalars
  <2> HIDE DEF n
  <2> QED BY <1>1, OffDomain
<1>4. l \in [R -> Scalars]
  BY <1>1, <1>3
<1>5. \A k \in R : \A m \in R :
         /\ RowPair(c, lag, diag, k, m) \in Scalars
         /\ Times(RowPair(c, lag, diag, k, m), d)
              = Plus(Times(Lagrange(n, k, t), Lagrange(n, m, t)),
                     Minus(IF k = m THEN Lagrange(n, k, t) ELSE Zero))
  <2> TAKE k \in R
  <2> TAKE m \in R
  <2>1. k \in Domain(DomainSize(c)) /\ m \in Domain(DomainSize(c))
    BY <1>1
  <2> QED BY <2>1, RowPairIs
<1>6. h \in [R -> [R -> Scalars]]
      /\ \A k \in R : \A m \in R :
            Times(h[k][m], d) = Plus(Times(l[k], l[m]), Minus(IF k = m THEN l[k] ELSE Zero))
  <2> HIDE DEF R, diag, d, n
  <2> QED BY <1>5
<1>7. IsShare(R, x, y, l, h, d)
  <2> HIDE DEF R, x, y, l, h, d
  <2> QED BY <1>1, <1>2, <1>4, <1>6 DEF IsShare
<1>8. /\ F \in [R -> [R -> Scalars]] /\ Double(R, F) \in Scalars
      /\ Times(Double(R, F), d)
           = Plus(Times(Dot(R, l, x), Dot(R, l, y)), Minus(Dot(R, Products(R, l, x), y)))
  <2> HIDE DEF R, x, y, l, h, d
  <2> QED BY <1>7, SharedTotal
<1>9. base = Double(R, F)
  <2>1. V \in [R \X R -> Scalars]
    <3> HIDE DEF R, x, y, h
    <3>1. \A r \in R \X R : Times(Times(x[r[1]], y[r[2]]), h[r[1]][r[2]]) \in Scalars
      <4> TAKE r \in R \X R
      <4>1. r[1] \in R /\ r[2] \in R
        OBVIOUS
      <4>2. x[r[1]] \in Scalars /\ y[r[2]] \in Scalars /\ h[r[1]][r[2]] \in Scalars
        BY <1>2, <1>6, <4>1
      <4> QED BY <4>2, Closure
    <3> QED BY <3>1
  <2>2. S \in SUBSET (R \X R)
    BY DEF Support
  <2>3. \A r \in (R \X R) \ S : V[r] = Zero
    <3> SUFFICES ASSUME NEW r \in R \X R, r \notin S PROVE V[r] = Zero
      OBVIOUS
    <3>1. x[r[1]] = Zero \/ y[r[2]] = Zero
      BY DEF Support
    <3> DEFINE u == x[r[1]]
               v == y[r[2]]
               o == h[r[1]][r[2]]
    <3>2. r[1] \in R /\ r[2] \in R
      OBVIOUS
    <3>3. u \in Scalars /\ v \in Scalars /\ o \in Scalars
      <4> HIDE DEF x, y, h, R
      <4> QED BY <1>2, <1>6, <3>2
    <3>4. u = Zero \/ v = Zero
      BY <3>1
    <3>5. V[r] = Times(Times(u, v), o)
      OBVIOUS
    <3> HIDE DEF u, v, o, V
    <3> QED BY <3>3, <3>4, <3>5, TimesZero
  <2>4. base = Total([r \in S |-> Times(Times(c.a[r[1]][i], c.b[r[2]][j]),
                                         RowPair(c, lag, diag, r[1], r[2]))])
    BY DEF Base, \otimes
  <2>5. [r \in S |-> Times(Times(c.a[r[1]][i], c.b[r[2]][j]), RowPair(c, lag, diag, r[1], r[2]))]
          = [r \in S |-> V[r]]
    <3>1. \A r \in S : V[r] = Times(Times(c.a[r[1]][i], c.b[r[2]][j]), RowPair(c, lag, diag, r[1], r[2]))
      <4> TAKE r \in S
      <4>1. r \in R \X R /\ r[1] \in R /\ r[2] \in R
        BY <2>2
      <4> QED BY <4>1
    <3> HIDE DEF V
    <3> QED BY <3>1
  <2>6. base = Part(V, S)
    BY <2>4, <2>5 DEF Part
  <2>7. IsFiniteSet(R \X R)
    BY <1>1, FS_Product
  <2>8. Total(V) = Part(V, S)
    <3> DEFINE RR == R \X R
    <3> HIDE DEF RR, V, S
    <3>1. IsFiniteSet(RR) /\ V \in [RR -> Scalars] /\ S \in SUBSET RR /\ \A r \in RR \ S : V[r] = Zero
      BY <2>1, <2>2, <2>3, <2>7 DEF RR
    <3> QED BY <3>1, AllSupport
  <2>9. \A k \in R : \A m \in R : F[k][m] = V[<< k, m >>]
    <3> HIDE DEF R, x, y, h
    <3> QED BY DEF Shared
  <2>10. Total(V) = Double(R, F)
    <3> HIDE DEF V, F, R
    <3>1. PairsOf(R, R, V, F)
      BY <1>1, <1>8, <2>1, <2>9 DEF PairsOf
    <3> QED BY <3>1, AllPairs
  <2> QED BY <2>6, <2>8, <2>10
<1>10. ColumnsAt(c, c.a, t)[i] = Dot(R, l, x) /\ ColumnsAt(c, c.b, t)[j] = Dot(R, l, y)
  <2>1. [k \in R |-> Times(Lagrange(n, k, t), c.a[k][i])] = [k \in R |-> Times(l[k], x[k])]
    OBVIOUS
  <2>2. [k \in R |-> Times(Lagrange(n, k, t), c.b[k][j])] = [k \in R |-> Times(l[k], y[k])]
    OBVIOUS
  <2>3. ColumnsAt(c, c.a, t)[i] = Total([k \in R |-> Times(Lagrange(n, k, t), c.a[k][i])])
    BY DEF ColumnsAt, InstanceMap, \otimes
  <2>4. ColumnsAt(c, c.b, t)[j] = Total([k \in R |-> Times(Lagrange(n, k, t), c.b[k][j])])
    BY DEF ColumnsAt, InstanceMap, \otimes
  <2> HIDE DEF l, x, y
  <2> QED BY <2>1, <2>2, <2>3, <2>4 DEF Dot
<1>11. Meets(c, t, i, j) = Dot(R, Products(R, l, x), y)
  BY DEF Meets, Dot, Products
<1>12. Products(R, l, x) \in [R -> Scalars]
  <2> HIDE DEF l, x, R
  <2> QED BY <1>2, <1>4, Closure DEF Products
<1> HIDE DEF R, l, x, y, F, base, d
<1>13. Dot(R, l, x) \in Scalars /\ Dot(R, l, y) \in Scalars /\ Dot(R, Products(R, l, x), y) \in Scalars
  BY <1>1, <1>2, <1>4, <1>12, DotType
<1> QED BY <1>8, <1>9, <1>10, <1>11, <1>13 DEF base, diag, d, n

--------------------------------------------------------------------------------
(***************************************************************************)
(* Reachable states: the key, the assignments, the proofs and the bases.   *)
(***************************************************************************)
KeyOf(w) == KeyInputs(circuit, tau, w) /\ pk = ProvingKey(circuit, tau, w)
KeyInv ==
    /\ circuit \in Circuits
    /\ phase # "start" => \E w \in Trapdoors : KeyOf(w)
    /\ phase = "start" => synthesized = None
SynthInv ==
    synthesized # None => \E z \in circuit.assignments :
                             synthesized = [z |-> z, h |-> WitnessMap(circuit, z)]
StandardOf(z, r, s) ==
    proof = [kind |-> "standard", x |-> Statement(circuit, z),
             elems |-> StandardProof(pk, WitnessMap(circuit, z), z, r, s)]
LeanOf(z, r, s) ==
    proof = [kind |-> "lean", x |-> Statement(circuit, z), elems |-> LeanProof(pk, bases, z, r, s)]
ProofInv ==
    proof # None =>
       /\ phase = "ready"
       /\ \E z \in circuit.assignments, r, s \in Randomizers : StandardOf(z, r, s) \/ LeanOf(z, r, s)

\* The initial states.
LEMMA KeyInvInit == Init => KeyInv /\ SynthInv /\ ProofInv
BY DEF Init, KeyInv, SynthInv, ProofInv

\* The key stays the one that was generated.
LEMMA KeyInvStep ==
    ASSUME KeyInv, [Next]_vars
    PROVE  KeyInv'
<1>1. ASSUME NEW t \in Taus, NEW w \in Trapdoors, Generate(t, w)
      PROVE  KeyInv'
  <2>1. circuit' = circuit /\ circuit \in Circuits /\ tau' = t /\ pk' = ProvingKey(circuit, t, w)
        /\ phase' = "generated" /\ synthesized' = None
    BY <1>1 DEF Generate, KeyInv
  <2>2. KeyInputs(circuit, t, w)
    <3>1. t \in Scalars /\ {w.alpha, w.beta} \subseteq Scalars /\ {w.gamma, w.delta} \subseteq NonZero
      BY InputsAssumption
    <3>2. Vanishing(DomainSize(circuit), t) # Zero
      BY <1>1 DEF Generate
    <3> QED BY <2>1, <3>1, <3>2 DEF KeyInputs, NonZero
  <2>3. KeyOf(w)'
    BY <2>1, <2>2 DEF KeyOf
  <2> QED BY <2>1, <2>3 DEF KeyInv
<1>2. ASSUME UNCHANGED <<circuit, tau, pk>>, phase # "start", phase' # "start"
      PROVE  KeyInv'
  <2>1. PICK w \in Trapdoors : KeyOf(w)
    BY <1>2 DEF KeyInv
  <2>2. KeyOf(w)'
    BY <1>2, <2>1 DEF KeyOf
  <2> QED BY <1>2, <2>2 DEF KeyInv
<1>3. CASE ConvertSrs \/ CorrectDiagonal \/ ComputeWitnessBases \/ Audit \/ Sample \/ Solve
  <2>1. UNCHANGED <<circuit, tau, pk>> /\ phase # "start" /\ phase' # "start"
    BY <1>3 DEF ConvertSrs, CorrectDiagonal, ComputeWitnessBases, Audit, Sample, Solve
  <2> QED BY <1>2, <2>1
<1>4. ASSUME NEW z, Synthesize(z)
      PROVE  KeyInv'
  <2>1. UNCHANGED <<circuit, tau, pk>> /\ phase # "start" /\ phase' # "start"
    BY <1>4 DEF Synthesize
  <2> QED BY <1>2, <2>1
<1>5. ASSUME NEW r, NEW s, ProveStandard(r, s) \/ ProveLean(r, s)
      PROVE  KeyInv'
  <2>1. UNCHANGED <<circuit, tau, pk>> /\ phase # "start" /\ phase' # "start"
    BY <1>5 DEF ProveStandard, ProveLean
  <2> QED BY <1>2, <2>1
<1>6. CASE UNCHANGED vars
  <2>1. UNCHANGED <<circuit, tau, pk, phase, synthesized>>
    BY <1>6 DEF vars
  <2>2. CASE phase = "start"
    BY <2>1, <2>2 DEF KeyInv
  <2> QED BY <1>2, <2>1, <2>2
<1> QED BY <1>1, <1>3, <1>4, <1>5, <1>6 DEF Next

\* What is synthesized belongs to an assignment.
LEMMA SynthInvStep ==
    ASSUME SynthInv, [Next]_vars
    PROVE  SynthInv'
<1>0. CASE UNCHANGED <<circuit, synthesized>>
  BY <1>0 DEF SynthInv
<1>1. CASE synthesized' = None
  BY <1>1 DEF SynthInv
<1>2. ASSUME NEW z \in circuit.assignments, Synthesize(z)
      PROVE  SynthInv'
  <2>1. circuit' = circuit /\ synthesized' = [z |-> z, h |-> WitnessMap(circuit, z)]
    BY <1>2 DEF Synthesize
  <2> QED BY <2>1 DEF SynthInv
<1>3. ASSUME NEW t, NEW w, Generate(t, w)
      PROVE  UNCHANGED <<circuit, synthesized>>
  BY <1>3 DEF Generate
<1>4. CASE ConvertSrs \/ CorrectDiagonal \/ ComputeWitnessBases \/ Audit \/ Solve \/ UNCHANGED vars
  <2>1. UNCHANGED <<circuit, synthesized>>
    BY <1>4 DEF ConvertSrs, CorrectDiagonal, ComputeWitnessBases, Audit, Solve, vars
  <2> QED BY <1>0, <2>1
<1>5. ASSUME NEW r, NEW s, Sample \/ ProveStandard(r, s) \/ ProveLean(r, s)
      PROVE  synthesized' = None
  BY <1>5 DEF Sample, ProveStandard, ProveLean
<1>6. Sample => synthesized' = None
  BY DEF Sample
<1> QED BY <1>0, <1>1, <1>2, <1>3, <1>4, <1>5, <1>6 DEF Next

\* A proof is the output of one of the two provers.
LEMMA ProofInvStep ==
    ASSUME SynthInv, ProofInv, [Next]_vars
    PROVE  ProofInv'
<1>0. ASSUME UNCHANGED <<circuit, proof, pk, bases>>, phase = "ready" => phase' = "ready"
      PROVE  ProofInv'
  <2>1. SUFFICES ASSUME proof # None
                 PROVE  ProofInv'
    BY <1>0 DEF ProofInv
  <2>2. PICK z \in circuit.assignments, r \in Randomizers, s \in Randomizers :
           StandardOf(z, r, s) \/ LeanOf(z, r, s)
    BY <2>1 DEF ProofInv
  <2>3. phase = "ready"
    BY <2>1 DEF ProofInv
  <2>4. StandardOf(z, r, s)' \/ LeanOf(z, r, s)'
    BY <1>0, <2>2 DEF StandardOf, LeanOf
  <2>5. z \in circuit'.assignments /\ phase' = "ready"
    BY <1>0, <2>3
  <2> QED BY <2>4, <2>5 DEF ProofInv
<1>1. ASSUME UNCHANGED proof, phase # "ready"
      PROVE  ProofInv'
  BY <1>1 DEF ProofInv
<1>2. ASSUME NEW t, NEW w, Generate(t, w)
      PROVE  ProofInv'
  BY <1>1, <1>2 DEF Generate
<1>3. CASE ConvertSrs \/ CorrectDiagonal \/ ComputeWitnessBases \/ Audit \/ Sample \/ Solve
  <2>1. UNCHANGED proof /\ phase # "ready"
    BY <1>3 DEF ConvertSrs, CorrectDiagonal, ComputeWitnessBases, Audit, Sample, Solve
  <2> QED BY <1>1, <2>1
<1>4. ASSUME NEW z, Synthesize(z)
      PROVE  ProofInv'
  <2>1. UNCHANGED <<circuit, proof, pk, bases>> /\ (phase = "ready" => phase' = "ready")
    BY <1>4 DEF Synthesize
  <2> QED BY <1>0, <2>1
<1>5. CASE UNCHANGED vars
  <2>1. UNCHANGED <<circuit, proof, pk, bases>> /\ (phase = "ready" => phase' = "ready")
    BY <1>5 DEF vars
  <2> QED BY <1>0, <2>1
<1>6. ASSUME NEW r \in Randomizers, NEW s \in Randomizers, ProveStandard(r, s) \/ ProveLean(r, s)
      PROVE  ProofInv'
  <2>1. phase = "ready" /\ synthesized # None /\ UNCHANGED <<circuit, phase, pk, bases>>
    BY <1>6 DEF ProveStandard, ProveLean
  <2>2. PICK z \in circuit.assignments : synthesized = [z |-> z, h |-> WitnessMap(circuit, z)]
    BY <2>1 DEF SynthInv
  <2>3. synthesized.z = z /\ synthesized.h = WitnessMap(circuit, z)
    BY <2>2
  <2>4. CASE ProveStandard(r, s)
    <3>1. StandardOf(z, r, s)'
      BY <2>1, <2>3, <2>4 DEF ProveStandard, StandardOf
    <3> QED BY <2>1, <3>1 DEF ProofInv
  <2>5. CASE ProveLean(r, s)
    <3>1. LeanOf(z, r, s)'
      BY <2>1, <2>3, <2>5 DEF ProveLean, LeanOf
    <3> QED BY <2>1, <3>1 DEF ProofInv
  <2> QED BY <1>6, <2>4, <2>5
<1> QED BY <1>2, <1>3, <1>4, <1>5, <1>6 DEF Next

\* The three together, in every reachable state.
LEMMA KeyCorrect == Spec => [](KeyInv /\ SynthInv /\ ProofInv)
<1>1. KeyInv /\ SynthInv /\ ProofInv /\ [Next]_vars => (KeyInv /\ SynthInv /\ ProofInv)'
  BY KeyInvStep, SynthInvStep, ProofInvStep
<1> QED BY KeyInvInit, <1>1, PTL DEF Spec

\* Equation is the equation of the generated key.
LEMMA EquationIs ==
    ASSUME NEW extra
    PROVE  Equation(extra) <=> GrothEquation(pk, circuit, proof.x, proof.elems, extra)
<1>1. Total([i \in Public(circuit) |-> pk.ic[i] \otimes proof.x[i]])
        = Total([i \in Public(circuit) |-> Times(pk.ic[i], proof.x[i])])
  BY DEF \otimes
<1> QED BY <1>1 DEF Equation, GrothEquation, InputSum, \oplus, \otimes

\* A proof of the standard prover (create_proof_with_assignment) satisfies the Groth16
\* equation of the generated key, for every circuit, satisfying assignment and randomizers.
THEOREM StandardVerifiesCorrect == Spec => []StandardVerifies
<1>1. KeyInv /\ SynthInv /\ ProofInv => StandardVerifies
  <2>1. SUFFICES ASSUME KeyInv, ProofInv, proof # None, proof.kind = "standard"
                 PROVE  Equation(Zero)
    BY DEF StandardVerifies
  <2>2. PICK z \in circuit.assignments, r \in Randomizers, s \in Randomizers :
           StandardOf(z, r, s) \/ LeanOf(z, r, s)
    BY <2>1 DEF ProofInv
  <2>3. StandardOf(z, r, s)
    <3>1. ~ LeanOf(z, r, s)
      BY <2>1 DEF LeanOf
    <3> QED BY <2>2, <3>1
  <2>4. PICK w \in Trapdoors : KeyInputs(circuit, tau, w) /\ pk = ProvingKey(circuit, tau, w)
    BY <2>1 DEF KeyInv, ProofInv, KeyOf
  <2>5. r \in Scalars /\ s \in Scalars
    BY InputsAssumption
  <2>6. GrothEquation(pk, circuit, Statement(circuit, z), StandardProof(pk, WitnessMap(circuit, z), z, r, s), Zero)
    BY <2>4, <2>5, StandardEquation
  <2>7. proof.x = Statement(circuit, z)
        /\ proof.elems = StandardProof(pk, WitnessMap(circuit, z), z, r, s)
    BY <2>3 DEF StandardOf
  <2> QED BY <2>6, <2>7, EquationIs
<1> QED BY KeyCorrect, <1>1, PTL

DiagonalOf(c, key) == DiagonalVector(DomainSize(c), LagrangeSrs(c, key))
BasesOf(c, key) == WitnessBases(c, LagrangeSrs(c, key), DiagonalOf(c, key))

\* What compute_witness_bases holds at each of its steps, and what is published.
BasesInv ==
    /\ phase \in {"start", "generated", "lagrange", "diagonal", "bases", "sampling",
                  "ready", "panicked"}
    /\ phase \in {"lagrange", "diagonal", "bases"} => srs = LagrangeSrs(circuit, pk)
    /\ phase \in {"diagonal", "bases"} => diagonal = DiagonalOf(circuit, pk)
    /\ phase \in {"bases", "sampling", "ready", "panicked"} => bases = BasesOf(circuit, pk)
    /\ phase \in {"sampling", "ready"} => AuditPasses(circuit, pk, bases)

\* The initial states.
LEMMA BasesInvInit == Init => BasesInv
BY DEF Init, BasesInv

\* Every step of compute_witness_bases works on the output of the step before.
LEMMA BasesInvStep ==
    ASSUME BasesInv, [Next]_vars
    PROVE  BasesInv'
<1> USE DEF BasesInv
<1>1. ASSUME NEW t \in Taus, NEW w \in Trapdoors, Generate(t, w) PROVE BasesInv'
  BY <1>1 DEF Generate
<1>2. CASE ConvertSrs
  BY <1>2 DEF ConvertSrs
<1>3. CASE CorrectDiagonal
  BY <1>3 DEF CorrectDiagonal, DiagonalOf
<1>4. CASE ComputeWitnessBases
  BY <1>4 DEF ComputeWitnessBases, BasesOf
<1>5. CASE Audit
  <2>1. CASE AuditPasses(circuit, pk, bases)
    <3>1. phase' = "sampling" /\ bases' = bases /\ pk' = pk /\ circuit' = circuit /\ phase = "bases"
      BY <1>5, <2>1 DEF Audit
    <3>2. AuditPasses(circuit, pk, bases)'
      BY <2>1, <3>1 DEF AuditPasses
    <3> QED BY <3>1, <3>2
  <2>2. CASE ~ AuditPasses(circuit, pk, bases)
    BY <1>5, <2>2 DEF Audit
  <2> QED BY <2>1, <2>2
<1>6. ASSUME NEW z \in circuit.assignments, Synthesize(z) PROVE BasesInv'
  BY <1>6 DEF Synthesize
<1>7. CASE Sample
  <2>1. phase = "sampling" /\ phase' \in {"sampling", "panicked"} /\ UNCHANGED <<bases, pk, circuit>>
    BY <1>7 DEF Sample
  <2>2. AuditPasses(circuit, pk, bases)'
    BY <2>1 DEF AuditPasses
  <2> QED BY <2>1, <2>2
<1>8. CASE Solve
  <2>1. phase = "sampling" /\ phase' \in {"ready", "panicked"} /\ UNCHANGED <<bases, pk, circuit>>
    BY <1>8 DEF Solve
  <2>2. AuditPasses(circuit, pk, bases)'
    BY <2>1 DEF AuditPasses
  <2> QED BY <2>1, <2>2
<1>9. ASSUME NEW r \in Randomizers, NEW s \in Randomizers, ProveStandard(r, s) \/ ProveLean(r, s)
      PROVE  BasesInv'
  <2>1. phase = "ready" /\ UNCHANGED <<phase, srs, diagonal, bases, pk, circuit>>
    BY <1>9 DEF ProveStandard, ProveLean
  <2>2. AuditPasses(circuit, pk, bases)'
    BY <2>1 DEF AuditPasses
  <2> QED BY <2>1, <2>2
<1>10. CASE UNCHANGED vars
  BY <1>10 DEF vars
<1> QED BY <1>1, <1>2, <1>3, <1>4, <1>5, <1>6, <1>7, <1>8, <1>9, <1>10 DEF Next

\* In every reachable state.
LEMMA BasesCorrect == Spec => []BasesInv
<1>1. Init => BasesInv
  BY BasesInvInit
<1>2. BasesInv /\ [Next]_vars => BasesInv'
  BY BasesInvStep
<1> QED BY <1>1, <1>2, PTL DEF Spec

\* Every active pair's base is its quotient.
LEMMA BasesAre ==
    ASSUME KeyInv, BasesInv, phase \in {"bases", "sampling", "ready", "panicked"},
           NEW p \in ActivePairs(circuit)
    PROVE  QuotientBase(p[1], p[2]) = IF p \in DOMAIN bases THEN bases[p] ELSE Zero
<1>1. PICK w \in Trapdoors : KeyOf(w)
  BY DEF KeyInv
<1>2. KeyInputs(circuit, tau, w) /\ pk = ProvingKey(circuit, tau, w)
  BY <1>1 DEF KeyOf
<1>3. PICK i \in Cols(circuit), j \in Cols(circuit) : p = << i, j >>
  BY DEF ActivePairs
<1> DEFINE lag == LagrangeSrs(circuit, pk)
           diag == DiagonalOf(circuit, pk)
           base == Base(circuit, lag, diag, p)
           d == w.delta
           x == ColumnsAt(circuit, circuit.a, tau)[i]
           y == ColumnsAt(circuit, circuit.b, tau)[j]
           m == Meets(circuit, tau, i, j)
           u == Plus(Times(x, y), Minus(m))
<1>4. /\ base \in Scalars /\ m \in Scalars /\ x \in Scalars /\ y \in Scalars
      /\ Times(base, d) = u
  <2> DEFINE l == LagrangeSrs(circuit, ProvingKey(circuit, tau, w))
  <2>0. l = LagrangeSrs(circuit, ProvingKey(circuit, tau, w))
    OBVIOUS
  <2>1. lag = l /\ diag = DiagonalVector(DomainSize(circuit), l)
    BY <1>2 DEF DiagonalOf
  <2> HIDE DEF l, lag, diag
  <2> QED BY <1>2, <1>3, <2>0, <2>1, BaseIs
<1>5. QuotientBase(p[1], p[2]) = Times(u, Reciprocal(d))
  <2>1. pk.a = ColumnsAt(circuit, circuit.a, tau) /\ pk.b = ColumnsAt(circuit, circuit.b, tau)
        /\ pk.delta = d
    BY <1>2, KeyIs
  <2>2. p[1] = i /\ p[2] = j
    BY <1>3
  <2> QED BY <2>1, <2>2 DEF QuotientBase, Meets, \otimes, \ominus
<1>6. d \in Scalars /\ d # Zero
  BY <1>2 DEF KeyInputs
<1>7. QuotientBase(p[1], p[2]) = base
  <2>1. u \in Scalars
    <3> HIDE DEF x, y, m
    <3> QED BY <1>4, Closure
  <2> HIDE DEF u, d, base
  <2> QED BY <1>4, <1>5, <1>6, <2>1, Quotient
<1>8. bases = [q \in {r \in ActivePairs(circuit) : Base(circuit, lag, diag, r) # Zero}
                 |-> Base(circuit, lag, diag, q)]
  BY DEF BasesInv, BasesOf, WitnessBases
<1>9. p \in DOMAIN bases <=> base # Zero
  BY <1>8
<1>10. p \in DOMAIN bases => bases[p] = base
  BY <1>8
<1> QED BY <1>7, <1>9, <1>10

\* The bases of compute_witness_bases are the quotients of all active pairs, and a pair that
\* is left out has the identity for its quotient.
THEOREM BasesRightCorrect == Spec => []BasesRight
<1>1. KeyInv /\ BasesInv => BasesRight
  BY BasesAre DEF BasesRight
<1> QED BY <1>1, KeyCorrect, BasesCorrect, PTL

--------------------------------------------------------------------------------
(***************************************************************************)
(* The gap between the provers, and the quadratic form of the quotients.   *)
(***************************************************************************)
\* The quotient of A_i B_j, for all pairs of columns.
PairQuotient(c, t, w, i, j) ==
    Times(Plus(Times(ColumnsAt(c, c.a, t)[i], ColumnsAt(c, c.b, t)[j]), Minus(Meets(c, t, i, j))),
          Reciprocal(w.delta))
PairTable(c, t, w) == [i \in Cols(c) |-> [j \in Cols(c) |-> PairQuotient(c, t, w, i, j)]]

\* The quotient of a pair, times delta, is A_i B_j without what the two columns share.
LEMMA PairTableType ==
    ASSUME NEW c, NEW t, NEW w, KeyInputs(c, t, w)
    PROVE  /\ PairTable(c, t, w) \in [Cols(c) -> [Cols(c) -> Scalars]]
           /\ \A i \in Cols(c) : \A j \in Cols(c) :
                 /\ Meets(c, t, i, j) \in Scalars
                 /\ Times(w.delta, PairTable(c, t, w)[i][j])
                      = Plus(Times(ColumnsAt(c, c.a, t)[i], ColumnsAt(c, c.b, t)[j]),
                             Minus(Meets(c, t, i, j)))
<1>1. ASSUME NEW i \in Cols(c), NEW j \in Cols(c)
      PROVE  /\ PairQuotient(c, t, w, i, j) \in Scalars /\ Meets(c, t, i, j) \in Scalars
             /\ Times(w.delta, PairQuotient(c, t, w, i, j))
                  = Plus(Times(ColumnsAt(c, c.a, t)[i], ColumnsAt(c, c.b, t)[j]),
                         Minus(Meets(c, t, i, j)))
  <2> DEFINE lag == LagrangeSrs(c, ProvingKey(c, t, w))
             x == ColumnsAt(c, c.a, t)[i]
             y == ColumnsAt(c, c.b, t)[j]
             m == Meets(c, t, i, j)
             u == Plus(Times(x, y), Minus(m))
             d == w.delta
             f == Reciprocal(d)
  <2>1. m \in Scalars /\ x \in Scalars /\ y \in Scalars
    BY BaseIs
  <2>2. d \in Scalars /\ d # Zero
    BY DEF KeyInputs
  <2>3. f \in Scalars /\ Times(d, f) = One
    BY <2>2, ReciprocalNonZero
  <2>4. PairQuotient(c, t, w, i, j) = Times(u, f)
    BY DEF PairQuotient
  <2> HIDE DEF x, y, m, d, f
  <2>5. u \in Scalars
    BY <2>1, Closure
  <2> HIDE DEF u
  <2>6. Times(d, Times(u, f)) = u
    <3>1. Times(d, Times(u, f)) = Times(u, Times(d, f))
      BY <2>2, <2>3, <2>5, TimesRotate
    <3> QED BY <2>3, <2>5, <3>1, TimesLaws
  <2>7. Times(u, f) \in Scalars
    BY <2>3, <2>5, Closure
  <2> QED BY <2>1, <2>4, <2>6, <2>7 DEF u, x, y, m, d
<1>2. \A i \in Cols(c) : \A j \in Cols(c) : PairTable(c, t, w)[i][j] = PairQuotient(c, t, w, i, j)
  BY DEF PairTable
<1> QED BY <1>1, <1>2 DEF PairTable

\* The values of the constraints, weighted by the Lagrange polynomials.
RowWeights(c, t) == [k \in Rows(c) |-> Lagrange(DomainSize(c), k, t)]

\* The columns at tau, combined by an assignment, are its rows, combined by the weights.
LEMMA RowWeightsDot ==
    ASSUME NEW c \in Circuits, NEW m \in MatrixOf(c), NEW z \in [Cols(c) -> Scalars],
           NEW t \in Scalars, Vanishing(DomainSize(c), t) # Zero
    PROVE  /\ RowWeights(c, t) \in [Rows(c) -> Scalars]
           /\ Dot(Cols(c), ColumnsAt(c, m, t), z) = Dot(Rows(c), OnDomain(c, m, z), RowWeights(c, t))
<1> DEFINE n == DomainSize(c)
           y == LagrangeAt(n, t)
           v == OnDomain(c, m, z)
<1>1. n \in DomainSizes /\ Rows(c) \subseteq Domain(n)
  BY CircuitKit
<1>2. y \in [Domain(n) -> Scalars] /\ v \in [Rows(c) -> Scalars]
  <2>1. y \in [Domain(n) -> Scalars]
    <3>1. Vanishing(n, t) # Zero
      OBVIOUS
    <3> HIDE DEF n
    <3> QED BY <1>1, <3>1, OffDomain
  <2> QED BY <2>1, OnDomainIs
<1>3. Short(c, y) = RowWeights(c, t)
  BY <1>1 DEF Short, RowWeights, LagrangeAt
<1>4. /\ Dot(Cols(c), ColumnsAt(c, m, t), z) = Dot(Domain(n), Padded(c, v), y)
  BY ColumnsCombine
<1> HIDE DEF v, y
<1>5. Short(c, y) \in [Rows(c) -> Scalars] /\ Dot(Domain(n), Padded(c, v), y) = Dot(Rows(c), v, Short(c, y))
  BY <1>2, PaddedDot
<1> QED BY <1>3, <1>4, <1>5 DEF v

\* Row i of the table of shared rows, combined by an assignment.
MeetRow(c, t, z, i) ==
    Dot(Rows(c), [k \in Rows(c) |-> Times(RowWeights(c, t)[k], c.a[k][i])], OnDomain(c, c.b, z))

\* One row of the table of shared rows, with the other column combined.
LEMMA MeetRowIs ==
    ASSUME NEW c \in Circuits, NEW z \in [Cols(c) -> Scalars], NEW i \in Cols(c),
           NEW t \in Scalars, Vanishing(DomainSize(c), t) # Zero
    PROVE  /\ Dot(Cols(c), [j \in Cols(c) |-> Meets(c, t, i, j)], z) = MeetRow(c, t, z, i)
           /\ MeetRow(c, t, z, i) \in Scalars
<1> DEFINE R == Rows(c)
           K == Cols(c)
           l == RowWeights(c, t)
           x == [k \in R |-> Times(l[k], c.a[k][i])]
<1>1. /\ IsFiniteSet(R) /\ IsFiniteSet(K) /\ c.a \in [R -> [K -> Scalars]]
      /\ c.b \in [R -> [K -> Scalars]] /\ c.b \in MatrixOf(c)
  BY CircuitKit DEF MatrixOf
<1>2. l \in [R -> Scalars]
  BY <1>1, RowWeightsDot
<1>3. x \in [R -> Scalars]
  <2> HIDE DEF l, R
  <2> QED BY <1>1, <1>2, Closure
<1>4. OnDomain(c, c.b, z) = Image(R, K, c.b, z) /\ OnDomain(c, c.b, z) \in [R -> Scalars]
  BY <1>1, OnDomainIs
<1>5. Preimage(R, K, x, c.b) = [j \in K |-> Meets(c, t, i, j)]
  <2>1. \A j \in K : Dot(R, x, [k \in R |-> c.b[k][j]]) = Meets(c, t, i, j)
    <3> TAKE j \in K
    <3>1. [k \in R |-> Times(x[k], [q \in R |-> c.b[q][j]][k])]
            = [k \in R |-> Times(Times(Lagrange(DomainSize(c), k, t), c.a[k][i]), c.b[k][j])]
      BY DEF RowWeights
    <3> QED BY <3>1 DEF Dot, Meets
  <2> HIDE DEF x, R, K
  <2> QED BY <2>1 DEF Preimage
<1> DEFINE bz == OnDomain(c, c.b, z)
<1>6. Dot(R, x, bz) = Dot(K, Preimage(R, K, x, c.b), z)
  <2>1. IsMove(R, K, c.b, x, z)
    <3> HIDE DEF x, R, K
    <3> QED BY <1>1, <1>3 DEF IsMove, K
  <2> HIDE DEF x, R, K
  <2> QED BY <1>4, <2>1, MatrixMove
<1>7. Dot(R, x, bz) \in Scalars
  <2> HIDE DEF x, R, bz
  <2> QED BY <1>1, <1>3, <1>4, DotType DEF bz
<1> QED BY <1>5, <1>6, <1>7 DEF MeetRow

\* All of them: the values of the third matrix.
LEMMA MeetRowsCombine ==
    ASSUME NEW c \in Circuits, NEW z \in c.assignments,
           NEW t \in Scalars, Vanishing(DomainSize(c), t) # Zero
    PROVE  Dot(Cols(c), z, [i \in Cols(c) |-> MeetRow(c, t, z, i)])
             = Dot(Cols(c), ColumnsAt(c, c.c, t), z)
<1> DEFINE R == Rows(c)
           K == Cols(c)
           l == RowWeights(c, t)
           az == OnDomain(c, c.a, z)
           bz == OnDomain(c, c.b, z)
           cz == OnDomain(c, c.c, z)
           y == [k \in R |-> Times(l[k], bz[k])]
<1>1. /\ IsFiniteSet(R) /\ IsFiniteSet(K) /\ c.a \in [R -> [K -> Scalars]]
      /\ c.a \in MatrixOf(c) /\ c.b \in MatrixOf(c) /\ c.c \in MatrixOf(c)
  BY CircuitKit DEF MatrixOf
<1>2. z \in [K -> Scalars] /\ Satisfied(c, z)
  BY AssignmentKit
<1>3. /\ l \in [R -> Scalars]
      /\ Dot(K, ColumnsAt(c, c.c, t), z) = Dot(R, cz, l)
  BY <1>1, <1>2, RowWeightsDot
<1>4. /\ az \in [R -> Scalars] /\ bz \in [R -> Scalars] /\ cz \in [R -> Scalars]
      /\ az = Image(R, K, c.a, z)
      /\ \A k \in R : Times(az[k], bz[k]) = cz[k]
  <2>1. /\ az \in [R -> Scalars] /\ az = Image(R, K, c.a, z)
        /\ \A k \in R : az[k] = EvaluateConstraint(c.a[k], z)
    BY <1>1, <1>2, OnDomainIs
  <2>2. /\ bz \in [R -> Scalars]
        /\ \A k \in R : bz[k] = EvaluateConstraint(c.b[k], z)
    BY <1>1, <1>2, OnDomainIs
  <2>3. /\ cz \in [R -> Scalars]
        /\ \A k \in R : cz[k] = EvaluateConstraint(c.c[k], z)
    BY <1>1, <1>2, OnDomainIs
  <2>4. \A k \in R : Times(EvaluateConstraint(c.a[k], z), EvaluateConstraint(c.b[k], z))
                       = EvaluateConstraint(c.c[k], z)
    BY <1>2 DEF Satisfied, \otimes
  <2> HIDE DEF az, bz, cz, R
  <2> QED BY <2>1, <2>2, <2>3, <2>4
<1>5. y \in [R -> Scalars]
  <2> HIDE DEF l, bz, R
  <2> QED BY <1>3, <1>4, Closure
<1>6. [i \in K |-> MeetRow(c, t, z, i)] = Preimage(R, K, y, c.a)
  <2>1. \A i \in K : MeetRow(c, t, z, i) = Dot(R, y, [k \in R |-> c.a[k][i]])
    <3> TAKE i \in K
    <3>1. \A k \in R : Times(Times(l[k], c.a[k][i]), bz[k]) = Times(Times(l[k], bz[k]), c.a[k][i])
      <4> TAKE k \in R
      <4> DEFINE p == l[k]
                 q == c.a[k][i]
                 o == bz[k]
      <4>1. p \in Scalars /\ q \in Scalars /\ o \in Scalars
        BY <1>1, <1>3, <1>4
      <4> HIDE DEF p, q, o
      <4>2. Times(Times(p, q), o) = Times(Times(p, o), q)
        BY <4>1, TimesRotate
      <4> QED BY <4>2 DEF p, q, o
    <3>2. [k \in R |-> Times([h \in R |-> Times(l[h], c.a[h][i])][k], bz[k])]
            = [k \in R |-> Times(y[k], [h \in R |-> c.a[h][i]][k])]
      <4> HIDE DEF l, bz, R
      <4> QED BY <3>1
    <3> QED BY <3>2 DEF MeetRow, Dot
  <2> HIDE DEF y, R, K
  <2> QED BY <2>1 DEF Preimage
<1>7. Dot(R, y, az) = Dot(K, Preimage(R, K, y, c.a), z) /\ Preimage(R, K, y, c.a) \in [K -> Scalars]
  <2>1. IsMove(R, K, c.a, y, z)
    <3> HIDE DEF y, R, K
    <3> QED BY <1>1, <1>2, <1>5 DEF IsMove
  <2> HIDE DEF y, R, K, az
  <2> QED BY <1>4, <2>1, MatrixMove
<1>8. Dot(R, y, az) = Dot(R, cz, l)
  <2>1. \A k \in R : Times(Times(l[k], bz[k]), az[k]) = Times(cz[k], l[k])
    <3> TAKE k \in R
    <3> DEFINE p == l[k]
               q == bz[k]
               o == az[k]
    <3>1. p \in Scalars /\ q \in Scalars /\ o \in Scalars /\ cz[k] = Times(o, q)
      BY <1>3, <1>4
    <3> HIDE DEF p, q, o
    <3>2. Times(Times(p, q), o) = Times(p, Times(q, o)) /\ Times(q, o) = Times(o, q)
      BY <3>1, TimesLaws
    <3>3. Times(o, q) \in Scalars
      BY <3>1, Closure
    <3>4. Times(p, Times(o, q)) = Times(Times(o, q), p)
      BY <3>1, <3>3, TimesLaws
    <3> QED BY <3>1, <3>2, <3>4 DEF p, q, o
  <2>2. [k \in R |-> Times(y[k], az[k])] = [k \in R |-> Times(cz[k], l[k])]
    <3> HIDE DEF l, bz, az, cz, R
    <3> QED BY <2>1
  <2> QED BY <2>2 DEF Dot
<1> DEFINE P == Preimage(R, K, y, c.a)
<1>9. Dot(K, z, P) = Dot(K, P, z)
  <2> HIDE DEF P, K
  <2> QED BY <1>2, <1>7, DotFlip DEF P
<1> QED BY <1>3, <1>6, <1>7, <1>8, <1>9

\* What a proof's quotient is, times delta: A B - C for the columns combined.
Excess(c, t, z) ==
    Plus(Times(Dot(Cols(c), ColumnsAt(c, c.a, t), z), Dot(Cols(c), ColumnsAt(c, c.b, t), z)),
         Minus(Dot(Cols(c), ColumnsAt(c, c.c, t), z)))

\* One row of the table of quotients, combined by an assignment.
LEMMA PairRowIs ==
    ASSUME NEW c, NEW t, NEW w, KeyInputs(c, t, w), NEW z \in c.assignments, NEW i \in Cols(c)
    PROVE  /\ Dot(Cols(c), PairTable(c, t, w)[i], z) \in Scalars
           /\ Times(w.delta, Dot(Cols(c), PairTable(c, t, w)[i], z))
                = Plus(Times(ColumnsAt(c, c.a, t)[i], Dot(Cols(c), ColumnsAt(c, c.b, t), z)),
                       Minus(MeetRow(c, t, z, i)))
<1> DEFINE K == Cols(c)
           q == PairTable(c, t, w)[i]
           d == w.delta
           a == ColumnsAt(c, c.a, t)[i]
           b == ColumnsAt(c, c.b, t)
           p == [j \in K |-> Times(a, b[j])]
           m == [j \in K |-> Meets(c, t, i, j)]
           e == [j \in K |-> Plus(p[j], Minus(m[j]))]
<1>1. /\ c \in Circuits /\ t \in Scalars /\ Vanishing(DomainSize(c), t) # Zero /\ d \in Scalars
      /\ IsFiniteSet(K) /\ c.a \in MatrixOf(c) /\ c.b \in MatrixOf(c) /\ z \in [K -> Scalars]
  BY CircuitKit, AssignmentKit DEF KeyInputs, MatrixOf
<1>2. q \in [K -> Scalars] /\ m \in [K -> Scalars]
      /\ \A j \in K : Times(d, q[j]) = Plus(Times(a, b[j]), Minus(m[j]))
  BY PairTableType
<1>3. a \in Scalars /\ b \in [K -> Scalars]
  <2>1. ColumnsAt(c, c.a, t) \in [K -> Scalars] /\ b \in [K -> Scalars]
    BY <1>1, ColumnsCombine
  <2> QED BY <2>1
<1>4. MeetRow(c, t, z, i) = Dot(K, m, z)
  BY <1>1, MeetRowIs
<1> HIDE DEF q, a, b, K, m, d
<1>5. p \in [K -> Scalars]
  BY <1>3, Closure
<1>6. e \in [K -> Scalars]
  <2> HIDE DEF p
  <2> QED BY <1>2, <1>5, Closure
<1>7. IsScaled(K, p, b, a) /\ IsDifference(K, e, p, m) /\ IsScaled(K, e, q, d)
  BY <1>2 DEF IsScaled, IsDifference
<1> HIDE DEF p, e
<1>8. Dot(K, p, z) = Times(a, Dot(K, b, z))
  BY <1>1, <1>3, <1>5, <1>7, DotScale
<1>9. Dot(K, e, z) = Plus(Dot(K, p, z), Minus(Dot(K, m, z)))
  BY <1>1, <1>2, <1>5, <1>6, <1>7, DotSub
<1>10. Dot(K, e, z) = Times(d, Dot(K, q, z))
  BY <1>1, <1>2, <1>6, <1>7, DotScale
<1>11. Dot(K, q, z) \in Scalars
  BY <1>1, <1>2, DotType
<1> QED BY <1>4, <1>8, <1>9, <1>10, <1>11 DEF q, a, b, K, d

\* All of them: the quadratic form of the quotients is the quotient of a proof.
LEMMA QuadraticIs ==
    ASSUME NEW c, NEW t, NEW w, KeyInputs(c, t, w), NEW z \in c.assignments
    PROVE  /\ Form(Cols(c), PairTable(c, t, w), z, z) \in Scalars
           /\ Times(w.delta, Form(Cols(c), PairTable(c, t, w), z, z)) = Excess(c, t, z)
<1> DEFINE K == Cols(c)
           Q == PairTable(c, t, w)
           d == w.delta
           a == ColumnsAt(c, c.a, t)
           b == ColumnsAt(c, c.b, t)
           bz == Dot(K, b, z)
           y == [i \in K |-> Dot(K, Q[i], z)]
           m == [i \in K |-> MeetRow(c, t, z, i)]
           u == [i \in K |-> Times(bz, a[i])]
           e == [i \in K |-> Plus(u[i], Minus(m[i]))]
<1>1. /\ c \in Circuits /\ t \in Scalars /\ Vanishing(DomainSize(c), t) # Zero /\ d \in Scalars
      /\ IsFiniteSet(K) /\ c.a \in MatrixOf(c) /\ c.b \in MatrixOf(c) /\ z \in [K -> Scalars]
  BY CircuitKit, AssignmentKit DEF KeyInputs, MatrixOf
<1>2. a \in [K -> Scalars] /\ b \in [K -> Scalars]
  <2>1. a \in [K -> Scalars]
    BY <1>1, ColumnsCombine
  <2>2. b \in [K -> Scalars]
    BY <1>1, ColumnsCombine
  <2> QED BY <2>1, <2>2
<1>3. bz \in Scalars
  <2> HIDE DEF b, K
  <2> QED BY <1>1, <1>2, DotType
<1>4. \A i \in K : /\ y[i] \in Scalars
                   /\ Times(d, y[i]) = Plus(Times(a[i], bz), Minus(m[i]))
  BY PairRowIs
<1>5. m \in [K -> Scalars]
  <2>1. \A i \in K : MeetRow(c, t, z, i) \in Scalars
    BY <1>1, MeetRowIs
  <2> QED BY <2>1
<1>6. Dot(K, z, m) = Dot(K, ColumnsAt(c, c.c, t), z)
  BY <1>1, MeetRowsCombine
<1>7. Form(K, Q, z, z) = Dot(K, z, y)
  BY DEF Form, Image
<1>8. y \in [K -> Scalars]
  <2>1. \A i \in K : Dot(K, Q[i], z) \in Scalars
    BY <1>4
  <2> HIDE DEF Q, K
  <2> QED BY <2>1
<1> HIDE DEF a, b, K, m, d, bz, y
<1>9. u \in [K -> Scalars] /\ \A i \in K : u[i] = Times(a[i], bz)
  BY <1>2, <1>3, Closure, TimesLaws
<1>10. e \in [K -> Scalars]
  <2> HIDE DEF u
  <2> QED BY <1>5, <1>9, Closure
<1>11. IsScaled(K, u, a, bz) /\ IsDifference(K, e, u, m) /\ IsScaled(K, e, y, d)
  <2>1. IsScaled(K, u, a, bz) /\ IsDifference(K, e, u, m)
    BY DEF IsScaled, IsDifference
  <2>2. \A i \in K : e[i] = Times(d, y[i])
    <3> HIDE DEF u
    <3> QED BY <1>4, <1>9
  <2> QED BY <2>1, <2>2 DEF IsScaled
<1> HIDE DEF u, e
<1>12. Dot(K, z, u) = Times(bz, Dot(K, z, a))
  BY <1>1, <1>2, <1>3, <1>9, <1>11, DotScale
<1>13. Dot(K, z, e) = Plus(Dot(K, z, u), Minus(Dot(K, z, m)))
  BY <1>1, <1>5, <1>9, <1>10, <1>11, DotSub
<1>14. Dot(K, z, e) = Times(d, Dot(K, z, y))
  BY <1>1, <1>8, <1>10, <1>11, DotScale
<1>15. Dot(K, z, y) \in Scalars /\ Dot(K, z, a) = Dot(K, a, z) /\ Dot(K, a, z) \in Scalars
  BY <1>1, <1>2, <1>8, DotType, DotFlip
<1>16. Times(bz, Dot(K, a, z)) = Times(Dot(K, a, z), bz)
  BY <1>3, <1>15, TimesLaws
<1> QED BY <1>6, <1>7, <1>12, <1>13, <1>14, <1>15, <1>16 DEF Excess, a, b, K, d, bz

\* The same as a sum over pairs of columns.
PairTerms(c, t, w, z) ==
    [p \in Cols(c) \X Cols(c) |->
        Times(Times(PairTable(c, t, w)[p[1]][p[2]], z[p[1]]), z[p[2]])]

\* The sum over all pairs of columns is the quotient of the products.
LEMMA PairTermsTotal ==
    ASSUME NEW c, NEW t, NEW w, KeyInputs(c, t, w), NEW z \in c.assignments
    PROVE  /\ PairTerms(c, t, w, z) \in [Cols(c) \X Cols(c) -> Scalars]
           /\ IsFiniteSet(Cols(c) \X Cols(c))
           /\ Total(PairTerms(c, t, w, z)) \in Scalars
           /\ Times(w.delta, Total(PairTerms(c, t, w, z))) = Excess(c, t, z)
<1> DEFINE K == Cols(c)
           Q == PairTable(c, t, w)
           v == PairTerms(c, t, w, z)
           F == Table(K, Q, z, z)
<1>1. IsFiniteSet(K) /\ z \in [K -> Scalars] /\ Q \in [K -> [K -> Scalars]]
  <2>1. c \in Circuits
    BY DEF KeyInputs
  <2> QED BY <2>1, CircuitKit, AssignmentKit, PairTableType
<1>2. /\ Form(K, Q, z, z) \in Scalars
      /\ Times(w.delta, Form(K, Q, z, z)) = Excess(c, t, z)
  BY QuadraticIs
<1>3. \A p \in K \X K : v[p] = Times(Times(Q[p[1]][p[2]], z[p[1]]), z[p[2]])
  BY DEF PairTerms
<1>4. DOMAIN v = K \X K /\ v = [p \in K \X K |-> v[p]]
  BY DEF PairTerms
<1> HIDE DEF K, Q, v
<1>5. v \in [K \X K -> Scalars]
  <2>1. \A p \in K \X K : v[p] \in Scalars
    <3> TAKE p \in K \X K
    <3>1. p[1] \in K /\ p[2] \in K
      OBVIOUS
    <3>2. Q[p[1]][p[2]] \in Scalars /\ z[p[1]] \in Scalars /\ z[p[2]] \in Scalars
      BY <1>1, <3>1
    <3> QED BY <1>3, <3>2, Closure
  <2> QED BY <1>4, <2>1
<1>6. F \in [K -> [K -> Scalars]] /\ Form(K, Q, z, z) = Double(K, F)
  BY <1>1, FormType, FormDouble
<1>7. \A i \in K, j \in K : F[i][j] = v[<< i, j >>]
  <2> TAKE i \in K, j \in K
  <2>1. v[<< i, j >>] = Times(Times(Q[i][j], z[i]), z[j])
    BY <1>3
  <2>2. F[i][j] = Times(Q[i][j], Times(z[i], z[j]))
    BY DEF Table
  <2>3. Q[i][j] \in Scalars /\ z[i] \in Scalars /\ z[j] \in Scalars
    BY <1>1
  <2> DEFINE p == Q[i][j]
             x == z[i]
             y == z[j]
  <2> HIDE DEF p, x, y, F
  <2>4. Times(Times(p, x), y) = Times(p, Times(x, y))
    BY <2>3, TimesLaws DEF p, x, y
  <2> QED BY <2>1, <2>2, <2>4 DEF p, x, y
<1> HIDE DEF F
<1>8. PairsOf(K, K, v, F)
  BY <1>1, <1>5, <1>6, <1>7 DEF PairsOf
<1>9. Total(v) = Double(K, F) /\ IsFiniteSet(K \X K)
  BY <1>1, <1>8, AllPairs, FS_Product
<1> QED BY <1>2, <1>5, <1>6, <1>9 DEF K, Q, v

\* BasesAre, for any key.
LEMMA BasesAt ==
    ASSUME NEW c, NEW t, NEW w, KeyInputs(c, t, w), NEW p \in ActivePairs(c),
           NEW base, base = BasesOf(c, ProvingKey(c, t, w))
    PROVE  /\ PairTable(c, t, w)[p[1]][p[2]] = IF p \in DOMAIN base THEN base[p] ELSE Zero
           /\ p \in DOMAIN base => base[p] \in Scalars \ {Zero}
<1>1. PICK i \in Cols(c), j \in Cols(c) : p = << i, j >>
  BY DEF ActivePairs
<1> DEFINE key == ProvingKey(c, t, w)
           lag == LagrangeSrs(c, key)
           diag == DiagonalOf(c, key)
           b == Base(c, lag, diag, p)
           d == w.delta
           x == ColumnsAt(c, c.a, t)[i]
           y == ColumnsAt(c, c.b, t)[j]
           m == Meets(c, t, i, j)
           u == Plus(Times(x, y), Minus(m))
<1>2. b \in Scalars /\ m \in Scalars /\ x \in Scalars /\ y \in Scalars /\ Times(b, d) = u
  <2>1. lag = LagrangeSrs(c, ProvingKey(c, t, w)) /\ diag = DiagonalVector(DomainSize(c), lag)
    BY DEF DiagonalOf
  <2> HIDE DEF lag, diag
  <2> QED BY <1>1, <2>1, BaseIs
<1>3. PairTable(c, t, w)[p[1]][p[2]] = Times(u, Reciprocal(d))
  BY <1>1 DEF PairTable, PairQuotient
<1>4. d \in Scalars /\ d # Zero
  BY DEF KeyInputs
<1>5. PairTable(c, t, w)[p[1]][p[2]] = b
  <2>1. u \in Scalars
    <3> HIDE DEF x, y, m
    <3> QED BY <1>2, Closure
  <2> HIDE DEF u, d, b
  <2> QED BY <1>2, <1>3, <1>4, <2>1, Quotient
<1>6. base = [q \in {r \in ActivePairs(c) : Base(c, lag, diag, r) # Zero} |-> Base(c, lag, diag, q)]
  BY DEF BasesOf, WitnessBases
<1>7. p \in DOMAIN base <=> b # Zero
  BY <1>6
<1>8. p \in DOMAIN base => base[p] = b
  BY <1>6
<1> HIDE DEF b
<1> QED BY <1>2, <1>5, <1>7, <1>8

LeanQuotient(base, z) ==
    Total([p \in DOMAIN base |-> Times(Times(base[p], z[p[1]]), z[p[2]])])

\* Only active pairs have bases.
LEMMA BasesActive ==
    ASSUME NEW c, NEW key
    PROVE  DOMAIN BasesOf(c, key) \subseteq ActivePairs(c)
           /\ ActivePairs(c) \subseteq Cols(c) \X Cols(c)
BY DEF BasesOf, WitnessBases, ActivePairs

\* The lean quotient is the part of the quadratic form over the active pairs.
LEMMA LeanQuotientIs ==
    ASSUME NEW c, NEW t, NEW w, KeyInputs(c, t, w), NEW z \in c.assignments
    PROVE  /\ LeanQuotient(BasesOf(c, ProvingKey(c, t, w)), z)
                = Part(PairTerms(c, t, w, z), ActivePairs(c))
           /\ LeanQuotient(BasesOf(c, ProvingKey(c, t, w)), z) \in Scalars
<1> DEFINE base == BasesOf(c, ProvingKey(c, t, w))
           v == PairTerms(c, t, w, z)
           S == ActivePairs(c)
           B == DOMAIN base
           K == Cols(c) \X Cols(c)
           vS == [p \in S |-> v[p]]
<1>1. v \in [K -> Scalars] /\ IsFiniteSet(K)
  BY PairTermsTotal
<1>2. B \subseteq S /\ S \subseteq K
  BY BasesActive
<1>3. \A p \in S : PairTable(c, t, w)[p[1]][p[2]] = IF p \in B THEN base[p] ELSE Zero
  BY BasesAt
<1>4. \A p \in K : v[p] = Times(Times(PairTable(c, t, w)[p[1]][p[2]], z[p[1]]), z[p[2]])
  BY DEF PairTerms
<1>5. \A p \in K : z[p[1]] \in Scalars /\ z[p[2]] \in Scalars
  <2>1. c \in Circuits
    BY DEF KeyInputs
  <2>2. z \in [Cols(c) -> Scalars]
    BY <2>1, AssignmentKit
  <2> QED BY <2>2
<1> HIDE DEF base, v, S, K
<1>6. \A p \in S : p \notin B => v[p] = Zero
  <2> SUFFICES ASSUME NEW p \in S, p \notin B PROVE v[p] = Zero
    OBVIOUS
  <2>1. v[p] = Times(Times(Zero, z[p[1]]), z[p[2]]) /\ z[p[1]] \in Scalars /\ z[p[2]] \in Scalars
    BY <1>2, <1>3, <1>4, <1>5
  <2> QED BY <2>1, TimesZero
<1>7. \A p \in B : v[p] = Times(Times(base[p], z[p[1]]), z[p[2]])
  BY <1>2, <1>3, <1>4
<1>8. IsFiniteSet(S) /\ vS \in [S -> Scalars]
  BY <1>1, <1>2, PartType
<1>9. Total(vS) = Part(vS, B)
  <2>1. B \in SUBSET S /\ \A p \in S \ B : vS[p] = Zero
    BY <1>2, <1>6
  <2> HIDE DEF vS, B
  <2> QED BY <1>8, <2>1, AllSupport
<1>10. Part(vS, B) = LeanQuotient(base, z)
  <2>1. [p \in B |-> vS[p]] = [p \in B |-> Times(Times(base[p], z[p[1]]), z[p[2]])]
    BY <1>2, <1>7
  <2> HIDE DEF vS
  <2> QED BY <2>1 DEF Part, LeanQuotient
<1>11. Total(vS) \in Scalars
  <2> HIDE DEF vS
  <2> QED BY <1>8, TotalType
<1>12. Part(v, S) = Total(vS)
  BY DEF Part
<1> QED BY <1>9, <1>10, <1>11, <1>12 DEF base, v, S

\* The value of a row with one entry.
LEMMA UnitValue ==
    ASSUME NEW c \in Circuits, NEW z \in c.assignments, NEW j \in Cols(c)
    PROVE  EvaluateConstraint(Unit(c, j), z) = z[j]
<1> DEFINE K == Cols(c)
           u == Unit(c, j)
           v == [i \in K |-> Times(u[i], z[i])]
<1>1. IsFiniteSet(K) /\ z \in [K -> Scalars]
  BY CircuitKit, AssignmentKit
<1>2. \A i \in K : u[i] = IF i = j THEN One ELSE Zero
  BY DEF Unit
<1>3. EvaluateConstraint(u, z) = Total(v)
  <2>1. DOMAIN u = K
    BY DEF Unit
  <2> HIDE DEF u, K
  <2> QED BY <2>1 DEF EvaluateConstraint, \otimes
<1>4. \A i \in K : v[i] = IF i = j THEN z[i] ELSE Zero
  <2> TAKE i \in K
  <2>1. z[i] \in Scalars
    BY <1>1
  <2>2. Times(One, z[i]) = z[i] /\ Times(Zero, z[i]) = Zero
    BY <2>1, ZeroLaws, TimesZero DEF \otimes
  <2>3. v[i] = Times(u[i], z[i])
    OBVIOUS
  <2> HIDE DEF u, v
  <2> QED BY <1>2, <2>2, <2>3
<1>5. v \in [K -> Scalars]
  <2>1. \A i \in K : v[i] \in Scalars
    <3> HIDE DEF v
    <3> QED BY <1>1, <1>4, Closure
  <2> QED BY <2>1
<1>6. j \in K /\ v[j] = z[j] /\ \A i \in K : i # j => v[i] = Zero
  <2> HIDE DEF v
  <2> QED BY <1>4
<1> HIDE DEF v, K
<1>7. Total(v) = v[j]
  BY <1>1, <1>5, <1>6, AllSingle
<1> QED BY <1>3, <1>6, <1>7

\* The public column an omitted column is bound to.
Bonded(c, j, i) ==
    \E k \in Rows(c) : c.a[k] = Unit(c, 0) /\ c.b[k] = Unit(c, j) /\ c.c[k] = Unit(c, i)
Bond(c, j) == CHOOSE i \in Public(c) : Bonded(c, j, i)

\* The public column of an omitted column has the same value.
LEMMA BondIs ==
    ASSUME NEW c \in Circuits, Bound(c), NEW j \in OmittedColumns(c), NEW z \in c.assignments
    PROVE  Bond(c, j) \in Public(c) /\ z[j] = z[Bond(c, j)]
<1> DEFINE i == Bond(c, j)
<1>1. \E i1 \in Public(c) : Bonded(c, j, i1)
  BY DEF Bound, Bonded
<1>2. i \in Public(c) /\ Bonded(c, j, i)
  BY <1>1 DEF Bond
<1> HIDE DEF i
<1>3. PICK k \in Rows(c) : c.a[k] = Unit(c, 0) /\ c.b[k] = Unit(c, j) /\ c.c[k] = Unit(c, i)
  BY <1>2 DEF Bonded
<1>4. 0 \in Cols(c) /\ i \in Cols(c) /\ j \in Cols(c)
  BY <1>2, ColumnKit DEF OmittedColumns
<1>5. z \in [Cols(c) -> Scalars] /\ z[0] = One /\ Satisfied(c, z)
  BY AssignmentKit
<1>6. Times(EvaluateConstraint(c.a[k], z), EvaluateConstraint(c.b[k], z)) = EvaluateConstraint(c.c[k], z)
  BY <1>5 DEF Satisfied, \otimes
<1>7. Times(z[0], z[j]) = z[i]
  BY <1>3, <1>4, <1>6, UnitValue
<1>8. Times(One, z[j]) = z[j]
  BY <1>4, <1>5, ZeroLaws DEF \otimes
<1> QED BY <1>2, <1>5, <1>7, <1>8 DEF i

Inputs(c) == 0 .. c.inputs - 1
Inactive(c) == (Cols(c) \X Cols(c)) \ ActivePairs(c)
\* The input an inactive pair multiplies.
Slot(c, p) == IF p[2] < c.inputs THEN p[2]
              ELSE IF p[2] \in OmittedColumns(c) THEN Bond(c, p[2]) ELSE 0
GapWeight(c, t, w) ==
    [p \in Inactive(c) |-> IF p[1] = 0 THEN PairTable(c, t, w)[p[1]][p[2]] ELSE Zero]
Selector(c) ==
    [p \in Inactive(c) |-> [i \in Inputs(c) |-> IF i = Slot(c, p) THEN One ELSE Zero]]
GapCoefficients(c, t, w) == Preimage(Inactive(c), Inputs(c), GapWeight(c, t, w), Selector(c))

Audited(c, t, w) ==
    /\ KeyInputs(c, t, w) /\ Bound(c)
    /\ NoAccident(c, ProvingKey(c, t, w))
    /\ AuditPasses(c, ProvingKey(c, t, w), BasesOf(c, ProvingKey(c, t, w)))

\* A column without rows has no quotients.
LEMMA EmptyColumn ==
    ASSUME NEW c, NEW t, NEW w, KeyInputs(c, t, w), NEW i \in Cols(c), NEW j \in Cols(c),
           Support(c, c.a, i) = {} \/ Support(c, c.b, j) = {}
    PROVE  PairTable(c, t, w)[i][j] = Zero
<1> DEFINE R == Rows(c)
           l == RowWeights(c, t)
           x == [k \in R |-> c.a[k][i]]
           y == [k \in R |-> c.b[k][j]]
           a == [k \in R |-> Times(l[k], x[k])]
           b == [k \in R |-> Times(l[k], y[k])]
           m == [k \in R |-> Times(a[k], y[k])]
           d == w.delta
           q == PairTable(c, t, w)[i][j]
<1>1. /\ c \in Circuits /\ t \in Scalars /\ Vanishing(DomainSize(c), t) # Zero /\ d \in Scalars /\ d # Zero
      /\ IsFiniteSet(R) /\ c.a \in MatrixOf(c) /\ c.b \in MatrixOf(c)
  BY CircuitKit DEF KeyInputs, MatrixOf
<1>2. l \in [R -> Scalars]
  <2>1. PICK z \in [Cols(c) -> Scalars] : TRUE
    <3>1. [e \in Cols(c) |-> Zero] \in [Cols(c) -> Scalars]
      BY Closure
    <3> QED BY <3>1
  <2> QED BY <1>1, <2>1, RowWeightsDot
<1>3. x \in [R -> Scalars] /\ y \in [R -> Scalars]
  BY <1>1 DEF MatrixOf
<1>4. a \in [R -> Scalars] /\ b \in [R -> Scalars]
  <2> HIDE DEF l, x, y
  <2> QED BY <1>2, <1>3, Closure
<1>5. m \in [R -> Scalars]
  <2> HIDE DEF a, y
  <2> QED BY <1>3, <1>4, Closure
<1>6. ColumnsAt(c, c.a, t)[i] = Total(a) /\ ColumnsAt(c, c.b, t)[j] = Total(b)
      /\ Meets(c, t, i, j) = Total(m)
  BY DEF ColumnsAt, InstanceMap, Meets, RowWeights, \otimes
<1>7. /\ q \in Scalars
      /\ Times(d, q) = Plus(Times(Total(a), Total(b)), Minus(Total(m)))
  BY <1>6, PairTableType
<1>8. CASE \A k \in R : x[k] = Zero
  <2>1. \A k \in R : a[k] = Zero
    <3> HIDE DEF x, l
    <3> QED BY <1>2, <1>8, TimesZero
  <2>2. \A k \in R : m[k] = Zero
    <3> HIDE DEF a, y
    <3> QED BY <1>3, <2>1, TimesZero
  <2> HIDE DEF a, m, b, R
  <2>3. Total(a) = Zero /\ Total(m) = Zero /\ Total(b) \in Scalars
    BY <1>1, <1>4, <1>5, <2>1, <2>2, AllZero, TotalType
  <2>4. Times(Zero, Total(b)) = Zero /\ Plus(Zero, Minus(Zero)) = Zero
    BY <2>3, TimesZero, PlusZero, Closure
  <2>5. Times(d, q) = Zero
    BY <1>7, <2>3, <2>4
  <2> HIDE DEF d, q
  <2> QED BY <1>1, <1>7, <2>5, DomainAssumption DEF NoZeroDivisors, q
<1>9. CASE \A k \in R : y[k] = Zero
  <2>1. \A k \in R : b[k] = Zero
    <3> HIDE DEF y, l
    <3> QED BY <1>2, <1>9, TimesZero
  <2>2. \A k \in R : m[k] = Zero
    <3> HIDE DEF a, y
    <3> QED BY <1>4, <1>9, TimesZero
  <2> HIDE DEF a, m, b, R
  <2>3. Total(b) = Zero /\ Total(m) = Zero /\ Total(a) \in Scalars
    BY <1>1, <1>4, <1>5, <2>1, <2>2, AllZero, TotalType
  <2>4. Times(Total(a), Zero) = Zero /\ Plus(Zero, Minus(Zero)) = Zero
    BY <2>3, TimesZero, PlusZero, Closure
  <2>5. Times(d, q) = Zero
    BY <1>7, <2>3, <2>4
  <2> HIDE DEF d, q
  <2> QED BY <1>1, <1>7, <2>5, DomainAssumption DEF NoZeroDivisors, q
<1>10. (\A k \in R : x[k] = Zero) \/ (\A k \in R : y[k] = Zero)
  BY DEF Support
<1> QED BY <1>8, <1>9, <1>10

\* A pair without a base contributes a multiple of one input.
LEMMA InactiveTerm ==
    ASSUME NEW c, NEW t, NEW w, Audited(c, t, w), NEW z \in c.assignments, NEW p \in Inactive(c)
    PROVE  /\ Slot(c, p) \in Inputs(c)
           /\ GapWeight(c, t, w)[p] \in Scalars
           /\ PairTerms(c, t, w, z)[p] = Times(GapWeight(c, t, w)[p], z[Slot(c, p)])
<1>1. KeyInputs(c, t, w) /\ c \in Circuits
  BY DEF Audited, KeyInputs
<1>2. PICK i \in Cols(c), j \in Cols(c) : p = << i, j >>
  BY DEF Inactive
<1> DEFINE q == PairTable(c, t, w)[i][j]
<1>3. q \in Scalars
  BY <1>1, PairTableType
<1>4. z \in [Cols(c) -> Scalars] /\ z[0] = One /\ 0 \in Cols(c) /\ c.inputs \in Nat \ {0}
      /\ Public(c) \subseteq Cols(c)
  <2>1. c.inputs \in 1 .. c.cols /\ c.cols \in Nat
    BY <1>1, CircuitKit
  <2> QED BY <1>1, <2>1, AssignmentKit, ColumnKit
<1>5. PairTerms(c, t, w, z)[p] = Times(Times(q, z[i]), z[j])
  BY <1>2 DEF PairTerms
<1>6. GapWeight(c, t, w)[p] = IF i = 0 THEN q ELSE Zero
  BY <1>2 DEF GapWeight
<1>7. Slot(c, p) = IF j < c.inputs THEN j ELSE IF j \in OmittedColumns(c) THEN Bond(c, j) ELSE 0
  BY <1>2 DEF Slot
<1>8. \A e \in OmittedColumns(c) : Bond(c, e) \in Public(c) /\ z[e] = z[Bond(c, e)]
  BY <1>1, BondIs DEF Audited
<1>9. i \in Int /\ j \in Int /\ i >= 0 /\ j >= 0
  BY DEF Cols
<1>10. Slot(c, p) \in Inputs(c) /\ Slot(c, p) \in Cols(c)
  BY <1>4, <1>7, <1>8, <1>9 DEF Inputs, Public
<1> DEFINE s == z[Slot(c, p)]
           x == z[i]
           y == z[j]
<1>11. s \in Scalars /\ x \in Scalars /\ y \in Scalars
  BY <1>4, <1>10
<1>12. CASE Support(c, c.a, i) = {} \/ Support(c, c.b, j) = {}
  <2>1. q = Zero
    BY <1>1, <1>12, EmptyColumn
  <2>2. Times(Zero, x) = Zero /\ Times(Zero, y) = Zero /\ Times(Zero, s) = Zero /\ Zero \in Scalars
    <3> HIDE DEF x, y, s
    <3> QED BY <1>11, TimesZero, Closure
  <2> QED BY <1>5, <1>6, <1>10, <2>1, <2>2
<1>13. CASE ~ (Support(c, c.a, i) = {} \/ Support(c, c.b, j) = {})
  <2>1. i \notin Public(c)
    <3>1. i \in Public(c) => ProvingKey(c, t, w).a[i] = Zero
      BY DEF Audited, AuditPasses
    <3> QED BY <1>13, <3>1 DEF Audited, NoAccident
  <2>2. \/ i < c.inputs /\ j < c.inputs
        \/ i = 0 /\ j \in OmittedColumns(c)
    <3>1. p \notin ActivePairs(c) /\ p[1] = i /\ p[2] = j /\ p \in Cols(c) \X Cols(c)
      BY <1>2 DEF Inactive
    <3> QED BY <1>13, <3>1 DEF ActivePairs
  <2>3. i = 0
    BY <1>4, <1>9, <2>1, <2>2 DEF Public
  <2>4. s = y
    <3>1. CASE j < c.inputs
      BY <1>7, <3>1
    <3>2. CASE ~ (j < c.inputs)
      <4>1. j \in OmittedColumns(c)
        BY <2>2, <3>2
      <4> QED BY <1>7, <1>8, <3>2, <4>1
    <3> QED BY <3>1, <3>2
  <2>5. x = One
    BY <1>4, <2>3
  <2>6. Times(q, One) = q
    <3> HIDE DEF q
    <3> QED BY <1>3, ZeroLaws DEF \otimes
  <2>7. PairTerms(c, t, w, z)[p] = Times(q, y)
    BY <1>5, <2>5, <2>6
  <2> QED BY <1>3, <1>6, <1>10, <2>3, <2>4, <2>7
<1> QED BY <1>12, <1>13

\* The inactive part is linear in the inputs, whatever the witness.
LEMMA GapIs ==
    ASSUME NEW c, NEW t, NEW w, Audited(c, t, w), NEW z \in c.assignments
    PROVE  /\ GapCoefficients(c, t, w) \in [Inputs(c) -> Scalars]
           /\ Cut(Inputs(c), z) \in [Inputs(c) -> Scalars]
           /\ Part(PairTerms(c, t, w, z), Inactive(c))
                = Dot(Inputs(c), GapCoefficients(c, t, w), Cut(Inputs(c), z))
<1> DEFINE I == Inputs(c)
           N == Inactive(c)
           S == Selector(c)
           g == GapWeight(c, t, w)
           y == Cut(I, z)
           v == PairTerms(c, t, w, z)
<1>1. KeyInputs(c, t, w) /\ c \in Circuits
  BY DEF Audited, KeyInputs
<1>2. IsFiniteSet(I) /\ I \subseteq Cols(c)
  <2>1. c.inputs \in 1 .. c.cols /\ c.cols \in Nat /\ IsFiniteSet(Cols(c))
    BY <1>1, CircuitKit
  <2>2. I \subseteq Cols(c)
    BY <2>1 DEF Inputs, Cols
  <2> QED BY <2>1, <2>2, FS_Subset
<1>3. IsFiniteSet(N) /\ N \subseteq Cols(c) \X Cols(c)
  <2>1. IsFiniteSet(Cols(c) \X Cols(c))
    BY <1>1, PairTermsTotal
  <2>2. N \subseteq Cols(c) \X Cols(c)
    BY DEF Inactive
  <2> QED BY <2>1, <2>2, FS_Subset
<1>4. y \in [I -> Scalars] /\ \A i \in I : y[i] = z[i]
  <2>1. z \in [Cols(c) -> Scalars]
    BY <1>1, AssignmentKit
  <2>2. \A i \in I : y[i] = z[i]
    BY DEF Cut
  <2> HIDE DEF I
  <2> QED BY <1>2, <2>1, <2>2, CutType
<1>5. \A p \in N : /\ Slot(c, p) \in I /\ g[p] \in Scalars
                   /\ v[p] = Times(g[p], z[Slot(c, p)])
  BY InactiveTerm
<1>6. g \in [N -> Scalars]
  <2>1. g = [p \in N |-> g[p]]
    BY DEF GapWeight
  <2> HIDE DEF g
  <2> QED BY <1>5, <2>1
<1>7. S \in [N -> [I -> Scalars]]
      /\ \A p \in N : \A i \in I : S[p][i] = IF i = Slot(c, p) THEN One ELSE Zero
  <2> HIDE DEF I, N
  <2>1. One \in Scalars /\ Zero \in Scalars
    BY Closure
  <2> QED BY <2>1 DEF Selector, I, N
<1> HIDE DEF I, N, S, g, y, v
<1>8. \A p \in N : Dot(I, S[p], y) = z[Slot(c, p)]
  <2> TAKE p \in N
  <2> DEFINE s == Slot(c, p)
             r == S[p]
             u == [i \in I |-> Times(r[i], y[i])]
  <2>0. s \in I /\ r \in [I -> Scalars] /\ \A i \in I : r[i] = IF i = s THEN One ELSE Zero
    BY <1>5, <1>7
  <2> HIDE DEF s, r
  <2>1. \A i \in I : u[i] = IF i = s THEN y[i] ELSE Zero
    <3> TAKE i \in I
    <3>1. y[i] \in Scalars
      BY <1>4
    <3>2. Times(One, y[i]) = y[i] /\ Times(Zero, y[i]) = Zero
      BY <3>1, ZeroLaws, TimesZero DEF \otimes
    <3> QED BY <2>0, <3>2
  <2>2. u \in [I -> Scalars]
    <3>1. \A i \in I : u[i] \in Scalars
      <4> HIDE DEF u
      <4> QED BY <1>4, <2>1, Closure
    <3> QED BY <3>1
  <2>3. Dot(I, r, y) = Total(u)
    BY DEF Dot
  <2> HIDE DEF u
  <2>4. s \in I /\ \A i \in I : i # s => u[i] = Zero
    BY <2>0, <2>1
  <2>5. Total(u) = u[s]
    BY <1>2, <2>2, <2>4, AllSingle
  <2>6. u[s] = z[s]
    BY <1>4, <2>0, <2>1
  <2> QED BY <2>3, <2>5, <2>6 DEF s, r
<1>9. Dot(N, g, Image(N, I, S, y)) = Dot(I, Preimage(N, I, g, S), y)
      /\ Preimage(N, I, g, S) \in [I -> Scalars]
  <2>1. IsMove(N, I, S, g, y)
    BY <1>2, <1>3, <1>4, <1>6, <1>7 DEF IsMove
  <2> QED BY <2>1, MatrixMove
<1>10. Dot(N, g, Image(N, I, S, y)) = Part(v, N)
  <2>1. \A p \in N : Image(N, I, S, y)[p] = z[Slot(c, p)]
    BY <1>8 DEF Image
  <2>2. [p \in N |-> Times(g[p], Image(N, I, S, y)[p])] = [p \in N |-> v[p]]
    BY <1>5, <2>1
  <2> QED BY <2>2 DEF Dot, Part
<1> QED BY <1>4, <1>9, <1>10 DEF I, N, S, g, y, v, GapCoefficients

StandardQuotientOf(c, t, w, z) == Linear(ProvingKey(c, t, w).h, WitnessMap(c, z))
LeanQuotientOf(c, t, w, z) == LeanQuotient(BasesOf(c, ProvingKey(c, t, w)), z)

\* The quotients of the two provers differ by a combination of the inputs.
LEMMA QuotientGap ==
    ASSUME NEW c, NEW t, NEW w, Audited(c, t, w), NEW z \in c.assignments
    PROVE  /\ StandardQuotientOf(c, t, w, z) \in Scalars
           /\ LeanQuotientOf(c, t, w, z) \in Scalars
           /\ Dot(Inputs(c), GapCoefficients(c, t, w), Cut(Inputs(c), z)) \in Scalars
           /\ StandardQuotientOf(c, t, w, z)
                = Plus(LeanQuotientOf(c, t, w, z),
                       Dot(Inputs(c), GapCoefficients(c, t, w), Cut(Inputs(c), z)))
           /\ Times(StandardQuotientOf(c, t, w, z), w.delta) = Excess(c, t, z)
<1> DEFINE v == PairTerms(c, t, w, z)
           K == Cols(c) \X Cols(c)
           A == ActivePairs(c)
           N == Inactive(c)
           d == w.delta
           S == StandardQuotientOf(c, t, w, z)
           L == LeanQuotientOf(c, t, w, z)
           g == Dot(Inputs(c), GapCoefficients(c, t, w), Cut(Inputs(c), z))
<1>1. KeyInputs(c, t, w)
  BY DEF Audited
<1>2. d \in Scalars /\ d # Zero
  BY <1>1 DEF KeyInputs
<1>3. S \in Scalars /\ Times(S, d) = Excess(c, t, z)
  BY <1>1, StandardQuotient DEF StandardQuotientOf, Excess
<1>4. L \in Scalars /\ L = Part(v, A)
  BY <1>1, LeanQuotientIs DEF LeanQuotientOf
<1>5. g = Part(v, N)
  BY GapIs
<1>6. v \in [K -> Scalars] /\ IsFiniteSet(K) /\ Total(v) \in Scalars
      /\ Times(d, Total(v)) = Excess(c, t, z)
  BY <1>1, PairTermsTotal
<1>7. A \in SUBSET K /\ N = K \ A /\ N \in SUBSET K
  BY DEF ActivePairs, Inactive
<1> HIDE DEF v, K, A, N, d, S, L, g
<1>8. Total(v) = Plus(L, g) /\ g \in Scalars
  BY <1>4, <1>5, <1>6, <1>7, AllCut, PartType
<1>9. Times(Total(v), d) = Times(S, d)
  BY <1>2, <1>3, <1>6, TimesLaws
<1>10. S = Total(v)
  BY <1>2, <1>3, <1>6, <1>9, TimesCancel
<1> QED BY <1>3, <1>4, <1>8, <1>10 DEF S, L, g, d

\* What the provers add to a quotient.
LEMMA ProofParts ==
    ASSUME NEW c, NEW t, NEW w, KeyInputs(c, t, w), NEW z \in c.assignments,
           NEW r \in Scalars, NEW s \in Scalars
    PROVE  LET key == ProvingKey(c, t, w)
           IN  /\ Linear(key.l, z) \in Scalars
               /\ ProofA(key, z, r) \in Scalars /\ ProofB(key, z, s) \in Scalars
               /\ key.delta \in Scalars
<1> DEFINE key == ProvingKey(c, t, w)
           Q == Private(c)
           C == Cols(c)
           x == key.a
           y == key.b
           l == key.l
           u == Cut(Q, z)
<1>0. c \in Circuits /\ w.alpha \in Scalars /\ w.beta \in Scalars /\ w.delta \in Scalars
      /\ w.delta # Zero
  BY DEF KeyInputs
<1>1. /\ key.a = ColumnsAt(c, c.a, t) /\ key.b = ColumnsAt(c, c.b, t)
      /\ key.alpha = w.alpha /\ key.beta = w.beta /\ key.delta = w.delta
      /\ key.l = KeyL(c, t, w)
      /\ LinAt(c, t, w) \in [C -> Scalars]
      /\ ColumnsAt(c, c.a, t) \in [C -> Scalars]
      /\ ColumnsAt(c, c.b, t) \in [C -> Scalars]
  BY KeyIs
<1>2. z \in [C -> Scalars] /\ IsFiniteSet(C) /\ Q \subseteq C /\ IsFiniteSet(Q)
  BY <1>0, AssignmentKit, CircuitKit, ColumnKit
<1>3. u \in [Q -> Scalars]
  BY <1>2, CutType
<1>4. l \in [Q -> Scalars]
  <2>1. Reciprocal(w.delta) \in Scalars
    BY <1>0, ReciprocalNonZero
  <2>2. l = [j \in Q |-> Times(LinAt(c, t, w)[j], Reciprocal(w.delta))]
    BY <1>1 DEF KeyL
  <2> HIDE DEF l, Q, C
  <2> QED BY <1>1, <1>2, <2>1, <2>2, Closure
<1>5. x \in [C -> Scalars] /\ y \in [C -> Scalars]
  BY <1>1
<1> HIDE DEF x, y, l, C, Q, u
<1>6. Linear(l, z) = Dot(Q, l, u)
  <2>1. DOMAIN l = Q
    BY <1>4
  <2>2. Linear(l, z) = Dot(Q, l, z)
    BY <2>1, LinearIs
  <2> QED BY <2>2, DotCut DEF u
<1>7. Linear(x, z) = Dot(C, x, z) /\ Linear(y, z) = Dot(C, y, z)
  BY <1>5, LinearIs
<1>8. Linear(l, z) \in Scalars /\ Linear(x, z) \in Scalars /\ Linear(y, z) \in Scalars
  BY <1>2, <1>3, <1>4, <1>5, <1>6, <1>7, DotType
<1>9. ProofA(key, z, r) = Plus(Plus(w.alpha, Linear(x, z)), Times(w.delta, r))
      /\ ProofB(key, z, s) = Plus(Plus(w.beta, Linear(y, z)), Times(w.delta, s))
  BY <1>1 DEF ProofA, ProofB, x, y, \oplus, \otimes
<1> QED BY <1>0, <1>1, <1>8, <1>9, Closure DEF l

\* Two sums that differ in one place.
Seven(u, p, q, g, x, y, m) == {u, p, q, g, x, y, m} \subseteq Scalars /\ p = Plus(q, g)

\* The sums for C differ by what their quotients differ by.
LEMMA SumsDiffer ==
    ASSUME NEW u, NEW p, NEW q, NEW g, NEW x, NEW y, NEW m, Seven(u, p, q, g, x, y, m)
    PROVE  Plus(Plus(Plus(Plus(u, p), x), y), m)
             = Plus(g, Plus(Plus(Plus(Plus(u, q), x), y), m))
<1>0. /\ u \in Scalars /\ p \in Scalars /\ q \in Scalars /\ g \in Scalars
      /\ x \in Scalars /\ y \in Scalars /\ m \in Scalars /\ p = Plus(q, g)
  BY DEF Seven
<1>1. Plus(u, p) = Plus(g, Plus(u, q)) /\ Plus(u, q) \in Scalars
  <2>1. Plus(q, g) = Plus(g, q)
    BY <1>0, PlusLaws
  <2> QED BY <1>0, <2>1, PlusTurn, Closure
<1>2. Plus(Plus(u, p), x) = Plus(g, Plus(Plus(u, q), x)) /\ Plus(Plus(u, q), x) \in Scalars
  BY <1>0, <1>1, PlusLaws, Closure
<1> DEFINE a == Plus(Plus(u, q), x)
<1> HIDE DEF a
<1>3. Plus(Plus(g, a), y) = Plus(g, Plus(a, y)) /\ Plus(a, y) \in Scalars
  BY <1>0, <1>2, PlusLaws, Closure DEF a
<1>4. Plus(Plus(g, Plus(a, y)), m) = Plus(g, Plus(Plus(a, y), m))
  BY <1>0, <1>2, <1>3, PlusLaws DEF a
<1> QED BY <1>2, <1>3, <1>4 DEF a

\* And so do the two proofs, at the same randomizers.
LEMMA ProofsDiffer ==
    ASSUME NEW c, NEW t, NEW w, KeyInputs(c, t, w), NEW z \in c.assignments,
           NEW r \in Scalars, NEW s \in Scalars,
           NEW p \in Scalars, NEW q \in Scalars, NEW g \in Scalars, p = Plus(q, g)
    PROVE  /\ Proof(ProvingKey(c, t, w), z, r, s, p).c
                \ominus Proof(ProvingKey(c, t, w), z, r, s, q).c = g
           /\ Proof(ProvingKey(c, t, w), z, r, s, p).c \in Scalars
<1> DEFINE key == ProvingKey(c, t, w)
           A == ProofA(key, z, r)
           B == ProofB(key, z, s)
           d == key.delta
           u == Linear(key.l, z)
           x == Times(A, s)
           y == Times(B, r)
           m == Minus(Times(Times(d, r), s))
           P == Plus(Plus(Plus(Plus(u, p), x), y), m)
           Q == Plus(Plus(Plus(Plus(u, q), x), y), m)
<1>1. u \in Scalars /\ A \in Scalars /\ B \in Scalars /\ d \in Scalars
  BY ProofParts
<1>2. Proof(key, z, r, s, p).c = P /\ Proof(key, z, r, s, q).c = Q
  BY DEF Proof, \oplus, \otimes
<1> HIDE DEF key, A, B, d, u
<1>3. x \in Scalars /\ y \in Scalars /\ m \in Scalars
  BY <1>1, Closure
<1> HIDE DEF x, y, m
<1>4. P = Plus(g, Q) /\ Q \in Scalars /\ P \in Scalars
  <2>1. P = Plus(g, Q)
    <3>1. Seven(u, p, q, g, x, y, m)
      BY <1>1, <1>3 DEF Seven
    <3> QED BY <3>1, SumsDiffer
  <2>2. Q \in Scalars
    BY <1>1, <1>3, Closure
  <2> QED BY <2>1, <2>2, Closure
<1>5. P \ominus Q = g
  <2> HIDE DEF P, Q
  <2>1. Plus(Plus(g, Q), Minus(Q)) = Plus(g, Plus(Q, Minus(Q))) /\ Plus(Q, Minus(Q)) = Zero
        /\ Plus(g, Zero) = g
    BY <1>4, PlusLaws, PlusZero, Closure
  <2> QED BY <1>4, <2>1 DEF \ominus
<1> QED BY <1>2, <1>4, <1>5 DEF key

--------------------------------------------------------------------------------
(***************************************************************************)
(* invert_matrix: Gauss-Jordan elimination, and the solve for q_const.     *)
(***************************************************************************)
\* The matrices of invert_matrix, n rows of twice that width, and the vectors they annihilate.
Width(n) == 1 .. 2 * n
Wide(n) == [1 .. n -> [Width(n) -> Scalars]]
Annihilates(n, m, u) == \A r \in 1 .. n : Dot(Width(n), m[r], u) = Zero
UnitColumns(n, m, k) ==
    \A r \in 1 .. n : \A j \in 1 .. k : m[r][j] = IF r = j THEN One ELSE Zero
IsReduced(n, m, k) == n \in Nat \ {0} /\ m \in Wide(n) /\ k \in 0 .. n /\ UnitColumns(n, m, k)

\* The columns of an augmented matrix are finitely many.
LEMMA WidthKit ==
    ASSUME NEW n \in Nat \ {0}
    PROVE  IsFiniteSet(Width(n)) /\ IsFiniteSet(1 .. n) /\ 1 .. n \subseteq Width(n)
BY FS_Interval DEF Width

\* A swap with a later row keeps the unit columns.
LEMMA SwapKeeps ==
    ASSUME NEW n, NEW m, NEW k, IsReduced(n, m, k), k < n,
           NEW p \in k + 1 .. n, NEW u
    PROVE  /\ IsReduced(n, Swapped(m, k + 1, p), k)
           /\ Swapped(m, k + 1, p)[k + 1] = m[p]
           /\ Annihilates(n, Swapped(m, k + 1, p), u) <=> Annihilates(n, m, u)
<1>0. n \in Nat \ {0} /\ m \in Wide(n) /\ k \in 0 .. n /\ UnitColumns(n, m, k)
  BY DEF IsReduced
<1> DEFINE q == k + 1
           w == Swapped(m, q, p)
<1>1. q \in 1 .. n /\ p \in 1 .. n /\ q > k /\ p > k
  BY <1>0
<1>2. \A r \in 1 .. n : w[r] = IF r = q THEN m[p] ELSE IF r = p THEN m[q] ELSE m[r]
  BY <1>0, <1>1 DEF Swapped, Wide
<1>3. w = [r \in 1 .. n |-> w[r]]
  BY <1>0 DEF Swapped, Wide
<1> HIDE DEF w, q
<1>4. w \in Wide(n)
  BY <1>0, <1>1, <1>2, <1>3 DEF Wide
<1>5. UnitColumns(n, w, k)
  <2> SUFFICES ASSUME NEW r \in 1 .. n, NEW j \in 1 .. k
               PROVE  w[r][j] = IF r = j THEN One ELSE Zero
    BY DEF UnitColumns
  <2>1. m[p][j] = Zero /\ m[q][j] = Zero /\ q # j /\ p # j
    BY <1>0, <1>1 DEF UnitColumns
  <2>2. m[r][j] = IF r = j THEN One ELSE Zero
    BY <1>0 DEF UnitColumns
  <2> QED BY <1>2, <2>1, <2>2
<1>6. Annihilates(n, w, u) <=> Annihilates(n, m, u)
  BY <1>1, <1>2 DEF Annihilates
<1> QED BY <1>0, <1>1, <1>2, <1>4, <1>5, <1>6 DEF IsReduced, w, q

\* One row of Cleared, by the row of the pivot.
IsClearing(n, x, y, p, e, f) ==
    /\ n \in Nat \ {0} /\ e \in Scalars /\ f \in Scalars
    /\ x \in [Width(n) -> Scalars] /\ y \in [Width(n) -> Scalars] /\ p \in [Width(n) -> Scalars]
    /\ \A j \in Width(n) : p[j] = Times(e, y[j])

\* A cleared row, applied to a vector.
LEMMA ClearRow ==
    ASSUME NEW n, NEW x, NEW y, NEW p, NEW e, NEW f, IsClearing(n, x, y, p, e, f),
           NEW w \in [Width(n) -> Scalars],
           \A j \in Width(n) : w[j] = Plus(x[j], Minus(Times(f, p[j]))),
           NEW u \in [Width(n) -> Scalars]
    PROVE  /\ Dot(Width(n), p, u) = Times(e, Dot(Width(n), y, u))
           /\ Dot(Width(n), y, u) \in Scalars /\ Dot(Width(n), x, u) \in Scalars
           /\ Dot(Width(n), w, u)
                = Plus(Dot(Width(n), x, u), Minus(Times(f, Dot(Width(n), p, u))))
<1> DEFINE D == Width(n)
           g == [j \in D |-> Times(f, p[j])]
<1>1. /\ n \in Nat \ {0} /\ e \in Scalars /\ f \in Scalars
      /\ x \in [D -> Scalars] /\ y \in [D -> Scalars] /\ p \in [D -> Scalars]
      /\ IsScaled(D, p, y, e)
  BY DEF IsClearing, IsScaled
<1>2. IsFiniteSet(D)
  BY <1>1, WidthKit
<1>3. w \in [D -> Scalars] /\ u \in [D -> Scalars]
  OBVIOUS
<1>4. g \in [D -> Scalars] /\ IsScaled(D, g, p, f) /\ IsDifference(D, w, x, g)
  <2>1. \A j \in D : g[j] = Times(f, p[j]) /\ g[j] \in Scalars
    <3> HIDE DEF D
    <3> QED BY <1>1, Closure
  <2> QED BY <2>1 DEF IsScaled, IsDifference
<1> HIDE DEF D, g
<1>5. Dot(D, p, u) = Times(e, Dot(D, y, u))
  BY <1>1, <1>2, <1>3, DotScale
<1>6. Dot(D, g, u) = Times(f, Dot(D, p, u))
  BY <1>1, <1>2, <1>3, <1>4, DotScale
<1>7. Dot(D, w, u) = Plus(Dot(D, x, u), Minus(Dot(D, g, u)))
  BY <1>1, <1>2, <1>3, <1>4, DotSub
<1>8. Dot(D, y, u) \in Scalars /\ Dot(D, x, u) \in Scalars
  BY <1>1, <1>2, <1>3, DotType
<1> QED BY <1>5, <1>6, <1>7, <1>8 DEF D

PivotOf(n, m, q) == [j \in Width(n) |-> Times(Reciprocal(m[q][q]), m[q][j])]

\* The rows of invert_matrix after clearing a column.
LEMMA ClearedIs ==
    ASSUME NEW n \in Nat \ {0}, NEW m \in Wide(n), NEW q \in 1 .. n, m[q][q] # Zero
    PROVE  /\ Reciprocal(m[q][q]) \in Scalars
           /\ PivotOf(n, m, q) \in [Width(n) -> Scalars]
           /\ Cleared(n, m, q) \in Wide(n)
           /\ Cleared(n, m, q)[q] = PivotOf(n, m, q)
           /\ \A r \in 1 .. n : r # q => \A j \in Width(n) :
                 Cleared(n, m, q)[r][j]
                   = Plus(m[r][j], Minus(Times(m[r][q], PivotOf(n, m, q)[j])))
<1> DEFINE e == Reciprocal(m[q][q])
           p == PivotOf(n, m, q)
           w == Cleared(n, m, q)
           D == Width(n)
<1>1. /\ \A r \in 1 .. n : m[r] \in [D -> Scalars]
      /\ \A r \in 1 .. n : \A j \in D : m[r][j] \in Scalars
      /\ 1 .. n \subseteq D
  BY WidthKit DEF Wide
<1>2. e \in Scalars
  <2>1. m[q][q] \in Scalars
    BY <1>1
  <2> QED BY <2>1, ReciprocalNonZero
<1>3. p = [j \in D |-> Times(e, m[q][j])] /\ \A j \in D : p[j] \in Scalars
  <2>1. p = [j \in D |-> Times(e, m[q][j])]
    BY DEF PivotOf
  <2> HIDE DEF p, e, D
  <2> QED BY <1>1, <1>2, <2>1, Closure
<1>4. p = [j \in 1 .. 2 * n |-> m[q][j] \otimes Reciprocal(m[q][q])]
  <2>1. \A j \in 1 .. 2 * n : Times(e, m[q][j]) = m[q][j] \otimes Reciprocal(m[q][q])
    <3> TAKE j \in 1 .. 2 * n
    <3>1. m[q][j] \in Scalars
      BY <1>1 DEF Width
    <3> QED BY <1>2, <3>1, TimesLaws DEF \otimes
  <2> QED BY <1>3, <2>1 DEF Width
<1>5. w = [r \in 1 .. n |->
             IF r = q THEN p
             ELSE [j \in 1 .. 2 * n |-> m[r][j] \ominus (p[j] \otimes m[r][q])]]
  BY <1>4 DEF Cleared
<1>6. p \in [D -> Scalars]
  <2>1. p = [j \in D |-> p[j]]
    BY <1>3
  <2> HIDE DEF p, D
  <2> QED BY <1>3, <2>1
<1>7. \A r \in 1 .. n : \A j \in D :
         /\ m[r][j] \ominus (p[j] \otimes m[r][q]) = Plus(m[r][j], Minus(Times(m[r][q], p[j])))
         /\ Plus(m[r][j], Minus(Times(m[r][q], p[j]))) \in Scalars
  <2> TAKE r \in 1 .. n
  <2> TAKE j \in D
  <2>1. m[r][j] \in Scalars /\ m[r][q] \in Scalars /\ p[j] \in Scalars
    BY <1>1, <1>3
  <2> HIDE DEF p
  <2>2. Times(p[j], m[r][q]) = Times(m[r][q], p[j])
    BY <2>1, TimesLaws
  <2> QED BY <2>1, <2>2, Closure DEF \ominus, \otimes
<1> HIDE DEF w, p, e
<1>8. \A r \in 1 .. n : w[r] \in [D -> Scalars]
  <2> TAKE r \in 1 .. n
  <2>1. CASE r = q
    BY <1>5, <1>6, <2>1
  <2>2. CASE r # q
    <3>1. w[r] = [j \in D |-> m[r][j] \ominus (p[j] \otimes m[r][q])]
      BY <1>5, <2>2 DEF Width
    <3> HIDE DEF D
    <3> QED BY <1>7, <3>1
  <2> QED BY <2>1, <2>2
<1>9. \A r \in 1 .. n : r # q => \A j \in D : w[r][j] = Plus(m[r][j], Minus(Times(m[r][q], p[j])))
  BY <1>5, <1>7 DEF Width
<1>10. w \in Wide(n) /\ w[q] = p
  <2>1. w = [r \in 1 .. n |-> w[r]]
    BY <1>5
  <2> QED BY <1>5, <1>8, <2>1 DEF Wide
<1> QED BY <1>2, <1>6, <1>9, <1>10 DEF w, p, e

\* Clearing a column makes it a unit column, and keeps the earlier ones.
LEMMA ClearKeeps ==
    ASSUME NEW n, NEW m, NEW k, IsReduced(n, m, k), k < n, m[k + 1][k + 1] # Zero
    PROVE  IsReduced(n, Cleared(n, m, k + 1), k + 1)
<1> DEFINE q == k + 1
           e == Reciprocal(m[q][q])
           p == PivotOf(n, m, q)
           w == Cleared(n, m, q)
           D == Width(n)
<1>0. n \in Nat \ {0} /\ m \in Wide(n) /\ k \in 0 .. n /\ UnitColumns(n, m, k)
  BY DEF IsReduced
<1>1. q \in 1 .. n /\ m[q][q] # Zero
  BY <1>0
<1>2. /\ e \in Scalars /\ p \in [D -> Scalars]
      /\ w \in Wide(n) /\ w[q] = p
      /\ \A r \in 1 .. n : r # q => \A j \in D : w[r][j] = Plus(m[r][j], Minus(Times(m[r][q], p[j])))
  <2> HIDE DEF q
  <2> QED BY <1>0, <1>1, ClearedIs
<1>3. \A j \in D : p[j] = Times(e, m[q][j])
  BY DEF PivotOf
<1>4. /\ \A r \in 1 .. n : \A j \in D : m[r][j] \in Scalars
      /\ 1 .. n \subseteq D
  BY <1>0, WidthKit DEF Wide
<1>5. p[q] = One
  <2>1. m[q][q] \in Scalars /\ q \in D
    BY <1>1, <1>4
  <2> QED BY <1>1, <1>3, <2>1, ReciprocalNonZero
<1>6. \A j \in 1 .. k : p[j] = Zero
  <2> TAKE j \in 1 .. k
  <2>1. m[q][j] = Zero /\ j \in D
    BY <1>0, <1>1, <1>4 DEF UnitColumns
  <2> QED BY <1>2, <1>3, <2>1, TimesZero
<1>7. q = k + 1
  OBVIOUS
<1> HIDE DEF q, e, p, w, D
<1>8. ASSUME NEW r \in 1 .. n, NEW j \in 1 .. q
      PROVE  w[r][j] = IF r = j THEN One ELSE Zero
  <2>0. j \in 1 .. n /\ j \in D /\ (j = q \/ j \in 1 .. k)
    BY <1>0, <1>1, <1>4, <1>7
  <2>1. CASE r = q
    BY <1>2, <1>5, <1>6, <1>7, <2>0, <2>1
  <2>2. CASE r # q
    <3> DEFINE x == m[r][j]
               f == m[r][q]
    <3>1. x \in Scalars /\ f \in Scalars
      BY <1>1, <1>4, <2>0
    <3>2. w[r][j] = Plus(x, Minus(Times(f, p[j])))
      BY <1>2, <2>0, <2>2
    <3>3. CASE j = q
      <4>1. Times(f, One) = f /\ Plus(f, Minus(f)) = Zero
        <5> HIDE DEF f
        <5> QED BY <3>1, TimesLaws, PlusZero
      <4> QED BY <1>5, <2>2, <3>2, <3>3, <4>1
    <3>4. CASE j \in 1 .. k
      <4>1. p[j] = Zero
        BY <1>6, <3>4
      <4>2. x = IF r = j THEN One ELSE Zero
        BY <1>0, <3>4 DEF UnitColumns
      <4> HIDE DEF x, f
      <4>3. Times(f, Zero) = Zero /\ x \ominus Zero = x
        BY <3>1, TimesZero, ZeroLaws
      <4> QED BY <3>2, <4>1, <4>2, <4>3 DEF \ominus
    <3> QED BY <2>0, <3>3, <3>4
  <2> QED BY <2>1, <2>2
<1>9. q \in 0 .. n
  BY <1>1
<1> QED BY <1>0, <1>2, <1>8, <1>9 DEF IsReduced, UnitColumns, q, w

\* Clearing a column keeps the vectors the rows annihilate.
LEMMA ClearAnnihilates ==
    ASSUME NEW n \in Nat \ {0}, NEW m \in Wide(n), NEW q \in 1 .. n, m[q][q] # Zero,
           NEW u \in [Width(n) -> Scalars]
    PROVE  Annihilates(n, Cleared(n, m, q), u) <=> Annihilates(n, m, u)
<1> DEFINE e == Reciprocal(m[q][q])
           p == PivotOf(n, m, q)
           w == Cleared(n, m, q)
           D == Width(n)
           dp == Dot(D, p, u)
           dq == Dot(D, m[q], u)
<1>1. /\ e \in Scalars /\ p \in [D -> Scalars]
      /\ w \in Wide(n) /\ w[q] = p
      /\ \A r \in 1 .. n : r # q => \A j \in D : w[r][j] = Plus(m[r][j], Minus(Times(m[r][q], p[j])))
  BY ClearedIs
<1>2. \A j \in D : p[j] = Times(e, m[q][j])
  BY DEF PivotOf
<1>3. /\ \A r \in 1 .. n : \A j \in D : m[r][j] \in Scalars
      /\ \A r \in 1 .. n : m[r] \in [D -> Scalars] /\ w[r] \in [D -> Scalars]
      /\ 1 .. n \subseteq D
  BY <1>1, WidthKit DEF Wide
<1>4. e # Zero
  <2>1. m[q][q] \in Scalars
    BY <1>3
  <2> QED BY <2>1, ReciprocalNonZero
<1> HIDE DEF p, w, e, D
<1>5. \A r \in 1 .. n : r # q =>
         /\ dp = Times(e, dq) /\ dq \in Scalars /\ Dot(D, m[r], u) \in Scalars
         /\ Dot(D, w[r], u) = Plus(Dot(D, m[r], u), Minus(Times(m[r][q], dp)))
  <2> TAKE r \in 1 .. n
  <2> HAVE r # q
  <2> DEFINE x == m[r]
             y == m[q]
             f == m[r][q]
             v == w[r]
  <2>1. IsClearing(n, x, y, p, e, f)
    BY <1>1, <1>2, <1>3 DEF IsClearing, D
  <2>2. v \in [D -> Scalars] /\ \A j \in D : v[j] = Plus(x[j], Minus(Times(f, p[j])))
    BY <1>1, <1>3
  <2>3. v \in [Width(n) -> Scalars] /\ \A j \in Width(n) : v[j] = Plus(x[j], Minus(Times(f, p[j])))
    BY <2>2 DEF D
  <2> HIDE DEF x, y, f, v
  <2>4. /\ Dot(Width(n), p, u) = Times(e, Dot(Width(n), y, u))
        /\ Dot(Width(n), y, u) \in Scalars /\ Dot(Width(n), x, u) \in Scalars
        /\ Dot(Width(n), v, u)
             = Plus(Dot(Width(n), x, u), Minus(Times(f, Dot(Width(n), p, u))))
    BY <2>1, <2>3, ClearRow
  <2> QED BY <2>4 DEF x, y, f, v, D
<1>6. dp = Times(e, dq) /\ dq \in Scalars
  <2>1. IsFiniteSet(D) /\ u \in [D -> Scalars] /\ m[q] \in [D -> Scalars]
    BY <1>3, WidthKit DEF D
  <2>2. IsScaled(D, p, m[q], e)
    BY <1>2 DEF IsScaled
  <2> DEFINE y == m[q]
  <2> HIDE DEF y
  <2>3. y \in [D -> Scalars] /\ IsScaled(D, p, y, e)
    BY <2>1, <2>2 DEF y
  <2>4. Dot(D, p, u) = Times(e, Dot(D, y, u)) /\ Dot(D, y, u) \in Scalars
    BY <1>1, <2>1, <2>3, DotScale, DotType
  <2> QED BY <2>4 DEF y
<1>7. dp = Zero <=> dq = Zero
  <2> HIDE DEF dp, dq
  <2> QED BY <1>1, <1>4, <1>6, TimesZero, DomainAssumption DEF NoZeroDivisors
<1>8. dp = Zero => \A r \in 1 .. n : r # q => Dot(D, w[r], u) = Dot(D, m[r], u)
  <2> HAVE dp = Zero
  <2> TAKE r \in 1 .. n
  <2> HAVE r # q
  <2> DEFINE x == Dot(D, m[r], u)
             f == m[r][q]
  <2>1. x \in Scalars /\ f \in Scalars /\ Dot(D, w[r], u) = Plus(x, Minus(Times(f, Zero)))
    BY <1>3, <1>5
  <2> HIDE DEF x, f
  <2>2. Times(f, Zero) = Zero /\ x \ominus Zero = x
    BY <2>1, TimesZero, ZeroLaws
  <2> QED BY <2>1, <2>2 DEF \ominus, x
<1>9. Annihilates(n, w, u) <=> \A r \in 1 .. n : Dot(D, w[r], u) = Zero
  BY DEF Annihilates, D
<1>10. Annihilates(n, m, u) <=> \A r \in 1 .. n : Dot(D, m[r], u) = Zero
  BY DEF Annihilates, D
<1>11. Dot(D, w[q], u) = dp /\ q \in 1 .. n
  BY <1>1
<1> HIDE DEF dp
<1>12. ASSUME \A r \in 1 .. n : Dot(D, w[r], u) = Zero
       PROVE  \A r \in 1 .. n : Dot(D, m[r], u) = Zero
  BY <1>7, <1>8, <1>11, <1>12
<1>13. ASSUME \A r \in 1 .. n : Dot(D, m[r], u) = Zero
       PROVE  \A r \in 1 .. n : Dot(D, w[r], u) = Zero
  BY <1>7, <1>8, <1>11, <1>13
<1> QED BY <1>9, <1>10, <1>12, <1>13 DEF w

Vector(n) == [Width(n) -> Scalars]
\* A combination of the first n columns that vanishes.
IsKernel(n, m, u) ==
    /\ u \in Vector(n) /\ Annihilates(n, m, u)
    /\ \E j \in 1 .. n : u[j] # Zero
    /\ \A j \in n + 1 .. 2 * n : u[j] = Zero

\* A sum with two terms.
HasTwo(D, v, a, b) ==
    /\ IsFiniteSet(D) /\ v \in [D -> Scalars] /\ a \in D /\ b \in D /\ a # b
    /\ \A k \in D : k # a /\ k # b => v[k] = Zero

\* All other terms being zero.
LEMMA TwoTerms ==
    ASSUME NEW D, NEW v, NEW a, NEW b, HasTwo(D, v, a, b)
    PROVE  Total(v) = Plus(v[a], v[b])
<1>0. /\ IsFiniteSet(D) /\ v \in [D -> Scalars] /\ a \in D /\ b \in D /\ a # b
      /\ \A k \in D : k # a /\ k # b => v[k] = Zero
  BY DEF HasTwo
<1>1. {a, b} \in SUBSET D /\ \A k \in D \ {a, b} : v[k] = Zero
  BY <1>0
<1>2. Total(v) = Part(v, {a, b})
  BY <1>0, <1>1, AllSupport
<1>3. /\ Part(v, {}) = Zero
      /\ \A s \in SUBSET D : \A e \in D \ s : Part(v, s \cup {e}) = Plus(Part(v, s), v[e])
  BY <1>0, PartLaws
<1>4. {} \in SUBSET D /\ a \in D \ {} /\ {a} \in SUBSET D /\ b \in D \ {a}
  BY <1>0
<1>5. Part(v, {} \cup {a}) = Plus(Zero, v[a])
  BY <1>3, <1>4
<1>6. Part(v, {a} \cup {b}) = Plus(Part(v, {a}), v[b])
  BY <1>3, <1>4
<1>7. {} \cup {a} = {a} /\ {a} \cup {b} = {a, b}
  OBVIOUS
<1>8. Plus(Zero, v[a]) = v[a]
  BY <1>0, PlusZero
<1> QED BY <1>2, <1>5, <1>6, <1>7, <1>8

\* The vector that shows a column without a pivot to be a combination of the earlier ones.
Witness(n, m, q) ==
    [j \in Width(n) |-> IF j < q THEN Minus(m[j][q]) ELSE IF j = q THEN One ELSE Zero]

\* A column without a pivot makes the witness a vector of the kernel.
LEMMA NoPivot ==
    ASSUME NEW n, NEW m, NEW k, IsReduced(n, m, k), k < n, PivotRows(n, m, k + 1) = {}
    PROVE  IsKernel(n, m, Witness(n, m, k + 1))
<1> DEFINE q == k + 1
           D == Width(n)
           u == Witness(n, m, q)
<1>0. n \in Nat \ {0} /\ m \in Wide(n) /\ k \in 0 .. n /\ UnitColumns(n, m, k) /\ q \in 1 .. n
  BY DEF IsReduced
<1>1. /\ \A r \in 1 .. n : m[r] \in [D -> Scalars]
      /\ \A r \in 1 .. n : \A j \in D : m[r][j] \in Scalars
      /\ 1 .. n \subseteq D /\ IsFiniteSet(D)
  BY <1>0, WidthKit DEF Wide
<1>2. \A r \in q .. n : m[r][q] = Zero
  <2>1. {r \in q .. n : m[r][q] # Zero} = {}
    BY DEF PivotRows
  <2> QED BY <2>1
<1>3. q = k + 1 /\ D \subseteq Nat
  BY <1>0 DEF Width
<1>4. \A j \in D : u[j] = IF j < q THEN Minus(m[j][q]) ELSE IF j = q THEN One ELSE Zero
  BY DEF Witness
<1>5. u = [j \in D |-> u[j]]
  BY DEF Witness
<1>6. q \in 1 .. n /\ q \in D
  BY <1>0, <1>1
<1>7. \A j \in 1 .. 2 * n : j \in D
  BY DEF Width
<1> HIDE DEF q, D, u
<1>8. \A j \in D : u[j] \in Scalars
  <2> TAKE j \in D
  <2>1. j < q => j \in 1 .. n
    BY <1>0, <1>3, <1>6 DEF D, Width
  <2> QED BY <1>1, <1>4, <1>6, <2>1, Closure
<1>9. u \in [D -> Scalars]
  BY <1>5, <1>8
<1>10. ASSUME NEW r \in 1 .. n PROVE Dot(D, m[r], u) = Zero
  <2> DEFINE v == [j \in D |-> Times(m[r][j], u[j])]
             f == m[r][q]
  <2>1. v \in [D -> Scalars]
    BY <1>1, <1>8, Closure
  <2>2. Dot(D, m[r], u) = Total(v)
    BY DEF Dot
  <2>3. f \in Scalars /\ Times(f, One) = f /\ v[q] = Times(f, u[q]) /\ u[q] = One
    BY <1>1, <1>3, <1>4, <1>6, TimesLaws
  <2>4. v[q] = f
    BY <2>3
  <2>5. \A j \in D : j > q => v[j] = Zero
    <3> TAKE j \in D
    <3> HAVE j > q
    <3>1. u[j] = Zero /\ m[r][j] \in Scalars
      BY <1>1, <1>3, <1>4, <1>6
    <3> QED BY <3>1, TimesZero
  <2>6. \A j \in D : j < q => m[r][j] = IF r = j THEN One ELSE Zero
    <3> TAKE j \in D
    <3> HAVE j < q
    <3>1. j \in 1 .. k
      BY <1>0, <1>3 DEF D, Width
    <3> QED BY <1>0, <3>1 DEF UnitColumns
  <2>7. \A j \in D : j < q /\ j # r => v[j] = Zero
    <3> TAKE j \in D
    <3> HAVE j < q /\ j # r
    <3>1. m[r][j] = Zero /\ u[j] \in Scalars
      BY <1>8, <2>6
    <3> QED BY <3>1, TimesZero
  <2>8. CASE r < q
    <3>1. r \in D /\ r # q
      BY <1>1, <2>8
    <3>2. v[r] = Times(One, Minus(f))
      BY <1>4, <2>6, <2>8, <3>1
    <3> HIDE DEF v, f
    <3>3. \A j \in D : j # r /\ j # q => v[j] = Zero
      <4>1. \A j \in D : j < q \/ j = q \/ j > q
        BY <1>3, <1>6
      <4> QED BY <2>5, <2>7, <4>1
    <3>4. Total(v) = Plus(v[r], v[q])
      <4>1. HasTwo(D, v, r, q)
        BY <1>1, <1>6, <2>1, <3>1, <3>3 DEF HasTwo
      <4> QED BY <4>1, TwoTerms
    <3>5. Times(One, Minus(f)) = Minus(f) /\ Plus(Minus(f), f) = Zero
      <4>1. Minus(f) \in Scalars /\ One \in Scalars
        BY <2>3, Closure
      <4> QED BY <2>3, <4>1, TimesLaws, PlusLaws, PlusZero
    <3> QED BY <2>2, <2>4, <3>2, <3>4, <3>5
  <2>9. CASE r >= q
    <3>1. f = Zero
      <4>1. r \in q .. n
        BY <1>0, <1>6, <2>9
      <4> QED BY <1>2, <4>1
    <3>2. \A j \in D : v[j] = Zero
      <4> HIDE DEF v, f
      <4>1. \A j \in D : (j < q /\ j # r) \/ j = q \/ j > q
        BY <1>3, <1>6, <2>9
      <4> QED BY <2>4, <2>5, <2>7, <3>1, <4>1
    <3> HIDE DEF v
    <3> QED BY <1>1, <2>1, <2>2, <3>2, AllZero
  <2> QED BY <1>6, <2>8, <2>9
<1>11. \A j \in n + 1 .. 2 * n : u[j] = Zero
  <2> TAKE j \in n + 1 .. 2 * n
  <2>1. j \in 1 .. 2 * n /\ j > q
    BY <1>0, <1>6
  <2> QED BY <1>4, <1>6, <1>7, <2>1
<1>12. q \in 1 .. n /\ u[q] # Zero
  <2>1. u[q] = One /\ One # Zero
    BY <1>3, <1>4, <1>6, FieldAssumption
  <2> QED BY <1>6, <2>1
<1>13. u \in Vector(n) /\ Annihilates(n, m, u)
  BY <1>9, <1>10 DEF Vector, Annihilates, D
<1> QED BY <1>11, <1>12, <1>13 DEF IsKernel, u, q

GaussStep(n, m, q) ==
    IF m = << >> \/ PivotRows(n, m, q) = {} THEN << >>
    ELSE Cleared(n, Swapped(m, q, PivotRow(n, m, q)), q)

\* A matrix is not the empty sequence that stands for the panic.
LEMMA WideNotEmpty ==
    ASSUME NEW n \in Nat \ {0}, NEW m \in Wide(n)
    PROVE  m # << >>
<1>1. 1 \in DOMAIN m
  BY DEF Wide
<1>2. DOMAIN << >> = {}
  OBVIOUS
<1> QED BY <1>1, <1>2

\* The row invert_matrix swaps in.
LEMMA PivotRowIs ==
    ASSUME NEW n \in Nat \ {0}, NEW m, NEW q \in 1 .. n, PivotRows(n, m, q) # {}
    PROVE  PivotRow(n, m, q) \in q .. n /\ m[PivotRow(n, m, q)][q] # Zero
<1> DEFINE S == PivotRows(n, m, q)
<1>1. S \subseteq Nat /\ S # {} /\ \A r \in S : r \in q .. n /\ m[r][q] # Zero
  BY DEF PivotRows
<1> HIDE DEF S
<1>2. PICK p \in S : \A r \in S : p <= r
  BY <1>1, LeastNatural
<1>3. PivotRow(n, m, q) = CHOOSE u \in S : \A r \in S : u <= r
  BY DEF PivotRow, S
<1>4. PivotRow(n, m, q) \in S
  BY <1>2, <1>3
<1> QED BY <1>1, <1>4

\* One turn of the elimination.
LEMMA GaussStepIs ==
    ASSUME NEW n, NEW m, NEW k, IsReduced(n, m, k), k < n, PivotRows(n, m, k + 1) # {}
    PROVE  /\ GaussStep(n, m, k + 1) # << >>
           /\ IsReduced(n, GaussStep(n, m, k + 1), k + 1)
           /\ \A u \in Vector(n) :
                 Annihilates(n, GaussStep(n, m, k + 1), u) <=> Annihilates(n, m, u)
<1> DEFINE q == k + 1
           p == PivotRow(n, m, q)
           s == Swapped(m, q, p)
           w == Cleared(n, s, q)
<1>0. n \in Nat \ {0} /\ m \in Wide(n) /\ k \in 0 .. n /\ q \in 1 .. n
  BY DEF IsReduced
<1>1. p \in q .. n /\ m[p][q] # Zero
  <2> HIDE DEF q
  <2>1. PivotRows(n, m, q) # {}
    BY DEF q
  <2> QED BY <1>0, <2>1, PivotRowIs
<1>2. m # << >>
  BY <1>0, WideNotEmpty
<1>3. GaussStep(n, m, q) = w
  BY <1>2 DEF GaussStep
<1> HIDE DEF p
<1>4. \A u : /\ IsReduced(n, s, k) /\ s[q] = m[p]
             /\ Annihilates(n, s, u) <=> Annihilates(n, m, u)
  BY <1>1, SwapKeeps
<1>5. IsReduced(n, s, k) /\ s[q][q] # Zero /\ s \in Wide(n)
  BY <1>1, <1>4 DEF IsReduced
<1> HIDE DEF s
<1>6. IsReduced(n, w, k + 1)
  BY <1>5, ClearKeeps
<1>7. \A u \in Vector(n) : Annihilates(n, w, u) <=> Annihilates(n, s, u)
  <2> TAKE u \in Vector(n)
  <2>1. u \in [Width(n) -> Scalars]
    BY DEF Vector
  <2> HIDE DEF q
  <2> QED BY <1>0, <1>5, <2>1, ClearAnnihilates
<1>8. w # << >>
  BY <1>6, WideNotEmpty DEF IsReduced
<1> QED BY <1>3, <1>4, <1>6, <1>7, <1>8

\* After k columns: reduced that far, or there was a column without a pivot.
IsSoFar(n, a, m, k) ==
    IF m = << >> THEN \E u : IsKernel(n, a, u)
    ELSE IsReduced(n, m, k) /\ \A u \in Vector(n) : Annihilates(n, m, u) <=> Annihilates(n, a, u)

\* One more column.
LEMMA SoFarStep ==
    ASSUME NEW n \in Nat \ {0}, NEW a, NEW m, NEW k \in 0 .. n - 1, IsSoFar(n, a, m, k)
    PROVE  IsSoFar(n, a, GaussStep(n, m, k + 1), k + 1)
<1> DEFINE w == GaussStep(n, m, k + 1)
<1>1. CASE m = << >>
  <2>1. w = << >>
    BY <1>1 DEF GaussStep
  <2> QED BY <1>1, <2>1 DEF IsSoFar
<1>2. CASE m # << >> /\ PivotRows(n, m, k + 1) = {}
  <2>1. w = << >>
    BY <1>2 DEF GaussStep
  <2>2. IsReduced(n, m, k) /\ \A u \in Vector(n) : Annihilates(n, m, u) <=> Annihilates(n, a, u)
    BY <1>2 DEF IsSoFar
  <2>3. IsKernel(n, m, Witness(n, m, k + 1))
    BY <1>2, <2>2, NoPivot
  <2>4. IsKernel(n, a, Witness(n, m, k + 1))
    BY <2>2, <2>3 DEF IsKernel
  <2> QED BY <2>1, <2>4 DEF IsSoFar
<1>3. CASE m # << >> /\ PivotRows(n, m, k + 1) # {}
  <2>1. IsReduced(n, m, k) /\ \A u \in Vector(n) : Annihilates(n, m, u) <=> Annihilates(n, a, u)
    BY <1>3 DEF IsSoFar
  <2>0. k < n /\ PivotRows(n, m, k + 1) # {} /\ IsReduced(n, m, k)
    BY <1>3, <2>1
  <2>2. /\ w # << >> /\ IsReduced(n, w, k + 1)
        /\ \A u \in Vector(n) : Annihilates(n, w, u) <=> Annihilates(n, m, u)
    BY <2>0, GaussStepIs
  <2> QED BY <2>1, <2>2 DEF IsSoFar
<1> QED BY <1>1, <1>2, <1>3

\* Every row of the elimination is a course of it.
LEMMA GaussStepType ==
    ASSUME NEW n \in Nat \ {0}, NEW m \in Wide(n) \cup {<< >>}, NEW q \in 1 .. n
    PROVE  GaussStep(n, m, q) \in Wide(n) \cup {<< >>}
<1>1. CASE m = << >> \/ PivotRows(n, m, q) = {}
  BY <1>1 DEF GaussStep
<1>2. CASE ~ (m = << >> \/ PivotRows(n, m, q) = {})
  <2> DEFINE p == PivotRow(n, m, q)
             s == Swapped(m, q, p)
  <2>1. m \in Wide(n) /\ PivotRows(n, m, q) # {}
    BY <1>2
  <2>2. p \in q .. n /\ m[p][q] # Zero
    BY <2>1, PivotRowIs
  <2> HIDE DEF p
  <2>3. p \in 1 .. n /\ s[q] = m[p]
    BY <2>1, <2>2 DEF Swapped, Wide
  <2>4. s \in Wide(n) /\ s[q][q] # Zero
    BY <2>1, <2>2, <2>3 DEF Swapped, Wide
  <2>5. Cleared(n, s, q) \in Wide(n)
    <3> HIDE DEF s
    <3> QED BY <2>4, ClearedIs
  <2> QED BY <1>2, <2>5 DEF GaussStep, p
<1> QED BY <1>1, <1>2

\* Either invert_matrix reduces all columns, or some combination of them vanishes.
LEMMA InvertMatrixIs ==
    ASSUME NEW n \in Nat \ {0}, NEW xs, Augmented(n, xs) \in Wide(n)
    PROVE  IsSoFar(n, Augmented(n, xs), InvertMatrix(n, xs), n)
<1> DEFINE a == Augmented(n, xs)
           T == Wide(n) \cup {<< >>}
           D(p) == p = [col \in 0 .. n |->
                          IF col = 0 THEN a
                          ELSE LET m == p[col - 1]
                               IN  IF m = << >> \/ PivotRows(n, m, col) = {} THEN << >>
                                   ELSE Cleared(n, Swapped(m, col, PivotRow(n, m, col)), col)]
           step == [q \in 1 .. n |-> [x \in T |-> GaussStep(n, x, q)]]
<1>1. InvertMatrix(n, xs) = (CHOOSE p : D(p))[n]
  BY DEF InvertMatrix
<1>2. \A p : D(p) <=> p = [col \in 0 .. n |-> IF col = 0 THEN a ELSE GaussStep(n, p[col - 1], col)]
  BY DEF GaussStep
<1>3. \A x \in T : \A q \in 1 .. n : GaussStep(n, x, q) \in T
  BY GaussStepType
<1>4. a \in T
  OBVIOUS
<1> HIDE DEF a, D, T
<1>5. step \in [1 .. n -> [T -> T]]
  BY <1>3
<1>6. \A q \in 1 .. n : \A x \in T : step[q][x] = GaussStep(n, x, q)
  OBVIOUS
<1> HIDE DEF step
<1>7. PICK g : IsCourse(g, n, T, a, step)
  BY <1>4, <1>5, LoopExists
<1>8. /\ g \in [0 .. n -> T] /\ g[0] = a
      /\ \A q \in 1 .. n : g[q] = step[q][g[q - 1]]
  BY <1>7 DEF IsCourse
<1>9. D(g)
  <2>1. \A q \in 0 .. n : g[q] = IF q = 0 THEN a ELSE GaussStep(n, g[q - 1], q)
    <3> TAKE q \in 0 .. n
    <3>1. q # 0 => q \in 1 .. n /\ g[q - 1] \in T
      BY <1>8
    <3> QED BY <1>6, <1>8, <3>1
  <2>2. g = [q \in 0 .. n |-> g[q]]
    BY <1>8
  <2> QED BY <1>2, <2>1, <2>2
<1>10. D(CHOOSE p : D(p))
  BY <1>9
<1> DEFINE p == CHOOSE q : D(q)
<1>11. \A q \in 0 .. n : p[q] = IF q = 0 THEN a ELSE GaussStep(n, p[q - 1], q)
  <2>1. D(p)
    BY <1>10
  <2> HIDE DEF p
  <2>2. p = [q \in 0 .. n |-> IF q = 0 THEN a ELSE GaussStep(n, p[q - 1], q)]
    BY <1>2, <2>1
  <2> QED BY <2>2
<1> HIDE DEF p
<1> DEFINE Good == {k \in Nat : k <= n => IsSoFar(n, a, p[k], k)}
<1>12. 0 \in Good
  <2>1. p[0] = a /\ a \in Wide(n)
    BY <1>11 DEF a
  <2>2. a # << >>
    BY <2>1, WideNotEmpty
  <2>3. IsReduced(n, a, 0)
    BY <2>1 DEF IsReduced, UnitColumns
  <2> QED BY <2>1, <2>2, <2>3 DEF IsSoFar
<1>13. ASSUME NEW k \in Nat, k \in Good PROVE k + 1 \in Good
  <2> SUFFICES ASSUME k + 1 <= n PROVE IsSoFar(n, a, p[k + 1], k + 1)
    OBVIOUS
  <2>1. k \in 0 .. n - 1 /\ k + 1 \in 0 .. n /\ (k + 1) - 1 = k /\ k + 1 # 0
    OBVIOUS
  <2>2. IsSoFar(n, a, p[k], k)
    BY <1>13, <2>1
  <2>3. p[k + 1] = GaussStep(n, p[k], k + 1)
    BY <1>11, <2>1
  <2> QED BY <2>1, <2>2, <2>3, SoFarStep
<1>14. n \in Good
  <2> HIDE DEF Good
  <2> QED BY <1>12, <1>13, SetInduction
<1> QED BY <1>1, <1>14 DEF p, a

\* f_0 + sum f_i x_i
Affine(n, f, x) == Plus(f[0], Total([i \in 1 .. n - 1 |-> Times(f[i], x[i])]))

IsPoint(n, f, y, x) ==
    /\ n \in Nat \ {0} /\ f \in [0 .. n - 1 -> Scalars] /\ y \in [0 .. n - 1 -> Scalars]
    /\ y[0] = One /\ \A i \in 1 .. n - 1 : y[i] = x[i]

\* An affine function is an inner product with the point extended by 1.
LEMMA AffineIs ==
    ASSUME NEW n, NEW f, NEW y, NEW x, IsPoint(n, f, y, x)
    PROVE  Dot(0 .. n - 1, f, y) = Affine(n, f, x) /\ Affine(n, f, x) \in Scalars
<1>0. /\ n \in Nat \ {0} /\ f \in [0 .. n - 1 -> Scalars] /\ y \in [0 .. n - 1 -> Scalars]
      /\ y[0] = One /\ \A i \in 1 .. n - 1 : y[i] = x[i]
  BY DEF IsPoint
<1> DEFINE D == 0 .. n - 1
           s == 1 .. n - 1
           v == [i \in D |-> Times(f[i], y[i])]
<1>1. IsFiniteSet(D) /\ s \in SUBSET D /\ D \ s = {0} /\ 0 \in D /\ {0} \in SUBSET D
  BY <1>0, FS_Interval
<1>2. v \in [D -> Scalars]
  <2> HIDE DEF D
  <2> QED BY <1>0, Closure DEF D
<1>3. Dot(D, f, y) = Total(v)
  BY DEF Dot
<1>4. [i \in s |-> v[i]] = [i \in 1 .. n - 1 |-> Times(f[i], x[i])]
  BY <1>0, <1>1
<1>5. v[0] = Times(f[0], One) /\ f[0] \in Scalars
  BY <1>0, <1>1
<1>6. Times(f[0], One) = f[0]
  BY <1>5, TimesLaws
<1> HIDE DEF v, D, s
<1>7. Total(v) = Plus(Part(v, s), Part(v, {0}))
  BY <1>1, <1>2, AllCut
<1>8. Part(v, {0}) = v[0]
  <2> DEFINE e == [k \in {0} |-> v[k]]
  <2>1. v[0] \in Scalars
    BY <1>1, <1>2
  <2>2. IsFiniteSet({0}) /\ e \in [{0} -> Scalars] /\ 0 \in {0} /\ \A k \in {0} : k # 0 => e[k] = Zero
    BY <2>1, FS_Singleton
  <2>3. e[0] = v[0] /\ Part(v, {0}) = Total(e)
    BY DEF Part
  <2> HIDE DEF e
  <2> QED BY <2>2, <2>3, AllSingle
<1>9. Part(v, s) \in Scalars /\ Part(v, s) = Total([i \in 1 .. n - 1 |-> Times(f[i], x[i])])
  <2>1. Part(v, s) \in Scalars
    BY <1>1, <1>2, PartType
  <2>2. Part(v, s) = Total([i \in s |-> v[i]])
    BY DEF Part
  <2> QED BY <1>4, <2>1, <2>2
<1>10. Total(v) = Affine(n, f, x)
  <2>1. Plus(Part(v, s), f[0]) = Plus(f[0], Part(v, s))
    BY <1>5, <1>9, PlusLaws
  <2> QED BY <1>5, <1>6, <1>7, <1>8, <1>9, <2>1 DEF Affine
<1>11. Affine(n, f, x) \in Scalars
  BY <1>5, <1>9, Closure DEF Affine
<1> QED BY <1>3, <1>10, <1>11 DEF D

\* Coefficients on the left, gaps on the right.
Joint(n, f, h) == [j \in Width(n) |-> IF j <= n THEN f[j - 1] ELSE h[j - n]]
LeftPart(n, x, f) == Total([i \in 0 .. n - 1 |-> Times(x[i + 1], f[i])])
RightPart(n, x, h) == Total([s \in 1 .. n |-> Times(x[n + s], h[s])])
IsJoint(n, x, f, h) ==
    /\ n \in Nat \ {0} /\ x \in [Width(n) -> Scalars]
    /\ f \in [0 .. n - 1 -> Scalars] /\ h \in [1 .. n -> Scalars]

\* A row applied to coefficients and gaps is the sum of its two parts.
LEMMA JointDot ==
    ASSUME NEW n, NEW x, NEW f, NEW h, IsJoint(n, x, f, h)
    PROVE  /\ Joint(n, f, h) \in Vector(n)
           /\ Dot(Width(n), x, Joint(n, f, h)) = Plus(LeftPart(n, x, f), RightPart(n, x, h))
           /\ LeftPart(n, x, f) \in Scalars /\ RightPart(n, x, h) \in Scalars
<1>0. /\ n \in Nat \ {0} /\ x \in [Width(n) -> Scalars]
      /\ f \in [0 .. n - 1 -> Scalars] /\ h \in [1 .. n -> Scalars]
  BY DEF IsJoint
<1> DEFINE D == Width(n)
           L == 1 .. n
           R == n + 1 .. 2 * n
           I == 0 .. n - 1
           u == Joint(n, f, h)
           v == [j \in D |-> Times(x[j], u[j])]
           vL == [j \in L |-> v[j]]
           vR == [j \in R |-> v[j]]
           wL == [i \in I |-> Times(x[i + 1], f[i])]
           wR == [s \in L |-> Times(x[n + s], h[s])]
           pL == [i \in I |-> i + 1]
           pR == [s \in L |-> n + s]
<1>1. /\ IsFiniteSet(D) /\ IsFiniteSet(L) /\ IsFiniteSet(R) /\ IsFiniteSet(I)
      /\ L \in SUBSET D /\ R = D \ L /\ R \in SUBSET D
  <2>1. IsFiniteSet(D) /\ IsFiniteSet(L) /\ IsFiniteSet(R) /\ IsFiniteSet(I)
    BY <1>0, FS_Interval DEF Width
  <2>2. L \in SUBSET D /\ R = D \ L /\ R \in SUBSET D
    BY <1>0 DEF Width
  <2> QED BY <2>1, <2>2
<1>2. \A j \in D : /\ j \in L => u[j] = f[j - 1] /\ j - 1 \in I
                   /\ j \in R => u[j] = h[j - n] /\ j - n \in L
  BY <1>0 DEF Joint, Width
<1>3. u \in [D -> Scalars]
  <2>1. u = [j \in D |-> u[j]]
    BY DEF Joint
  <2>2. \A j \in D : u[j] \in Scalars
    <3> HIDE DEF u, D, L, R, I
    <3> QED BY <1>0, <1>1, <1>2 DEF L, I
  <2> HIDE DEF u, D
  <2> QED BY <2>1, <2>2
<1>4. v \in [D -> Scalars] /\ \A j \in D : v[j] = Times(x[j], u[j])
  <2> HIDE DEF u, D
  <2> QED BY <1>0, <1>3, Closure DEF D
<1>5. Dot(D, x, u) = Total(v)
  BY DEF Dot
<1>6. vL \in [L -> Scalars] /\ vR \in [R -> Scalars] /\ Part(v, L) = Total(vL) /\ Part(v, R) = Total(vR)
  <2> HIDE DEF v, D, L, R
  <2> QED BY <1>1, <1>4, PartType DEF Part
<1>7. \A i \in I : i + 1 \in L /\ i + 1 \in D /\ (i + 1) - 1 = i
  BY <1>0, <1>1
<1>8. \A s \in L : n + s \in R /\ n + s \in D /\ (n + s) - n = s
  BY <1>0, <1>1
<1>9. \A i \in I : wL[i] = vL[i + 1]
  <2> TAKE i \in I
  <2>1. vL[i + 1] = Times(x[i + 1], u[i + 1]) /\ u[i + 1] = f[i]
    <3> HIDE DEF u, D, L, R, I
    <3> QED BY <1>2, <1>4, <1>7
  <2> QED BY <2>1
<1>10. \A s \in L : wR[s] = vR[n + s]
  <2> TAKE s \in L
  <2>1. vR[n + s] = Times(x[n + s], u[n + s]) /\ u[n + s] = h[s]
    <3> HIDE DEF u, D, L, R, I
    <3> QED BY <1>2, <1>4, <1>8
  <2> QED BY <2>1
<1>11. IsRenamed(wL, I, vL, L, pL)
  <2>1. pL \in [I -> L] /\ (\A i, j \in I : pL[i] = pL[j] => i = j)
        /\ (\A k \in L : \E i \in I : pL[i] = k) /\ \A i \in I : pL[i] = i + 1
    <3>1. \A k \in L : k - 1 \in I /\ pL[k - 1] = k
      BY <1>0
    <3> QED BY <1>0, <1>7, <3>1
  <2>2. wL \in [I -> Scalars]
    <3>1. \A i \in I : wL[i] \in Scalars
      <4> HIDE DEF wL, vL
      <4> QED BY <1>6, <1>7, <1>9
    <3> QED BY <3>1
  <2> HIDE DEF wL, vL, pL, I, L
  <2> QED BY <1>6, <1>9, <2>1, <2>2 DEF IsRenamed
<1>12. IsRenamed(wR, L, vR, R, pR)
  <2>1. pR \in [L -> R] /\ (\A i, j \in L : pR[i] = pR[j] => i = j)
        /\ (\A k \in R : \E i \in L : pR[i] = k) /\ \A i \in L : pR[i] = n + i
    <3>1. \A k \in R : k - n \in L /\ pR[k - n] = k
      BY <1>0
    <3> QED BY <1>0, <1>8, <3>1
  <2>2. wR \in [L -> Scalars]
    <3>1. \A i \in L : wR[i] \in Scalars
      <4> HIDE DEF wR, vR
      <4> QED BY <1>6, <1>8, <1>10
    <3> QED BY <3>1
  <2> HIDE DEF wR, vR, pR, R, L
  <2> QED BY <1>6, <1>10, <2>1, <2>2 DEF IsRenamed
<1>13. LeftPart(n, x, f) = Total(wL) /\ RightPart(n, x, h) = Total(wR)
  BY DEF LeftPart, RightPart
<1> HIDE DEF u, v, vL, vR, wL, wR, pL, pR, D, L, R, I
<1>14. Total(wL) = Total(vL) /\ Total(wR) = Total(vR)
  BY <1>1, <1>11, <1>12, AllRenamed
<1>15. Total(vL) \in Scalars /\ Total(vR) \in Scalars
  BY <1>1, <1>6, TotalType
<1>16. Total(v) = Plus(Part(v, L), Part(v, R))
  BY <1>1, <1>4, AllCut
<1>17. u \in Vector(n)
  BY <1>3 DEF Vector, D
<1> QED BY <1>5, <1>6, <1>13, <1>14, <1>15, <1>16, <1>17 DEF u, D

IsSamples(n, xs) == n \in Nat \ {0} /\ xs \in [1 .. n -> [1 .. n - 1 -> Scalars]]

\* The entries of the matrix that the elimination starts from.
LEMMA AugmentedIs ==
    ASSUME NEW n, NEW xs, IsSamples(n, xs)
    PROVE  /\ Augmented(n, xs) \in Wide(n)
           /\ \A r \in 1 .. n : \A j \in Width(n) :
                 Augmented(n, xs)[r][j] = IF j > n THEN IF j - n = r THEN One ELSE Zero
                                          ELSE IF j = 1 THEN One ELSE xs[r][j - 1]
<1> DEFINE D == Width(n)
           L == 1 .. n
           a == Augmented(n, xs)
           b(r, j) == IF j > n THEN IF j - n = r THEN One ELSE Zero
                      ELSE IF j = 1 THEN One ELSE xs[r][j - 1]
<1>0. n \in Nat \ {0} /\ xs \in [L -> [1 .. n - 1 -> Scalars]]
  BY DEF IsSamples
<1>1. a = [r \in L |-> [j \in D |-> b(r, j)]]
  BY DEF Augmented, Width
<1>2. \A r \in L : \A j \in D : b(r, j) \in Scalars
  <2> TAKE r \in L
  <2> TAKE j \in D
  <2>1. Zero \in Scalars /\ One \in Scalars
    BY Closure
  <2>2. xs[r] \in [1 .. n - 1 -> Scalars]
    BY <1>0
  <2>3. CASE j > n \/ j = 1
    BY <2>1, <2>3
  <2>4. CASE ~ (j > n) /\ j # 1
    <3>1. j - 1 \in 1 .. n - 1
      BY <1>0, <2>4 DEF Width
    <3> QED BY <2>2, <2>4, <3>1
  <2> QED BY <2>3, <2>4
<1> HIDE DEF a, b, D, L
<1>3. a \in [L -> [D -> Scalars]]
  BY <1>1, <1>2
<1>4. \A r \in L : \A j \in D : a[r][j] = b(r, j)
  BY <1>1
<1> QED BY <1>3, <1>4 DEF a, b, D, L, Wide

\* A row of that matrix: the affine function at the sample, and its gap.
LEMMA AugmentedRow ==
    ASSUME NEW n, NEW xs, IsSamples(n, xs), NEW r \in 1 .. n,
           NEW f \in [0 .. n - 1 -> Scalars], NEW h \in [1 .. n -> Scalars]
    PROVE  /\ Joint(n, f, h) \in Vector(n)
           /\ Dot(Width(n), Augmented(n, xs)[r], Joint(n, f, h)) = Plus(Affine(n, f, xs[r]), h[r])
           /\ Affine(n, f, xs[r]) \in Scalars
<1> DEFINE x == Augmented(n, xs)[r]
           I == 0 .. n - 1
           L == 1 .. n
           y == [i \in I |-> x[i + 1]]
           vL == [i \in I |-> Times(x[i + 1], f[i])]
           vR == [s \in L |-> Times(x[n + s], h[s])]
<1>0. n \in Nat \ {0} /\ xs[r] \in [1 .. n - 1 -> Scalars]
  BY DEF IsSamples
<1>1. x \in [Width(n) -> Scalars]
  BY AugmentedIs DEF Wide
<1>2. \A j \in Width(n) : x[j] = IF j > n THEN IF j - n = r THEN One ELSE Zero
                                 ELSE IF j = 1 THEN One ELSE xs[r][j - 1]
  BY AugmentedIs
<1>3. \A i \in I : i + 1 \in Width(n) /\ ~ (i + 1 > n) /\ (i + 1) - 1 = i /\ (i + 1 = 1 <=> i = 0)
  BY <1>0 DEF Width
<1>4. \A s \in L : n + s \in Width(n) /\ n + s > n /\ (n + s) - n = s
  BY <1>0 DEF Width
<1>5. IsFiniteSet(I) /\ IsFiniteSet(L) /\ 0 \in I /\ 1 .. n - 1 \subseteq I /\ r \in L
  <2>1. 0 \in Int /\ 1 \in Int /\ n \in Int /\ n - 1 \in Int
    BY <1>0
  <2>2. IsFiniteSet(I) /\ IsFiniteSet(L)
    BY <2>1, FS_Interval
  <2>3. 0 \in I /\ 1 .. n - 1 \subseteq I /\ r \in L
    BY <1>0
  <2> QED BY <2>2, <2>3
<1> HIDE DEF x
<1>6. /\ Joint(n, f, h) \in Vector(n)
      /\ Dot(Width(n), x, Joint(n, f, h)) = Plus(LeftPart(n, x, f), RightPart(n, x, h))
  <2>1. IsJoint(n, x, f, h)
    BY <1>0, <1>1 DEF IsJoint
  <2> QED BY <2>1, JointDot
<1>7. LeftPart(n, x, f) = Affine(n, f, xs[r]) /\ Affine(n, f, xs[r]) \in Scalars
  <2>1. y \in [I -> Scalars] /\ \A i \in I : y[i] = x[i + 1]
    <3> HIDE DEF I
    <3> QED BY <1>1, <1>3
  <2>2. y[0] = One /\ \A i \in 1 .. n - 1 : y[i] = xs[r][i]
    <3>1. \A i \in I : y[i] = IF i = 0 THEN One ELSE xs[r][i]
      <4> HIDE DEF y, I
      <4> QED BY <1>2, <1>3, <2>1
    <3> HIDE DEF y
    <3> QED BY <1>5, <3>1
  <2>3. LeftPart(n, x, f) = Dot(I, y, f)
    <3>1. vL = [i \in I |-> Times(y[i], f[i])]
      OBVIOUS
    <3> QED BY <3>1 DEF LeftPart, Dot
  <2>4. f \in [I -> Scalars]
    OBVIOUS
  <2> HIDE DEF y
  <2>5. Dot(I, y, f) = Dot(I, f, y)
    <3> HIDE DEF I
    <3> QED BY <2>1, <2>4, DotFlip
  <2>6. IsPoint(n, f, y, xs[r])
    BY <1>0, <2>1, <2>2, <2>4 DEF IsPoint
  <2> QED BY <2>3, <2>5, <2>6, AffineIs
<1>8. RightPart(n, x, h) = h[r]
  <2>1. \A s \in L : vR[s] = Times(IF s = r THEN One ELSE Zero, h[s])
    BY <1>2, <1>4
  <2>2. \A s \in L : vR[s] = IF s = r THEN h[s] ELSE Zero
    <3> TAKE s \in L
    <3>1. h[s] \in Scalars
      OBVIOUS
    <3>2. Times(One, h[s]) = h[s] /\ Times(Zero, h[s]) = Zero
      BY <3>1, ZeroLaws, TimesZero DEF \otimes
    <3> HIDE DEF vR
    <3> QED BY <2>1, <3>2
  <2>3. vR \in [L -> Scalars]
    <3>1. \A s \in L : vR[s] \in Scalars
      <4> HIDE DEF vR
      <4> QED BY <2>2, Closure
    <3> QED BY <3>1
  <2>4. RightPart(n, x, h) = Total(vR)
    BY DEF RightPart
  <2> HIDE DEF vR, L
  <2>5. Total(vR) = vR[r]
    <3>1. \A s \in L : s # r => vR[s] = Zero
      BY <2>2
    <3> QED BY <1>5, <2>3, <3>1, AllSingle
  <2> QED BY <1>5, <2>2, <2>4, <2>5
<1> QED BY <1>6, <1>7, <1>8 DEF x

\* A row of the reduced matrix: one coefficient, and a combination of the gaps.
LEMMA ReducedRow ==
    ASSUME NEW n, NEW m, IsReduced(n, m, n), NEW r \in 1 .. n,
           NEW f \in [0 .. n - 1 -> Scalars], NEW h \in [1 .. n -> Scalars]
    PROVE  /\ Dot(Width(n), m[r], Joint(n, f, h)) = Plus(f[r - 1], RightPart(n, m[r], h))
           /\ RightPart(n, m[r], h) \in Scalars
<1> DEFINE x == m[r]
           I == 0 .. n - 1
           vL == [i \in I |-> Times(x[i + 1], f[i])]
           k == r - 1
<1>0. n \in Nat \ {0} /\ m \in Wide(n) /\ UnitColumns(n, m, n)
  BY DEF IsReduced
<1>1. x \in [Width(n) -> Scalars]
  BY <1>0 DEF Wide
<1>2. \A i \in I : x[i + 1] = IF i = k THEN One ELSE Zero
  <2> TAKE i \in I
  <2>1. i + 1 \in 1 .. n /\ (r = i + 1 <=> i = k)
    BY <1>0
  <2> QED BY <1>0, <2>1 DEF UnitColumns
<1>3. IsFiniteSet(I) /\ k \in I
  BY <1>0, FS_Interval
<1> HIDE DEF x, k
<1>4. /\ Dot(Width(n), x, Joint(n, f, h)) = Plus(LeftPart(n, x, f), RightPart(n, x, h))
      /\ RightPart(n, x, h) \in Scalars
  <2>1. IsJoint(n, x, f, h)
    BY <1>0, <1>1 DEF IsJoint
  <2> QED BY <2>1, JointDot
<1>5. \A i \in I : vL[i] = IF i = k THEN f[i] ELSE Zero
  <2> TAKE i \in I
  <2>1. f[i] \in Scalars
    OBVIOUS
  <2>2. Times(One, f[i]) = f[i] /\ Times(Zero, f[i]) = Zero
    BY <2>1, ZeroLaws, TimesZero DEF \otimes
  <2> QED BY <1>2, <2>2
<1>6. vL \in [I -> Scalars]
  <2>1. \A i \in I : vL[i] \in Scalars
    <3> HIDE DEF vL
    <3> QED BY <1>5, Closure
  <2> QED BY <2>1
<1>7. LeftPart(n, x, f) = Total(vL)
  BY DEF LeftPart
<1> HIDE DEF vL, I
<1>8. Total(vL) = vL[k]
  <2>1. \A i \in I : i # k => vL[i] = Zero
    BY <1>5
  <2> QED BY <1>3, <1>6, <2>1, AllSingle
<1>9. vL[k] = f[k]
  BY <1>3, <1>5
<1> QED BY <1>4, <1>7, <1>8, <1>9 DEF x, k

Solved(n, inv, g) == [i \in 0 .. n - 1 |-> RightPart(n, inv[i + 1], g)]
Agrees(n, f, xs, g) == \A r \in 1 .. n : g[r] = Affine(n, f, xs[r])

\* The part for the gaps is linear.
LEMMA RightMinus ==
    ASSUME NEW n, NEW x, NEW g \in [1 .. n -> Scalars], NEW f, NEW h \in [1 .. n -> Scalars],
           IsJoint(n, x, f, g), \A s \in 1 .. n : h[s] = Minus(g[s])
    PROVE  RightPart(n, x, h) = Minus(RightPart(n, x, g))
<1> DEFINE L == 1 .. n
           y == [s \in L |-> x[n + s]]
           vg == [s \in L |-> Times(x[n + s], g[s])]
           vh == [s \in L |-> Times(x[n + s], h[s])]
           e == Minus(One)
<1>0. n \in Nat \ {0} /\ x \in [Width(n) -> Scalars]
  BY DEF IsJoint
<1>1. IsFiniteSet(L)
  BY <1>0, FS_Interval
<1>2. \A s \in L : x[n + s] \in Scalars /\ g[s] \in Scalars /\ h[s] \in Scalars
  <2>1. \A s \in L : n + s \in Width(n)
    BY <1>0 DEF Width
  <2> QED BY <1>0, <2>1
<1>3. vg \in [L -> Scalars] /\ vh \in [L -> Scalars]
  <2> HIDE DEF L
  <2> QED BY <1>2, Closure
<1>4. \A s \in L : vh[s] = Times(vg[s], e)
  <2> TAKE s \in L
  <2> DEFINE a == x[n + s]
             b == g[s]
  <2>1. a \in Scalars /\ b \in Scalars /\ h[s] = Minus(b)
    BY <1>2
  <2>2. vh[s] = Times(a, Minus(b)) /\ vg[s] = Times(a, b)
    BY <2>1
  <2> HIDE DEF a, b, vh, vg
  <2> DEFINE p == Times(a, b)
  <2>3. p \in Scalars /\ One \in Scalars
    BY <2>1, Closure
  <2>4. Times(a, Minus(b)) = Minus(p)
    BY <2>1, MinusTimes
  <2> HIDE DEF p
  <2>5. Times(p, Minus(One)) = Minus(Times(p, One)) /\ Times(p, One) = p
    BY <2>3, MinusTimes, TimesLaws
  <2> QED BY <2>2, <2>4, <2>5 DEF p
<1>5. RightPart(n, x, g) = Total(vg) /\ RightPart(n, x, h) = Total(vh)
  BY DEF RightPart
<1>6. e \in Scalars /\ One \in Scalars
  BY Closure
<1> HIDE DEF vg, vh, L, e
<1>7. Total(vh) = Times(Total(vg), e) /\ Total(vg) \in Scalars
  BY <1>1, <1>3, <1>4, <1>6, AllScale, TotalType
<1> DEFINE T == Total(vg)
<1> HIDE DEF T
<1>8. Times(T, Minus(One)) = Minus(Times(T, One)) /\ Times(T, One) = T
  BY <1>6, <1>7, MinusTimes, TimesLaws DEF T
<1> QED BY <1>5, <1>7, <1>8 DEF T, e

\* When the rows invert, the coefficients of an affine function come back from its values.
LEMMA GaussSolves ==
    ASSUME NEW n, NEW xs, IsSamples(n, xs), NEW g \in [1 .. n -> Scalars],
           NEW inv, inv = InvertMatrix(n, xs), inv # << >>
    PROVE  /\ Solved(n, inv, g) \in [0 .. n - 1 -> Scalars]
           /\ \A f \in [0 .. n - 1 -> Scalars] : Agrees(n, f, xs, g) => f = Solved(n, inv, g)
<1> DEFINE a == Augmented(n, xs)
           I == 0 .. n - 1
           q == Solved(n, inv, g)
<1>0. n \in Nat \ {0} /\ a \in Wide(n)
  BY AugmentedIs DEF IsSamples
<1>1. IsReduced(n, inv, n) /\ \A u \in Vector(n) : Annihilates(n, inv, u) <=> Annihilates(n, a, u)
  <2>1. IsSoFar(n, a, inv, n)
    BY <1>0, InvertMatrixIs
  <2> QED BY <2>1 DEF IsSoFar
<1> DEFINE zero == [i \in I |-> Zero]
<1>2. zero \in [0 .. n - 1 -> Scalars]
  BY Closure
<1>3. \A i \in I : i + 1 \in 1 .. n /\ (i + 1) - 1 = i
  BY <1>0
<1> HIDE DEF zero
<1>4. \A i \in I : RightPart(n, inv[i + 1], g) \in Scalars
  BY <1>1, <1>2, <1>3, ReducedRow
<1>5. q \in [I -> Scalars] /\ \A i \in I : q[i] = RightPart(n, inv[i + 1], g)
  <2> HIDE DEF I
  <2> QED BY <1>4 DEF Solved, I
<1>6. ASSUME NEW f \in [0 .. n - 1 -> Scalars], Agrees(n, f, xs, g)
      PROVE  f = q
  <2> DEFINE h == [s \in 1 .. n |-> Minus(g[s])]
  <2>1. h \in [1 .. n -> Scalars] /\ \A s \in 1 .. n : h[s] = Minus(g[s])
    BY Closure
  <2> HIDE DEF h
  <2>2. \A r \in 1 .. n : /\ Joint(n, f, h) \in Vector(n)
                          /\ Dot(Width(n), a[r], Joint(n, f, h)) = Plus(Affine(n, f, xs[r]), h[r])
    BY <2>1, AugmentedRow
  <2>3. \A r \in 1 .. n : Dot(Width(n), a[r], Joint(n, f, h)) = Zero
    <3> TAKE r \in 1 .. n
    <3>1. Dot(Width(n), a[r], Joint(n, f, h)) = Plus(g[r], Minus(g[r])) /\ g[r] \in Scalars
      BY <1>6, <2>1, <2>2 DEF Agrees
    <3> QED BY <3>1, PlusZero
  <2>4. Joint(n, f, h) \in Vector(n) /\ Annihilates(n, a, Joint(n, f, h))
    <3>1. 1 \in 1 .. n
      BY <1>0
    <3> QED BY <2>2, <2>3, <3>1 DEF Annihilates
  <2>5. Annihilates(n, inv, Joint(n, f, h))
    BY <1>1, <2>4
  <2>6. \A i \in I : f[i] = q[i]
    <3> TAKE i \in I
    <3> DEFINE r == i + 1
               x == inv[r]
               b == RightPart(n, x, g)
    <3>1. r \in 1 .. n /\ r - 1 = i
      BY <1>3
    <3> HIDE DEF r
    <3>2. Dot(Width(n), x, Joint(n, f, h)) = Plus(f[i], RightPart(n, x, h))
      BY <1>1, <2>1, <3>1, ReducedRow
    <3>3. Dot(Width(n), x, Joint(n, f, h)) = Zero
      BY <2>5, <3>1 DEF Annihilates
    <3>4. IsJoint(n, x, f, g)
      BY <1>0, <1>1, <3>1 DEF IsJoint, IsReduced, Wide
    <3> HIDE DEF x
    <3>5. RightPart(n, x, h) = Minus(RightPart(n, x, g))
      BY <2>1, <3>4, RightMinus
    <3>6. b \in Scalars /\ f[i] \in Scalars /\ q[i] = b
      BY <1>4, <1>5 DEF x, r
    <3>7. Zero = Plus(f[i], Minus(b))
      BY <3>2, <3>3, <3>5
    <3> DEFINE y == f[i]
    <3> HIDE DEF b, y
    <3>8. y = b
      <4>1. y \in Scalars /\ Plus(y, Minus(b)) = Zero
        BY <3>6, <3>7 DEF y
      <4>2. y = Plus(b, Zero)
        BY <3>6, <4>1, Transpose, Closure
      <4> QED BY <3>6, <4>2, PlusZero
    <3> QED BY <3>6, <3>8 DEF y
  <2>7. f \in [I -> Scalars]
    BY <1>6
  <2> HIDE DEF q, I
  <2>8. f = [i \in I |-> f[i]] /\ q = [i \in I |-> q[i]]
    BY <1>5, <2>7
  <2> QED BY <2>6, <2>8
<1> QED BY <1>5, <1>6

\* When they do not, some affine function vanishes on all samples.
LEMMA GaussPanics ==
    ASSUME NEW n, NEW xs, IsSamples(n, xs), InvertMatrix(n, xs) = << >>
    PROVE  \E f \in [0 .. n - 1 -> Scalars] :
              /\ \E i \in 0 .. n - 1 : f[i] # Zero
              /\ \A s \in 1 .. n : Affine(n, f, xs[s]) = Zero
<1> DEFINE a == Augmented(n, xs)
<1>0. n \in Nat \ {0} /\ a \in Wide(n)
  BY AugmentedIs DEF IsSamples
<1>1. PICK u : IsKernel(n, a, u)
  <2>1. IsSoFar(n, a, InvertMatrix(n, xs), n)
    BY <1>0, InvertMatrixIs
  <2> QED BY <2>1 DEF IsSoFar
<1>2. /\ u \in Vector(n) /\ Annihilates(n, a, u)
      /\ \E j \in 1 .. n : u[j] # Zero
      /\ \A j \in n + 1 .. 2 * n : u[j] = Zero
  BY <1>1 DEF IsKernel
<1> DEFINE I == 0 .. n - 1
           f == [i \in I |-> u[i + 1]]
           h == [s \in 1 .. n |-> Zero]
<1>3. f \in [I -> Scalars]
  <2>1. \A i \in I : i + 1 \in Width(n)
    BY <1>0 DEF Width
  <2> QED BY <1>2, <2>1 DEF Vector
<1>4. h \in [1 .. n -> Scalars] /\ \A s \in 1 .. n : h[s] = Zero
  BY Closure
<1>5. u = Joint(n, f, h)
  <2>1. \A j \in Width(n) : u[j] = IF j <= n THEN f[j - 1] ELSE h[j - n]
    <3> TAKE j \in Width(n)
    <3>1. CASE j <= n
      <4>1. j - 1 \in I /\ (j - 1) + 1 = j
        BY <1>0, <3>1 DEF Width
      <4> QED BY <3>1, <4>1
    <3>2. CASE ~ (j <= n)
      <4>1. j \in n + 1 .. 2 * n /\ j - n \in 1 .. n
        BY <1>0, <3>2 DEF Width
      <4> QED BY <1>2, <3>2, <4>1
    <3> QED BY <3>1, <3>2
  <2>2. u = [j \in Width(n) |-> u[j]]
    BY <1>2 DEF Vector
  <2> HIDE DEF f, h
  <2> QED BY <2>1, <2>2 DEF Joint
<1>6. \E i \in I : f[i] # Zero
  <2>1. PICK j \in 1 .. n : u[j] # Zero
    BY <1>2
  <2>2. j - 1 \in I /\ f[j - 1] = u[j]
    BY <1>0, <2>1
  <2> QED BY <2>1, <2>2
<1> HIDE DEF f, h
<1>7. \A s \in 1 .. n : Affine(n, f, xs[s]) = Zero
  <2> TAKE s \in 1 .. n
  <2>1. Dot(Width(n), a[s], Joint(n, f, h)) = Plus(Affine(n, f, xs[s]), h[s])
        /\ Affine(n, f, xs[s]) \in Scalars
    BY <1>3, <1>4, AugmentedRow
  <2>2. Dot(Width(n), a[s], u) = Zero
    BY <1>2 DEF Annihilates
  <2>3. Plus(Affine(n, f, xs[s]), Zero) = Affine(n, f, xs[s])
    BY <2>1, PlusZero
  <2> QED BY <1>4, <1>5, <2>1, <2>2, <2>3
<1> QED BY <1>3, <1>6, <1>7

\* The statements of the samples: as many as there are inputs, each one a point.
LEMMA SamplesAre ==
    ASSUME NEW c \in Circuits, NEW xs \in SampleLists(c)
    PROVE  IsSamples(c.inputs, xs) /\ Len(xs) = c.inputs /\ xs \in Seq([Public(c) -> Scalars])
<1> DEFINE n == c.inputs
           V == [1 .. n - 1 -> Scalars]
<1>0. n \in Nat \ {0} /\ Public(c) = 1 .. n - 1
  BY CircuitKit DEF Public
<1>1. CASE xs = CanonicalSamples(c)
  <2>1. \A s \in 1 .. n : [i \in Public(c) |-> IF i = s - 1 THEN One ELSE Zero] \in V
    BY <1>0, Closure
  <2>2. xs = [s \in 1 .. n |-> [i \in Public(c) |-> IF i = s - 1 THEN One ELSE Zero]]
    BY <1>1 DEF CanonicalSamples
  <2> HIDE DEF V
  <2>3. xs \in [1 .. n -> V]
    BY <2>1, <2>2
  <2>4. xs \in Seq(V) /\ Len(xs) = n
    <3> HIDE DEF n
    <3> QED BY <1>0, <2>3
  <2> QED BY <1>0, <2>3, <2>4 DEF IsSamples, V
<1>2. CASE xs # CanonicalSamples(c)
  <2>1. /\ xs \in CustomSamples /\ Len(xs) = n
        /\ \A s \in 1 .. Len(xs) : Len(xs[s]) = n - 1
    BY <1>2 DEF SampleLists
  <2>2. xs \in Seq(Seq(Scalars))
    BY <2>1, InputsAssumption
  <2>3. \A s \in 1 .. n : xs[s] \in V
    <3> TAKE s \in 1 .. n
    <3>1. xs[s] \in Seq(Scalars) /\ Len(xs[s]) = n - 1
      BY <2>1, <2>2
    <3> QED BY <3>1
  <2> HIDE DEF V
  <2>4. xs \in [1 .. n -> V]
    <3>1. DOMAIN xs = 1 .. n
      BY <2>1, <2>2
    <3>2. xs = [s \in 1 .. n |-> xs[s]]
      BY <2>2, <3>1
    <3> QED BY <2>3, <3>2
  <2>5. xs \in Seq(V)
    <3> HIDE DEF n
    <3> QED BY <1>0, <2>4
  <2> QED BY <1>0, <2>1, <2>4, <2>5 DEF IsSamples, V
<1> QED BY <1>1, <1>2

\* An affine function at the statements of the fast path.
LEMMA AffineAt ==
    ASSUME NEW n \in Nat \ {0}, NEW f \in [0 .. n - 1 -> Scalars], NEW k \in 0 .. n - 1,
           NEW x, \A i \in 1 .. n - 1 : x[i] = IF i = k THEN One ELSE Zero
    PROVE  Affine(n, f, x) = IF k = 0 THEN f[0] ELSE Plus(f[0], f[k])
<1> DEFINE D == 1 .. n - 1
           v == [i \in D |-> Times(f[i], x[i])]
<1>1. IsFiniteSet(D) /\ \A i \in D : f[i] \in Scalars
  <2>1. 1 \in Int /\ n - 1 \in Int
    OBVIOUS
  <2>2. \A i \in D : i \in 0 .. n - 1
    OBVIOUS
  <2> QED BY <2>1, <2>2, FS_Interval
<1>2. \A i \in D : v[i] = IF i = k THEN f[i] ELSE Zero
  <2> TAKE i \in D
  <2>1. Times(f[i], One) = f[i] /\ Times(f[i], Zero) = Zero
    BY <1>1, TimesLaws, TimesZero
  <2> QED BY <2>1
<1>3. v \in [D -> Scalars]
  <2>1. \A i \in D : v[i] \in Scalars
    <3> HIDE DEF v, D
    <3> QED BY <1>1, <1>2, Closure
  <2> QED BY <2>1
<1>4. Affine(n, f, x) = Plus(f[0], Total(v))
  BY DEF Affine
<1>5. f[0] \in Scalars /\ Plus(f[0], Zero) = f[0]
  <2>1. f[0] \in Scalars
    OBVIOUS
  <2> QED BY <2>1, PlusZero
<1> HIDE DEF v
<1>6. CASE k = 0
  <2>1. \A i \in D : v[i] = Zero
    BY <1>2, <1>6
  <2> HIDE DEF D
  <2> QED BY <1>1, <1>3, <1>4, <1>5, <1>6, <2>1, AllZero
<1>7. CASE k # 0
  <2>1. k \in D
    BY <1>7
  <2>2. \A i \in D : i # k => v[i] = Zero
    BY <1>2
  <2> HIDE DEF D
  <2>3. Total(v) = v[k] /\ v[k] = f[k]
    BY <1>1, <1>2, <1>3, <2>1, <2>2, AllSingle
  <2> QED BY <1>4, <1>7, <2>3
<1> QED BY <1>6, <1>7

\* What the setup has when the samples are done.
StatementsOf(c, gs) == [s \in 1 .. c.inputs |-> gs[s].x]
GapsOf(c, gs) == [s \in 1 .. c.inputs |-> gs[s].gap]
IsGaps(c, gs) ==
    /\ c \in Circuits /\ IsSamples(c.inputs, StatementsOf(c, gs))
    /\ GapsOf(c, gs) \in [1 .. c.inputs -> Scalars]

\* At the canonical statements, SolveQ takes differences: they give the coefficients.
LEMMA FastPath ==
    ASSUME NEW c, NEW gs, IsGaps(c, gs), StatementsOf(c, gs) = CanonicalSamples(c)
    PROVE  /\ SolveQ(c, gs) # << >>
           /\ SolveQ(c, gs) \in [0 .. c.inputs - 1 -> Scalars]
           /\ \A f \in [0 .. c.inputs - 1 -> Scalars] :
                 Agrees(c.inputs, f, StatementsOf(c, gs), GapsOf(c, gs)) => SolveQ(c, gs) = f
<1> DEFINE n == c.inputs
           xs == StatementsOf(c, gs)
           g == GapsOf(c, gs)
           I == 0 .. n - 1
           q == SolveQ(c, gs)
<1>0. n \in Nat \ {0} /\ g \in [1 .. n -> Scalars]
  BY CircuitKit DEF IsGaps
<1>1. \A s \in 1 .. n : gs[s].gap = g[s]
  BY DEF GapsOf
<1>2. IsCanonical(c, [s \in 1 .. n |-> gs[s].x])
  BY DEF IsCanonical, StatementsOf
<1>3. q = [i \in 0 .. n - 1 |-> IF i = 0 THEN gs[1].gap ELSE gs[i + 1].gap \ominus gs[1].gap]
  BY <1>2 DEF SolveQ
<1>4. \A i \in I : i + 1 \in 1 .. n /\ 1 \in 1 .. n
  BY <1>0
<1>5. \A i \in I : q[i] = IF i = 0 THEN g[1] ELSE g[i + 1] \ominus g[1]
  BY <1>1, <1>3, <1>4
<1>6. q \in [I -> Scalars] /\ q = [i \in I |-> q[i]]
  <2>1. \A i \in I : q[i] \in Scalars
    <3> HIDE DEF q, I, g, n
    <3> QED BY <1>0, <1>4, <1>5, MinusType
  <2>2. q = [i \in I |-> q[i]]
    BY <1>3
  <2> HIDE DEF q, I
  <2> QED BY <2>1, <2>2
<1>7. q # << >>
  <2>1. 0 \in DOMAIN q
    BY <1>0, <1>3
  <2>2. DOMAIN << >> = {}
    OBVIOUS
  <2> HIDE DEF q
  <2> QED BY <2>1, <2>2
<1>8. ASSUME NEW f \in [0 .. n - 1 -> Scalars], Agrees(n, f, xs, g)
      PROVE  q = f
  <2>1. \A i \in I : g[i + 1] = IF i = 0 THEN f[0] ELSE Plus(f[0], f[i])
    <3> TAKE i \in I
    <3> DEFINE x == xs[i + 1]
    <3>1. i + 1 \in 1 .. n /\ (i + 1) - 1 = i /\ Public(c) = 1 .. n - 1
      BY <1>0 DEF Public
    <3>2. x = [j \in Public(c) |-> IF j = (i + 1) - 1 THEN One ELSE Zero]
      BY <3>1 DEF CanonicalSamples
    <3>3. \A j \in 1 .. n - 1 : x[j] = IF j = i THEN One ELSE Zero
      BY <3>1, <3>2
    <3>4. g[i + 1] = Affine(n, f, x)
      BY <1>8, <3>1 DEF Agrees
    <3> HIDE DEF x, n
    <3> QED BY <1>0, <3>3, <3>4, AffineAt
  <2>2. \A i \in I : f[i] \in Scalars /\ 0 \in I /\ 0 + 1 = 1
    BY <1>0
  <2>3. \A i \in I : q[i] = f[i]
    <3> TAKE i \in I
    <3>1. g[1] = f[0] /\ f[0] \in Scalars /\ f[i] \in Scalars
      BY <2>1, <2>2
    <3>2. CASE i = 0
      BY <1>5, <3>1, <3>2
    <3>3. CASE i # 0
      <4> DEFINE a == f[0]
                 b == f[i]
      <4>1. q[i] = Plus(Plus(a, b), Minus(a))
        BY <1>5, <2>1, <3>1, <3>3 DEF \ominus
      <4>2. a \in Scalars /\ b \in Scalars
        BY <3>1
      <4> HIDE DEF a, b
      <4>3. Plus(Plus(a, b), Minus(a)) = b
        <5>1. Plus(a, b) = Plus(a, b) /\ Plus(a, b) \in Scalars
          BY <4>2, Closure
        <5> QED BY <4>2, <5>1, Transpose
      <4> QED BY <4>1, <4>3 DEF b
    <3> QED BY <3>2, <3>3
  <2>4. f = [i \in I |-> f[i]]
    BY <1>8
  <2> HIDE DEF q, I
  <2> QED BY <1>6, <2>3, <2>4
<1> QED BY <1>6, <1>7, <1>8

\* Either way SolveQ returns the only affine function through the gaps, if it returns.
LEMMA SolveQIs ==
    ASSUME NEW c, NEW gs, IsGaps(c, gs)
    PROVE  /\ SolveQ(c, gs) # << >> =>
                /\ SolveQ(c, gs) \in [0 .. c.inputs - 1 -> Scalars]
                /\ \A f \in [0 .. c.inputs - 1 -> Scalars] :
                      Agrees(c.inputs, f, StatementsOf(c, gs), GapsOf(c, gs)) => SolveQ(c, gs) = f
           /\ SolveQ(c, gs) = << >> => InvertMatrix(c.inputs, StatementsOf(c, gs)) = << >>
<1> DEFINE n == c.inputs
           xs == StatementsOf(c, gs)
           g == GapsOf(c, gs)
           inv == InvertMatrix(n, xs)
<1>0. n \in Nat \ {0} /\ g \in [1 .. n -> Scalars] /\ IsSamples(n, xs)
  BY CircuitKit DEF IsGaps
<1>1. CASE xs = CanonicalSamples(c)
  BY <1>1, FastPath
<1>2. CASE xs # CanonicalSamples(c)
  <2>1. ~ IsCanonical(c, [s \in 1 .. n |-> gs[s].x]) /\ inv = InvertMatrix(n, [s \in 1 .. n |-> gs[s].x])
    BY <1>2 DEF IsCanonical, StatementsOf
  <2>2. SolveQ(c, gs) = IF inv = << >> THEN << >>
                        ELSE [i \in 0 .. n - 1 |->
                                Total([s \in 1 .. n |-> inv[i + 1][n + s] \otimes gs[s].gap])]
    BY <2>1 DEF SolveQ
  <2>3. \A s \in 1 .. n : gs[s].gap = g[s]
    BY DEF GapsOf
  <2>4. [i \in 0 .. n - 1 |-> Total([s \in 1 .. n |-> inv[i + 1][n + s] \otimes gs[s].gap])]
          = Solved(n, inv, g)
    <3> HIDE DEF inv, g
    <3> QED BY <2>3 DEF Solved, RightPart, \otimes
  <2>5. SolveQ(c, gs) = IF inv = << >> THEN << >> ELSE Solved(n, inv, g)
    BY <2>2, <2>4
  <2>6. CASE inv = << >>
    BY <2>5, <2>6
  <2>7. CASE inv # << >>
    <3>1. /\ Solved(n, inv, g) \in [0 .. n - 1 -> Scalars]
          /\ \A f \in [0 .. n - 1 -> Scalars] : Agrees(n, f, xs, g) => f = Solved(n, inv, g)
      BY <1>0, <2>7, GaussSolves
    <3>2. Solved(n, inv, g) # << >>
      <4>1. 0 \in DOMAIN Solved(n, inv, g)
        BY <1>0 DEF Solved
      <4>2. DOMAIN << >> = {}
        OBVIOUS
      <4> QED BY <4>1, <4>2
    <3>3. SolveQ(c, gs) = Solved(n, inv, g)
      BY <2>5, <2>7
    <3> HIDE DEF inv
    <3> QED BY <3>1, <3>2, <3>3
  <2> QED BY <2>6, <2>7
<1> QED BY <1>1, <1>2

--------------------------------------------------------------------------------
(***************************************************************************)
(* Reachable states: the samples, T_const, the lean prover and the panics. *)
(***************************************************************************)
GapAt(c, key, base, z) ==
    StandardProof(key, WitnessMap(c, z), z, Zero, Zero).c \ominus LeanProof(key, base, z, Zero, Zero).c
GapSet(c, key, base) ==
    {[x |-> Statement(c, z), gap |-> GapAt(c, key, base, z)] : z \in c.assignments}

\* The lean prover's proof, by its quotient.
LEMMA LeanProofIs ==
    ASSUME NEW key, NEW base, NEW z, NEW r, NEW s
    PROVE  LeanProof(key, base, z, r, s) = Proof(key, z, r, s, LeanQuotient(base, z))
BY DEF LeanProof, LeanQuotient, \otimes

\* An assignment, cut to the inputs, is its statement extended by 1.
LEMMA StatementIs ==
    ASSUME NEW c \in Circuits, NEW z \in c.assignments
    PROVE  /\ Statement(c, z) \in [1 .. c.inputs - 1 -> Scalars]
           /\ \A f \in [Inputs(c) -> Scalars] :
                 /\ Dot(Inputs(c), f, Cut(Inputs(c), z)) = Affine(c.inputs, f, Statement(c, z))
                 /\ Affine(c.inputs, f, Statement(c, z)) \in Scalars
<1> DEFINE n == c.inputs
           y == Cut(Inputs(c), z)
           x == Statement(c, z)
<1>1. n \in Nat \ {0} /\ Public(c) = 1 .. n - 1 /\ Inputs(c) = 0 .. n - 1
  BY CircuitKit DEF Public, Inputs
<1>2. z \in [Cols(c) -> Scalars] /\ z[0] = One /\ Inputs(c) \subseteq Cols(c) /\ Public(c) \subseteq Cols(c)
  <2>1. Inputs(c) \subseteq Cols(c) /\ Public(c) \subseteq Cols(c)
    BY CircuitKit DEF Cols, Inputs, Public
  <2> QED BY <2>1, AssignmentKit
<1>3. x = [i \in Public(c) |-> z[i]]
  BY DEF Statement
<1>4. x \in [1 .. n - 1 -> Scalars]
  <2>1. x \in [Public(c) -> Scalars]
    BY <1>2, <1>3
  <2> QED BY <1>1, <2>1
<1>5. y \in [0 .. n - 1 -> Scalars]
  BY <1>1, <1>2, CutType
<1>6. y[0] = One /\ \A i \in 1 .. n - 1 : y[i] = x[i]
  <2>1. \A i \in 0 .. n - 1 : y[i] = z[i]
    BY <1>1 DEF Cut
  <2>2. 0 \in 0 .. n - 1 /\ \A i \in 1 .. n - 1 : i \in 0 .. n - 1 /\ x[i] = z[i]
    BY <1>1, <1>3
  <2> HIDE DEF x, y
  <2> QED BY <1>2, <2>1, <2>2
<1> HIDE DEF x, y
<1>7. ASSUME NEW f \in [Inputs(c) -> Scalars]
      PROVE  Dot(Inputs(c), f, y) = Affine(n, f, x) /\ Affine(n, f, x) \in Scalars
  <2>1. IsPoint(n, f, y, x)
    BY <1>1, <1>5, <1>6 DEF IsPoint
  <2> QED BY <1>1, <2>1, AffineIs
<1> QED BY <1>4, <1>7 DEF x, y

\* A sample's gap is a point, and an affine function of the statement once the audit passed.
LEMMA GapAtIs ==
    ASSUME NEW c, NEW t, NEW w, KeyInputs(c, t, w), NEW z \in c.assignments,
           NEW key, key = ProvingKey(c, t, w)
    PROVE  /\ GapAt(c, key, BasesOf(c, key), z) \in Scalars
           /\ Audited(c, t, w) =>
                 GapAt(c, key, BasesOf(c, key), z)
                    = Affine(c.inputs, GapCoefficients(c, t, w), Statement(c, z))
<1> DEFINE S == StandardQuotientOf(c, t, w, z)
           L == LeanQuotientOf(c, t, w, z)
           P(q) == Proof(key, z, Zero, Zero, q).c
<1>1. S \in Scalars /\ L \in Scalars /\ Zero \in Scalars /\ c \in Circuits
  <2>1. S \in Scalars
    BY StandardQuotient DEF StandardQuotientOf
  <2>2. L \in Scalars
    BY LeanQuotientIs DEF LeanQuotientOf
  <2> QED BY <2>1, <2>2, Closure DEF KeyInputs
<1>2. GapAt(c, key, BasesOf(c, key), z) = P(S) \ominus P(L)
  <2>1. StandardProof(key, WitnessMap(c, z), z, Zero, Zero) = Proof(key, z, Zero, Zero, S)
    BY DEF StandardProof, StandardQuotientOf
  <2>2. LeanProof(key, BasesOf(c, key), z, Zero, Zero) = Proof(key, z, Zero, Zero, L)
    BY LeanProofIs DEF LeanQuotientOf
  <2> QED BY <2>1, <2>2 DEF GapAt
<1> DEFINE g == Plus(S, Minus(L))
<1> HIDE DEF S, L
<1>3. g \in Scalars
  BY <1>1, Closure
<1>4. S = Plus(L, g)
  BY <1>1, <1>3, Transpose
<1> HIDE DEF g
<1>5. P(S) \ominus P(L) = g
  BY <1>1, <1>3, <1>4, ProofsDiffer
<1>6. ASSUME Audited(c, t, w)
      PROVE  g = Affine(c.inputs, GapCoefficients(c, t, w), Statement(c, z))
  <2> DEFINE d == Dot(Inputs(c), GapCoefficients(c, t, w), Cut(Inputs(c), z))
  <2>1. d \in Scalars /\ S = Plus(L, d)
    BY <1>6, QuotientGap DEF S, L
  <2>2. d = Affine(c.inputs, GapCoefficients(c, t, w), Statement(c, z))
    BY <1>1, <1>6, GapIs, StatementIs
  <2> HIDE DEF d
  <2>3. g = d
    BY <1>1, <2>1, Transpose DEF g
  <2> QED BY <2>2, <2>3
<1> QED BY <1>2, <1>3, <1>5, <1>6

\* The two provers agree on A and B.
LEMMA ProversAgree ==
    ASSUME NEW key, NEW h, NEW base, NEW z, NEW r, NEW s
    PROVE  /\ StandardProof(key, h, z, r, s).a = LeanProof(key, base, z, r, s).a
           /\ StandardProof(key, h, z, r, s).b = LeanProof(key, base, z, r, s).b
BY DEF StandardProof, LeanProof, Proof

\* Samples taken so far: one for each of the first statements, all by the two provers.
Sampled(gs) ==
    /\ gs \in Seq(GapSet(circuit, pk, bases))
    /\ Len(gs) <= Len(samples)
    /\ \A s \in 1 .. Len(gs) : gs[s].x = samples[s]
Complete(gs) == Sampled(gs) /\ Len(gs) = Len(samples)
Pending ==
    synthesized # None =>
       Len(gaps) < Len(samples) /\ Statement(circuit, synthesized.z) = samples[Len(gaps) + 1]

Early == {"start", "generated", "lagrange", "diagonal", "bases"}
GapsInv ==
    /\ samples \in SampleLists(circuit)
    /\ phase \in Early => gaps = << >> /\ synthesized = None
    /\ phase = "sampling" => Sampled(gaps) /\ Pending
    /\ phase \in {"ready", "panicked"} => gaps = << >>
    /\ phase = "ready" => \E gs : Complete(gs) /\ tconst = SolveQ(circuit, gs) /\ tconst # << >>
    /\ phase = "panicked" =>
          \/ ~ AuditPasses(circuit, pk, bases)
          \/ \E gs : Complete(gs) /\ SolveQ(circuit, gs) = << >>

\* It holds before the key is generated.
LEMMA GapsInvInit == Init => GapsInv
BY DEF Init, GapsInv, Early

\* What it says of the samples so far depends on the setup alone.
LEMMA SampledStays ==
    ASSUME UNCHANGED << circuit, pk, bases, samples >>, NEW gs
    PROVE  Sampled(gs) => Sampled(gs)'
BY DEF Sampled, GapSet, GapAt

\* So does being complete.
LEMMA CompleteStays ==
    ASSUME UNCHANGED << circuit, pk, bases, samples >>, NEW gs
    PROVE  Complete(gs) => Complete(gs)'
BY SampledStays DEF Complete

\* Appending one more sample.
LEMMA SampleStep ==
    ASSUME Sampled(gaps), Pending, SynthInv, Sample
    PROVE  /\ phase' = "sampling" /\ synthesized' = None
           /\ Sampled(gaps)'
<1>1. synthesized # None /\ UNCHANGED << circuit, pk, bases, samples >> /\ synthesized' = None
      /\ phase = "sampling"
  BY DEF Sample
<1>2. PICK z \in circuit.assignments : synthesized = [z |-> z, h |-> WitnessMap(circuit, z)]
  BY <1>1 DEF SynthInv
<1> DEFINE S == GapSet(circuit, pk, bases)
           e == [x |-> Statement(circuit, z), gap |-> GapAt(circuit, pk, bases, z)]
<1>3. synthesized.z = z /\ synthesized.h = WitnessMap(circuit, z)
  BY <1>2
<1>4. phase' = phase /\ gaps' = Append(gaps, e)
  <2> DEFINE std == StandardProof(pk, synthesized.h, z, Zero, Zero)
             lean == LeanProof(pk, bases, z, Zero, Zero)
  <2>1. std.a = lean.a /\ std.b = lean.b
    BY ProversAgree
  <2>2. /\ phase' = IF std.a = lean.a /\ std.b = lean.b THEN phase ELSE "panicked"
        /\ gaps' = IF std.a = lean.a /\ std.b = lean.b
                   THEN Append(gaps, [x |-> Statement(circuit, z), gap |-> std.c \ominus lean.c])
                   ELSE gaps
    BY <1>3 DEF Sample
  <2>3. std.c \ominus lean.c = GapAt(circuit, pk, bases, z)
    BY <1>3 DEF GapAt
  <2> HIDE DEF std, lean
  <2> QED BY <2>1, <2>2, <2>3
<1>5. e \in S /\ e.x = samples[Len(gaps) + 1] /\ Len(gaps) < Len(samples)
  <2>1. e \in S
    BY DEF GapSet
  <2> QED BY <1>1, <1>3, <2>1 DEF Pending
<1> HIDE DEF S, e
<1>6. gaps \in Seq(S) /\ Len(gaps) <= Len(samples) /\ \A s \in 1 .. Len(gaps) : gaps[s].x = samples[s]
  BY DEF Sampled, S
<1>7. /\ gaps' \in Seq(S) /\ Len(gaps') = Len(gaps) + 1 /\ Len(gaps) \in Nat
      /\ \A s \in 1 .. Len(gaps) : gaps'[s] = gaps[s]
      /\ gaps'[Len(gaps) + 1] = e
  BY <1>4, <1>5, <1>6
<1>9. Len(gaps') <= Len(samples)
  BY <1>5, <1>7
<1>10. \A s \in 1 .. Len(gaps') : gaps'[s].x = samples[s]
  BY <1>5, <1>6, <1>7
<1>11. Sampled(gaps)'
  BY <1>1, <1>7, <1>9, <1>10 DEF Sampled, GapSet, GapAt, S
<1> QED BY <1>1, <1>4, <1>11

\* Every action keeps it.
LEMMA GapsInvStep ==
    ASSUME GapsInv, SynthInv, KeyInv, [Next]_vars
    PROVE  GapsInv'
<1>0. ASSUME UNCHANGED << circuit, pk, bases, samples, gaps, tconst >>, phase' = phase,
             phase # "sampling", phase \in Early => UNCHANGED synthesized
      PROVE  GapsInv'
  <2>1. phase = "ready" => \E gs : Complete(gs)' /\ tconst' = SolveQ(circuit', gs) /\ tconst' # << >>
    BY <1>0, CompleteStays DEF GapsInv
  <2>2. phase = "panicked" =>
          \/ ~ AuditPasses(circuit, pk, bases)'
          \/ \E gs : Complete(gs)' /\ SolveQ(circuit', gs) = << >>
    BY <1>0, CompleteStays DEF GapsInv, AuditPasses
  <2> QED BY <1>0, <2>1, <2>2 DEF GapsInv, Early
<1>1. ASSUME NEW t, NEW w, Generate(t, w) PROVE GapsInv'
  BY <1>1 DEF Generate, GapsInv, Early
<1>2. CASE ConvertSrs
  BY <1>2 DEF ConvertSrs, GapsInv, Early
<1>3. CASE CorrectDiagonal
  BY <1>3 DEF CorrectDiagonal, GapsInv, Early
<1>4. CASE ComputeWitnessBases
  BY <1>4 DEF ComputeWitnessBases, GapsInv, Early
<1>5. CASE Audit
  <2>1. /\ phase = "bases" /\ UNCHANGED << circuit, pk, bases, samples, synthesized, gaps >>
        /\ phase' = IF AuditPasses(circuit, pk, bases) THEN "sampling" ELSE "panicked"
    BY <1>5 DEF Audit
  <2>2. gaps = << >> /\ synthesized = None /\ samples \in SampleLists(circuit)
    BY <2>1 DEF GapsInv, Early
  <2>3. CASE AuditPasses(circuit, pk, bases)
    <3>1. Sampled(gaps)'
      <4>1. gaps' = << >> /\ Len(<< >>) = 0 /\ 1 .. 0 = {}
        BY <2>1, <2>2
      <4>2. Len(samples) \in Nat
        BY <2>2, SamplesAre, CircuitKit DEF KeyInv
      <4> QED BY <2>1, <4>1, <4>2 DEF Sampled
    <3>2. Pending'
      BY <2>1, <2>2 DEF Pending
    <3> QED BY <2>1, <2>2, <2>3, <3>1, <3>2 DEF GapsInv, Early
  <2>4. CASE ~ AuditPasses(circuit, pk, bases)
    <3>1. ~ AuditPasses(circuit, pk, bases)'
      BY <2>1, <2>4 DEF AuditPasses
    <3> QED BY <2>1, <2>2, <2>4, <3>1 DEF GapsInv, Early
  <2> QED BY <2>3, <2>4
<1>6. ASSUME NEW z, Synthesize(z) PROVE GapsInv'
  <2>1. UNCHANGED << phase, circuit, pk, bases, samples, gaps, tconst >>
    BY <1>6 DEF Synthesize
  <2>2. CASE phase = "sampling"
    <3>1. Sampled(gaps)'
      <4>1. Sampled(gaps)
        BY <2>2 DEF GapsInv
      <4> QED BY <2>1, <4>1 DEF Sampled, GapSet, GapAt
    <3>2. Pending'
      BY <1>6, <2>1, <2>2 DEF Synthesize, Pending
    <3> QED BY <2>1, <2>2, <3>1, <3>2 DEF GapsInv, Early
  <2>3. CASE phase # "sampling"
    <3>1. phase = "ready"
      BY <1>6, <2>3 DEF Synthesize
    <3> QED BY <1>0, <2>1, <3>1 DEF Early
  <2> QED BY <2>2, <2>3
<1>7. CASE Sample
  <2>1. phase = "sampling" /\ UNCHANGED << circuit, pk, bases, samples >>
    BY <1>7 DEF Sample
  <2>2. Sampled(gaps) /\ Pending
    BY <2>1 DEF GapsInv
  <2>3. phase' = "sampling" /\ synthesized' = None /\ Sampled(gaps)'
    BY <1>7, <2>2, SampleStep
  <2>4. Pending'
    BY <2>3 DEF Pending
  <2> QED BY <2>1, <2>3, <2>4 DEF GapsInv, Early
<1>8. CASE Solve
  <2>1. /\ phase = "sampling" /\ Len(gaps) = Len(samples) /\ gaps' = << >>
        /\ UNCHANGED << circuit, pk, bases, samples >>
    BY <1>8 DEF Solve
  <2>2. Complete(gaps)
    BY <2>1 DEF GapsInv, Complete
  <2>3. \E gs : gs = gaps /\ Complete(gs)
    BY <2>2
  <2>4. PICK gs : gs = gaps /\ Complete(gs)
    BY <2>3
  <2>5. Complete(gs)'
    BY <2>1, <2>4, CompleteStays
  <2>6. CASE SolveQ(circuit, gaps) = << >>
    <3>1. phase' = "panicked"
      BY <1>8, <2>6 DEF Solve
    <3>2. Complete(gs)' /\ SolveQ(circuit', gs) = << >>
      BY <2>1, <2>4, <2>5, <2>6
    <3> QED BY <2>1, <3>1, <3>2 DEF GapsInv, Early
  <2>7. CASE SolveQ(circuit, gaps) # << >>
    <3>1. phase' = "ready" /\ tconst' = SolveQ(circuit, gaps)
      BY <1>8, <2>7 DEF Solve
    <3>2. Complete(gs)' /\ tconst' = SolveQ(circuit', gs) /\ tconst' # << >>
      BY <2>1, <2>4, <2>5, <2>7, <3>1
    <3> QED BY <2>1, <3>1, <3>2 DEF GapsInv, Early
  <2> QED BY <2>6, <2>7
<1>9. ASSUME NEW r, NEW s, ProveStandard(r, s) \/ ProveLean(r, s) PROVE GapsInv'
  <2>1. phase = "ready" /\ UNCHANGED << phase, circuit, pk, bases, samples, gaps, tconst >>
    BY <1>9 DEF ProveStandard, ProveLean
  <2> QED BY <1>0, <2>1 DEF Early
<1>10. CASE UNCHANGED vars
  <2>1. UNCHANGED << phase, circuit, pk, bases, samples, gaps, tconst, synthesized >>
    BY <1>10 DEF vars
  <2>2. CASE phase = "sampling"
    <3>1. Sampled(gaps)'
      <4>1. Sampled(gaps)
        BY <2>2 DEF GapsInv
      <4> QED BY <2>1, <4>1 DEF Sampled, GapSet, GapAt
    <3>2. Pending'
      BY <2>1, <2>2 DEF GapsInv, Pending
    <3> QED BY <2>1, <2>2, <3>1, <3>2 DEF GapsInv, Early
  <2>3. CASE phase # "sampling"
    BY <1>0, <2>1, <2>3
  <2> QED BY <2>2, <2>3
<1> QED BY <1>1, <1>2, <1>3, <1>4, <1>5, <1>6, <1>7, <1>8, <1>9, <1>10 DEF Next

\* Hence in every reachable state the gaps are those of the two provers.
LEMMA GapsCorrect == Spec => []GapsInv
<1>1. GapsInv /\ SynthInv /\ KeyInv /\ [Next]_vars => GapsInv'
  BY GapsInvStep
<1>2. KeyInv /\ SynthInv /\ ProofInv => KeyInv /\ SynthInv
  OBVIOUS
<1> QED BY GapsInvInit, <1>1, KeyCorrect, PTL DEF Spec

\* The samples of a finished setup are what SolveQ is stated for.
LEMMA CompleteIs ==
    ASSUME KeyInv, BasesInv, GapsInv, phase \in {"sampling", "ready", "panicked"},
           NEW gs, Complete(gs)
    PROVE  /\ StatementsOf(circuit, gs) = samples /\ IsGaps(circuit, gs)
           /\ \A s \in 1 .. circuit.inputs : \E z \in circuit.assignments :
                 /\ samples[s] = Statement(circuit, z)
                 /\ GapsOf(circuit, gs)[s] = GapAt(circuit, pk, BasesOf(circuit, pk), z)
<1> DEFINE n == circuit.inputs
           S == GapSet(circuit, pk, bases)
<1>1. circuit \in Circuits /\ samples \in SampleLists(circuit) /\ bases = BasesOf(circuit, pk)
  BY DEF KeyInv, GapsInv, BasesInv
<1>2. PICK w \in Trapdoors : KeyInputs(circuit, tau, w) /\ pk = ProvingKey(circuit, tau, w)
  BY DEF KeyInv, KeyOf
<1>3. IsSamples(n, samples) /\ Len(samples) = n
  BY <1>1, SamplesAre
<1>4. gs \in Seq(S) /\ Len(gs) = n /\ \A s \in 1 .. n : gs[s].x = samples[s]
  BY <1>3 DEF Complete, Sampled
<1>5. \A s \in 1 .. n : gs[s] \in S
  <2> HIDE DEF S
  <2> QED BY <1>4
<1>6. \A s \in 1 .. n : \E z \in circuit.assignments :
         gs[s].x = Statement(circuit, z) /\ gs[s].gap = GapAt(circuit, pk, bases, z)
  <2> TAKE s \in 1 .. n
  <2>1. PICK z \in circuit.assignments :
           gs[s] = [x |-> Statement(circuit, z), gap |-> GapAt(circuit, pk, bases, z)]
    BY <1>5 DEF GapSet
  <2> QED BY <2>1
<1>7. StatementsOf(circuit, gs) = samples
  <2>1. samples = [s \in 1 .. n |-> samples[s]]
    BY <1>3 DEF IsSamples
  <2> QED BY <1>4, <2>1 DEF StatementsOf
<1>8. \A s \in 1 .. n : gs[s].gap \in Scalars
  <2> TAKE s \in 1 .. n
  <2>1. PICK z \in circuit.assignments : gs[s].gap = GapAt(circuit, pk, bases, z)
    BY <1>6
  <2> QED BY <1>1, <1>2, <2>1, GapAtIs
<1>9. GapsOf(circuit, gs) \in [1 .. n -> Scalars] /\ \A s \in 1 .. n : GapsOf(circuit, gs)[s] = gs[s].gap
  BY <1>8 DEF GapsOf
<1>10. IsGaps(circuit, gs)
  BY <1>1, <1>3, <1>7, <1>9 DEF IsGaps
<1> QED BY <1>1, <1>4, <1>6, <1>7, <1>9, <1>10

\* The T_const of a finished setup is the coefficient vector of the gap.
LEMMA TconstIs ==
    ASSUME KeyInv, BasesInv, GapsInv, phase = "ready"
    PROVE  /\ tconst \in [0 .. circuit.inputs - 1 -> Scalars]
           /\ \A w \in Trapdoors :
                 KeyOf(w) /\ Audited(circuit, tau, w) => tconst = GapCoefficients(circuit, tau, w)
<1> DEFINE n == circuit.inputs
<1>1. PICK gs : Complete(gs) /\ tconst = SolveQ(circuit, gs) /\ tconst # << >>
  BY DEF GapsInv
<1>2. /\ StatementsOf(circuit, gs) = samples /\ IsGaps(circuit, gs)
      /\ \A s \in 1 .. n : \E z \in circuit.assignments :
            /\ samples[s] = Statement(circuit, z)
            /\ GapsOf(circuit, gs)[s] = GapAt(circuit, pk, BasesOf(circuit, pk), z)
  BY <1>1, CompleteIs
<1>3. /\ tconst \in [0 .. n - 1 -> Scalars]
      /\ \A f \in [0 .. n - 1 -> Scalars] :
            Agrees(n, f, StatementsOf(circuit, gs), GapsOf(circuit, gs)) => tconst = f
  BY <1>1, <1>2, SolveQIs
<1>4. ASSUME NEW w \in Trapdoors, KeyOf(w), Audited(circuit, tau, w)
      PROVE  tconst = GapCoefficients(circuit, tau, w)
  <2> DEFINE f == GapCoefficients(circuit, tau, w)
  <2>1. KeyInputs(circuit, tau, w) /\ pk = ProvingKey(circuit, tau, w)
    BY <1>4 DEF KeyOf
  <2>2. \A s \in 1 .. n : GapsOf(circuit, gs)[s] = Affine(n, f, samples[s])
    <3> TAKE s \in 1 .. n
    <3>1. PICK z \in circuit.assignments :
             /\ samples[s] = Statement(circuit, z)
             /\ GapsOf(circuit, gs)[s] = GapAt(circuit, pk, BasesOf(circuit, pk), z)
      BY <1>2
    <3>2. GapAt(circuit, pk, BasesOf(circuit, pk), z) = Affine(n, f, Statement(circuit, z))
      BY <1>4, <2>1, GapAtIs
    <3> QED BY <3>1, <3>2
  <2>3. f \in [0 .. n - 1 -> Scalars]
    <3>1. 1 \in 1 .. n
      BY CircuitKit DEF KeyInv
    <3>2. PICK z : z \in circuit.assignments
      BY <1>2, <3>1
    <3> QED BY <1>4, <3>2, GapIs DEF Inputs
  <2> HIDE DEF f
  <2>4. Agrees(n, f, StatementsOf(circuit, gs), GapsOf(circuit, gs))
    BY <1>2, <2>2 DEF Agrees
  <2> QED BY <1>3, <2>3, <2>4 DEF f
<1> QED BY <1>3, <1>4

\* The equation of a lean proof, for a value that makes up for the gap.
LEMMA LeanEquation ==
    ASSUME NEW c, NEW t, NEW w, Audited(c, t, w), NEW z \in c.assignments,
           NEW r \in Scalars, NEW s \in Scalars, NEW key, key = ProvingKey(c, t, w)
    PROVE  GrothEquation(key, c, Statement(c, z), LeanProof(key, BasesOf(c, key), z, r, s),
                         Times(Affine(c.inputs, GapCoefficients(c, t, w), Statement(c, z)), key.delta))
<1> DEFINE S == StandardQuotientOf(c, t, w, z)
           L == LeanQuotientOf(c, t, w, z)
           g == Dot(Inputs(c), GapCoefficients(c, t, w), Cut(Inputs(c), z))
           d == w.delta
           e == Times(g, d)
<1>1. KeyInputs(c, t, w) /\ c \in Circuits /\ d \in Scalars
  BY DEF Audited, KeyInputs
<1>2. S \in Scalars /\ L \in Scalars /\ g \in Scalars /\ S = Plus(L, g) /\ Times(S, d) = Excess(c, t, z)
  BY QuotientGap
<1>3. g = Affine(c.inputs, GapCoefficients(c, t, w), Statement(c, z))
  BY <1>1, GapIs, StatementIs
<1>4. key.delta = d
  BY <1>1, KeyIs
<1>5. LeanProof(key, BasesOf(c, key), z, r, s) = Proof(key, z, r, s, L)
  BY LeanProofIs DEF LeanQuotientOf
<1> HIDE DEF S, L, g, d
<1>6. e \in Scalars /\ Plus(Times(L, d), e) = Excess(c, t, z)
  BY <1>1, <1>2, Distributes, Closure
<1> HIDE DEF e
<1>7. ProofInputs(c, t, w, z, r, s, L, e)
  <2>1. d = w.delta
    BY DEF d
  <2> QED BY <1>1, <1>2, <1>6, <2>1 DEF ProofInputs, Excess
<1>8. GrothEquation(key, c, Statement(c, z), Proof(key, z, r, s, L), e)
  BY <1>7, ProofVerifies
<1> QED BY <1>3, <1>4, <1>5, <1>8 DEF e

\* prove_lean_with_randomizers and compute_q_const_points_from_gap: for every circuit
\* whose omitted columns are bound to public inputs, T_const, solved for from as many samples
\* as there are inputs, makes the baked equation hold for every satisfying assignment and
\* all randomizers, whatever witnesses the samples had.
THEOREM LeanVerifiesCorrect == Spec => []LeanVerifies
<1>1. KeyInv /\ ProofInv /\ BasesInv /\ GapsInv => LeanVerifies
  <2>1. SUFFICES ASSUME KeyInv, ProofInv, BasesInv, GapsInv,
                        proof # None, proof.kind = "lean", Bound(circuit), NoAccident(circuit, pk)
                 PROVE  Equation((tconst[0] \oplus Total([i \in Public(circuit) |-> tconst[i] \otimes proof.x[i]]))
                                    \otimes pk.delta)
    BY DEF LeanVerifies
  <2>2. PICK z \in circuit.assignments, r \in Randomizers, s \in Randomizers :
           StandardOf(z, r, s) \/ LeanOf(z, r, s)
    BY <2>1 DEF ProofInv
  <2>3. LeanOf(z, r, s)
    <3>1. ~ StandardOf(z, r, s)
      BY <2>1 DEF StandardOf
    <3> QED BY <2>2, <3>1
  <2>4. phase = "ready"
    BY <2>1 DEF ProofInv
  <2>5. PICK w \in Trapdoors : KeyOf(w)
    BY <2>1, <2>4 DEF KeyInv
  <2>6. KeyInputs(circuit, tau, w) /\ pk = ProvingKey(circuit, tau, w) /\ bases = BasesOf(circuit, pk)
        /\ AuditPasses(circuit, pk, bases)
    BY <2>1, <2>4, <2>5 DEF KeyOf, BasesInv
  <2>7. Audited(circuit, tau, w)
    BY <2>1, <2>6 DEF Audited
  <2>8. tconst = GapCoefficients(circuit, tau, w)
    BY <2>1, <2>4, <2>5, <2>7, TconstIs
  <2>9. r \in Scalars /\ s \in Scalars
    BY InputsAssumption
  <2>10. proof.x = Statement(circuit, z) /\ proof.elems = LeanProof(pk, BasesOf(circuit, pk), z, r, s)
    BY <2>3, <2>6 DEF LeanOf
  <2>11. GrothEquation(pk, circuit, proof.x, proof.elems,
                       Times(Affine(circuit.inputs, tconst, proof.x), pk.delta))
    BY <2>6, <2>7, <2>8, <2>9, <2>10, LeanEquation
  <2>12. Affine(circuit.inputs, tconst, proof.x)
           = tconst[0] \oplus Total([i \in Public(circuit) |-> tconst[i] \otimes proof.x[i]])
    BY DEF Affine, Public, \oplus, \otimes
  <2>13. Times(Affine(circuit.inputs, tconst, proof.x), pk.delta)
           = (tconst[0] \oplus Total([i \in Public(circuit) |-> tconst[i] \otimes proof.x[i]])) \otimes pk.delta
    BY <2>12 DEF \otimes
  <2> QED BY <2>11, <2>13, EquationIs
<1> QED BY <1>1, KeyCorrect, BasesCorrect, GapsCorrect, PTL

\* A column without rows is zero in the key.
LEMMA ColumnSupport ==
    ASSUME NEW c, NEW t, NEW w, KeyInputs(c, t, w), NEW i \in Cols(c),
           ProvingKey(c, t, w).a[i] # Zero
    PROVE  Support(c, c.a, i) # {}
<1> SUFFICES ASSUME Support(c, c.a, i) = {}
             PROVE  ProvingKey(c, t, w).a[i] = Zero
  OBVIOUS
<1> DEFINE R == Rows(c)
           l == RowWeights(c, t)
           v == [k \in R |-> Times(l[k], c.a[k][i])]
<1>1. c \in Circuits /\ t \in Scalars /\ Vanishing(DomainSize(c), t) # Zero
  BY DEF KeyInputs
<1>2. IsFiniteSet(R) /\ c.a \in MatrixOf(c)
  BY <1>1, CircuitKit DEF MatrixOf
<1>3. l \in [R -> Scalars]
  <2>1. [e \in Cols(c) |-> Zero] \in [Cols(c) -> Scalars]
    BY Closure
  <2> QED BY <1>1, <1>2, <2>1, RowWeightsDot
<1>4. \A k \in R : c.a[k][i] = Zero
  BY DEF Support
<1>5. ProvingKey(c, t, w).a[i] = Total(v)
  <2>1. ProvingKey(c, t, w).a = ColumnsAt(c, c.a, t)
    BY KeyIs
  <2>3. ColumnsAt(c, c.a, t)[i] = InstanceMap(c, c.a, i, t)
    BY DEF ColumnsAt
  <2>2. InstanceMap(c, c.a, i, t) = Total(v)
    BY DEF InstanceMap, RowWeights, \otimes
  <2> QED BY <2>1, <2>2, <2>3
<1> HIDE DEF l
<1>6. \A k \in R : v[k] = Zero
  BY <1>3, <1>4, TimesZero
<1>7. v \in [R -> Scalars]
  <2>1. \A k \in R : v[k] \in Scalars
    BY <1>6, Closure
  <2> QED BY <2>1
<1> HIDE DEF v, R
<1> QED BY <1>2, <1>5, <1>6, <1>7, AllZero

\* The audit refuses only circuits with a public input in A or B.
LEMMA AuditRefuses ==
    ASSUME NEW c, NEW t, NEW w, KeyInputs(c, t, w), NEW key, key = ProvingKey(c, t, w),
           ~ AuditPasses(c, key, BasesOf(c, key))
    PROVE  ~ PublicOnlyInC(c)
<1> DEFINE base == BasesOf(c, key)
<1>1. c \in Circuits /\ Public(c) \subseteq Cols(c)
  BY ColumnKit DEF KeyInputs
<1>2. CASE \E i \in Public(c) : key.a[i] # Zero
  <2>1. PICK i \in Public(c) : key.a[i] # Zero
    BY <1>2
  <2>2. Support(c, c.a, i) # {}
    BY <1>1, <2>1, ColumnSupport
  <2> QED BY <2>2 DEF PublicOnlyInC
<1>3. CASE \A i \in Public(c) : key.a[i] = Zero
  <2>1. PICK p \in DOMAIN base : ~ (/\ ~ (p[1] = 0 /\ p[2] \in OmittedColumns(c))
                                    /\ p[1] \notin Public(c) /\ p[2] \notin Public(c)
                                    /\ p # << 0, 0 >>
                                    /\ base[p] # Zero)
    BY <1>3 DEF AuditPasses
  <2>2. p \in ActivePairs(c)
    BY <2>1, BasesActive
  <2>3. /\ p \in Cols(c) \X Cols(c)
        /\ Support(c, c.a, p[1]) # {} /\ Support(c, c.b, p[2]) # {}
        /\ ~ (p[1] < c.inputs /\ p[2] < c.inputs)
        /\ ~ (p[1] = 0 /\ p[2] \in OmittedColumns(c))
    BY <2>2 DEF ActivePairs
  <2>4. base[p] # Zero
    BY <2>1 DEF BasesOf, WitnessBases
  <2>5. p # << 0, 0 >>
    <3>1. 0 < c.inputs
      BY <1>1, CircuitKit
    <3> QED BY <2>3, <3>1
  <2>6. p[1] \in Public(c) \/ p[2] \in Public(c)
    BY <2>1, <2>3, <2>4, <2>5
  <2> QED BY <2>3, <2>6 DEF PublicOnlyInC
<1> QED BY <1>2, <1>3

\* A panic of invert_matrix is a dependency among the samples.
LEMMA SolveRefuses ==
    ASSUME KeyInv, BasesInv, GapsInv, phase \in {"sampling", "ready", "panicked"},
           NEW gs, Complete(gs), SolveQ(circuit, gs) = << >>
    PROVE  Dependent(samples)
<1> DEFINE n == circuit.inputs
<1>1. StatementsOf(circuit, gs) = samples /\ IsGaps(circuit, gs)
  BY CompleteIs
<1>2. InvertMatrix(n, samples) = << >>
  BY <1>1, SolveQIs
<1>3. IsSamples(n, samples) /\ Len(samples) = n
  BY SamplesAre DEF KeyInv, GapsInv
<1>4. PICK f \in [0 .. n - 1 -> Scalars] :
         /\ \E i \in 0 .. n - 1 : f[i] # Zero
         /\ \A s \in 1 .. n : Affine(n, f, samples[s]) = Zero
  BY <1>2, <1>3, GaussPanics
<1> HIDE DEF n
<1>5. \A s \in 1 .. n :
         f[0] \oplus Total([i \in 1 .. n - 1 |-> f[i] \otimes samples[s][i]]) = Zero
  BY <1>4 DEF Affine, \oplus, \otimes
<1>6. DOMAIN f = 0 .. n - 1
  BY <1>4
<1> QED BY <1>3, <1>4, <1>5, <1>6 DEF Dependent

\* build_pvugc_setup_from_pk_for panics only for a circuit with a public input in A or B,
\* or for sample statements on which an affine function other than zero vanishes: the
\* audit passes otherwise, the two provers agree on A and B, and invert_matrix finds a pivot
\* in every column.
THEOREM PanicJustifiedCorrect == Spec => []PanicJustified
<1>1. KeyInv /\ BasesInv /\ GapsInv => PanicJustified
  <2>1. SUFFICES ASSUME KeyInv, BasesInv, GapsInv, phase = "panicked"
                 PROVE  ~ PublicOnlyInC(circuit) \/ Dependent(samples)
    BY DEF PanicJustified
  <2>2. PICK w \in Trapdoors : KeyInputs(circuit, tau, w) /\ pk = ProvingKey(circuit, tau, w)
    BY <2>1 DEF KeyInv, KeyOf
  <2>3. bases = BasesOf(circuit, pk)
    BY <2>1 DEF BasesInv
  <2>4. CASE ~ AuditPasses(circuit, pk, bases)
    BY <2>2, <2>3, <2>4, AuditRefuses
  <2>5. CASE \E gs : Complete(gs) /\ SolveQ(circuit, gs) = << >>
    BY <2>1, <2>5, SolveRefuses
  <2> QED BY <2>1, <2>4, <2>5 DEF GapsInv
<1> QED BY <1>1, KeyCorrect, BasesCorrect, GapsCorrect, PTL

\* What the audit leaves of the published bases.
LEMMA PublishedBases ==
    ASSUME NEW c, NEW t, NEW w, KeyInputs(c, t, w), NEW key, key = ProvingKey(c, t, w),
           AuditPasses(c, key, BasesOf(c, key)), NEW p \in DOMAIN BasesOf(c, key)
    PROVE  /\ BasesOf(c, key)[p] \in NonZero
           /\ p[1] \in {0} \cup Private(c) /\ p[2] \in {0} \cup Private(c)
           /\ p[1] = 0 => p[2] \in Private(c) \ OmittedColumns(c)
<1> DEFINE base == BasesOf(c, key)
<1>1. p \in ActivePairs(c) /\ p \in Cols(c) \X Cols(c)
  BY BasesActive
<1>2. base[p] \in NonZero
  <2>1. p \in DOMAIN base => base[p] \in Scalars \ {Zero}
    BY <1>1, BasesAt
  <2> QED BY <2>1 DEF NonZero
<1>3. /\ ~ (p[1] = 0 /\ p[2] \in OmittedColumns(c))
      /\ p[1] \notin Public(c) /\ p[2] \notin Public(c)
      /\ p # << 0, 0 >>
  BY DEF AuditPasses
<1>4. Cols(c) = {0} \cup Public(c) \cup Private(c)
  BY ColumnKit DEF KeyInputs
<1>5. p = << p[1], p[2] >> /\ p[1] \in Cols(c) /\ p[2] \in Cols(c)
  BY <1>1
<1>6. p[1] \in {0} \cup Private(c) /\ p[2] \in {0} \cup Private(c)
  BY <1>3, <1>4, <1>5
<1> QED BY <1>2, <1>3, <1>5, <1>6

\* The vectors between the steps of compute_witness_bases.
LEMMA BufferTypes ==
    ASSUME NEW c, NEW t, NEW w, KeyInputs(c, t, w), NEW key, key = ProvingKey(c, t, w)
    PROVE  /\ LagrangeSrs(c, key) \in Vectors(Domain(DomainSize(c)))
           /\ DiagonalOf(c, key) \in Vectors(Domain(DomainSize(c)))
<1> DEFINE n == DomainSize(c)
           lag == LagrangeSrs(c, key)
<1>1. n \in DomainSizes
  BY CircuitKit DEF KeyInputs
<1>2. lag \in [Domain(n) -> Scalars]
  BY SrsIs DEF IsLag
<1> HIDE DEF n, lag
<1>3. DiagonalVector(n, lag) \in [Domain(n) -> Scalars]
  BY <1>1, <1>2, DiagonalIs
<1> QED BY <1>2, <1>3 DEF Vectors, DiagonalOf, n, lag

\* Every value of the setup has its shape; no published base is the identity, or belongs
\* to a public column, to the pair of constants or to an omitted pair.
THEOREM TypeCorrect == Spec => []TypeOK
<1>1. KeyInv /\ BasesInv /\ GapsInv => TypeOK
  <2> SUFFICES ASSUME KeyInv, BasesInv, GapsInv
               PROVE  TypeOK
    OBVIOUS
  <2>1. /\ phase \in {"start", "generated", "lagrange", "diagonal", "bases", "sampling",
                      "ready", "panicked"}
        /\ circuit \in Circuits /\ samples \in SampleLists(circuit)
    BY DEF BasesInv, KeyInv, GapsInv
  <2>2. phase # "start" => \E w \in Trapdoors : KeyInputs(circuit, tau, w) /\ pk = ProvingKey(circuit, tau, w)
    BY DEF KeyInv, KeyOf
  <2>3. phase \in {"lagrange", "diagonal", "bases"} => srs \in Vectors(Domain(DomainSize(circuit)))
    BY <2>2, BufferTypes DEF BasesInv
  <2>4. phase \in {"diagonal", "bases"} => diagonal \in Vectors(Domain(DomainSize(circuit)))
    BY <2>2, BufferTypes DEF BasesInv
  <2>5. phase \in {"sampling", "ready"} =>
          \A p \in DOMAIN bases :
             /\ bases[p] \in NonZero
             /\ p[1] \in {0} \cup Private(circuit) /\ p[2] \in {0} \cup Private(circuit)
             /\ p[1] = 0 => p[2] \in Private(circuit) \ OmittedColumns(circuit)
    <3> HAVE phase \in {"sampling", "ready"}
    <3> TAKE p \in DOMAIN bases
    <3>1. PICK w \in Trapdoors : KeyInputs(circuit, tau, w) /\ pk = ProvingKey(circuit, tau, w)
      BY <2>2
    <3>2. bases = BasesOf(circuit, pk) /\ AuditPasses(circuit, pk, BasesOf(circuit, pk))
      BY DEF BasesInv
    <3> QED BY <3>1, <3>2, PublishedBases
  <2>6. Len(gaps) <= Len(samples)
    <3>0. Len(samples) = circuit.inputs /\ circuit.inputs \in 1 .. circuit.cols
      BY <2>1, SamplesAre, CircuitKit
    <3>1. Len(samples) \in Nat
      BY <3>0
    <3>2. CASE phase = "sampling"
      BY <3>2 DEF GapsInv, Sampled
    <3>3. CASE phase # "sampling"
      <4>1. gaps = << >>
        BY <2>1, <3>3 DEF GapsInv, Early
      <4> QED BY <3>1, <4>1
    <3> QED BY <3>2, <3>3
  <2>7. phase = "ready" => tconst \in Vectors(0 .. circuit.inputs - 1)
    BY TconstIs DEF Vectors
  <2> QED BY <2>1, <2>3, <2>4, <2>5, <2>6, <2>7 DEF TypeOK
<1> QED BY <1>1, KeyCorrect, BasesCorrect, GapsCorrect, PTL

================================================================================
