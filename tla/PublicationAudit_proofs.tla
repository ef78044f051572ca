------------------------ MODULE PublicationAudit_proofs ------------------------
(***************************************************************************)
(* Proofs about PublicationAudit, for every field, every circuit and any   *)
(* sample points.                                                          *)
(***************************************************************************)
EXTENDS PublicationAudit, FieldSums, SequenceTheorems

--------------------------------------------------------------------------------
(***************************************************************************)
(* Reduce and Insert.                                                      *)
(***************************************************************************)
\* One turn of Reduce: the pivot p, if there is one, is eliminated from u.
Turn(b, u, p) == IF p \in DOMAIN b THEN Eliminate(u, u[p], b[p]) ELSE u

\* Reduce takes the pivots one after another.
LEMMA ReduceSteps ==
    ASSUME NEW b, NEW T, NEW v \in T, IsFiniteSet(DOMAIN v),
           \A u \in T, p \in DOMAIN b : Eliminate(u, u[p], b[p]) \in T
    PROVE  \E g : /\ g[0] = v
                  /\ \A k \in 1 .. Cardinality(DOMAIN v) + 1 : g[k] = Turn(b, g[k - 1], k - 1)
                  /\ Reduce(b, v) = g[Cardinality(DOMAIN v) + 1]
<1> DEFINE n == Cardinality(DOMAIN v) + 1
           D(g) == g = [p \in 0 .. n |->
                          IF p = 0 THEN v
                          ELSE LET u == g[p - 1]
                               IN  IF p - 1 \in DOMAIN b
                                   THEN Eliminate(u, u[p - 1], b[p - 1]) ELSE u]
           step == [k \in 1 .. n |-> [u \in T |-> Turn(b, u, k - 1)]]
<1>1. n \in Nat
  BY FS_CardinalityType
<1>2. Reduce(b, v) = (CHOOSE g : D(g))[n]
  BY DEF Reduce
<1>3. \A k \in 1 .. n, u \in T : Turn(b, u, k - 1) \in T /\ step[k][u] = Turn(b, u, k - 1)
  BY DEF Turn
<1> HIDE DEF n
<1>4. step \in [1 .. n -> [T -> T]]
  BY <1>3
<1> HIDE DEF step
<1>a. PICK g : IsCourse(g, n, T, v, step)
  BY <1>1, <1>4, LoopExists
<1>5. g \in [0 .. n -> T] /\ g[0] = v /\ \A k \in 1 .. n : g[k] = step[k][g[k - 1]]
  BY <1>a DEF IsCourse
<1>6. \A k \in 1 .. n : g[k] = Turn(b, g[k - 1], k - 1)
  <2> TAKE k \in 1 .. n
  <2>1. g[k - 1] \in T
    BY <1>1, <1>5
  <2> QED BY <1>3, <1>5, <2>1
<1>7. D(g)
  <2>1. \A p \in 0 .. n : g[p] = IF p = 0 THEN v
                                 ELSE LET u == g[p - 1]
                                      IN  IF p - 1 \in DOMAIN b
                                          THEN Eliminate(u, u[p - 1], b[p - 1]) ELSE u
    <3> TAKE p \in 0 .. n
    <3>1. p # 0 => p \in 1 .. n
      BY <1>1
    <3> QED BY <1>5, <1>6, <3>1 DEF Turn
  <2>2. g = [p \in 0 .. n |-> g[p]]
    BY <1>5
  <2> QED BY <2>1, <2>2
<1> HIDE DEF D
<1>8. D(CHOOSE h : D(h))
  BY <1>7
<1> DEFINE h == CHOOSE f : D(f)
<1>9. /\ h[0] = v
      /\ \A k \in 1 .. n : h[k] = Turn(b, h[k - 1], k - 1)
  <2>1. D(h)
    BY <1>8
  <2> HIDE DEF h
  <2> USE DEF D
  <2>2. \A p \in 0 .. n : h[p] = IF p = 0 THEN v
                                 ELSE LET u == h[p - 1]
                                      IN  IF p - 1 \in DOMAIN b
                                          THEN Eliminate(u, u[p - 1], b[p - 1]) ELSE u
    BY <2>1
  <2> HIDE DEF D
  <2> QED BY <1>1, <2>2 DEF Turn
<1> QED BY <1>2, <1>9 DEF n

\* What elimination preserves, Reduce preserves.
LEMMA ReduceKeeps ==
    ASSUME NEW b, NEW T, NEW v \in T, IsFiniteSet(DOMAIN v),
           \A u \in T, p \in DOMAIN b : Eliminate(u, u[p], b[p]) \in T
    PROVE  Reduce(b, v) \in T
<1> DEFINE n == Cardinality(DOMAIN v) + 1
<1>1. n \in Nat
  BY FS_CardinalityType
<1>2. PICK g : /\ g[0] = v
               /\ \A k \in 1 .. n : g[k] = Turn(b, g[k - 1], k - 1)
               /\ Reduce(b, v) = g[n]
  BY ReduceSteps
<1> HIDE DEF n
<1>3. \A k \in 1 .. n : g[k - 1] \in T => g[k] \in T
  BY <1>2 DEF Turn
<1>4. \A k \in 0 .. n : g[k] \in T
  BY <1>1, <1>2, <1>3, LoopKeeps
<1> QED BY <1>1, <1>2, <1>4

\* Bases with pivots in P and vectors in V.
Bases(P, V) == UNION {[s -> V] : s \in SUBSET P}

LEMMA BasesAre ==
    ASSUME NEW P, NEW V, NEW b
    PROVE  b \in Bases(P, V) <=>
             /\ DOMAIN b \subseteq P /\ b = [p \in DOMAIN b |-> b[p]]
             /\ \A p \in DOMAIN b : b[p] \in V
BY DEF Bases

\* V is closed under what the elimination does to its vectors, whose pivots are in P.
Closed(D, P, V) ==
    /\ D \subseteq Nat /\ IsFiniteSet(D) /\ P \subseteq D /\ V \subseteq [D -> Scalars]
    /\ \A u, w \in V, t \in Scalars : Eliminate(u, t, w) \in V
    /\ \A u \in V : Support(u) \subseteq P
    /\ \A u \in V, t \in Scalars : [k \in D |-> u[k] \otimes t] \in V

LEMMA LeastOf ==
    ASSUME NEW s \in SUBSET Nat, s # {}
    PROVE  Least(s) \in s /\ \A q \in s : Least(s) <= q
<1>1. \E p \in s : \A q \in s : p <= q
  <2>1. PICK p \in s : \A q \in s : ~ (q < p)
    BY LeastNatural
  <2> QED BY <2>1
<1> QED BY <1>1 DEF Least

LEMMA ClosedReduce ==
    ASSUME NEW D, NEW P, NEW V, Closed(D, P, V), NEW b \in Bases(P, V), NEW v \in V
    PROVE  Reduce(b, v) \in V
<1>1. DOMAIN v = D /\ IsFiniteSet(D)
  BY DEF Closed
<1>2. \A u \in V, p \in DOMAIN b : Eliminate(u, u[p], b[p]) \in V
  <2>1. \A p \in DOMAIN b : b[p] \in V /\ p \in D
    BY BasesAre DEF Closed
  <2>2. \A u \in V, p \in D : u[p] \in Scalars
    BY DEF Closed
  <2> QED BY <2>1, <2>2 DEF Closed
<1> QED BY <1>1, <1>2, ReduceKeeps

LEMMA ClosedNormalized ==
    ASSUME NEW D, NEW P, NEW V, Closed(D, P, V), NEW u \in V, Support(u) # {}
    PROVE  /\ Normalized(u) \in V /\ Least(Support(u)) \in Support(u)
           /\ Least(Support(u)) \in P
<1> DEFINE p == Least(Support(u))
           inv == Reciprocal(u[p])
<1>1. Support(u) \subseteq P /\ Support(u) \subseteq Nat /\ DOMAIN u = D
  BY DEF Closed
<1>2. p \in Support(u)
  BY <1>1, LeastOf
<1>3. u[p] \in Scalars /\ u[p] # Zero
  <2> HIDE DEF p
  <2> QED BY <1>2 DEF Closed, Support
<1>4. inv \in Scalars
  <2> HIDE DEF p
  <2> QED BY <1>3, FieldAssumption DEF NonZero
<1>5. Normalized(u) = [k \in D |-> u[k] \otimes inv]
  BY <1>1 DEF Normalized
<1> HIDE DEF p, inv
<1>6. Normalized(u) \in V
  BY <1>4, <1>5 DEF Closed
<1> QED BY <1>1, <1>2, <1>6 DEF p

LEMMA ClosedInsert ==
    ASSUME NEW D, NEW P, NEW V, Closed(D, P, V), NEW b \in Bases(P, V), NEW v \in V
    PROVE  Insert(b, v) \in Bases(P, V) /\ RowInsert(b, v) \in Bases(P, V)
<1> DEFINE u == Reduce(b, v)
           n == Normalized(u)
           new == Least(Support(u))
<1>1. u \in V
  BY ClosedReduce
<1>2. DOMAIN b \subseteq P /\ \A p \in DOMAIN b : b[p] \in V
  BY BasesAre
<1>3. CASE Support(u) = {}
  BY <1>3 DEF Insert, RowInsert
<1>4. CASE Support(u) # {}
  <2>1. n \in V /\ new \in P
    <3> HIDE DEF u
    <3> QED BY <1>1, <1>4, ClosedNormalized
  <2>2. Insert(b, v) = [p \in DOMAIN b \cup {new} |-> IF p \in DOMAIN b THEN b[p] ELSE n]
    BY <1>4 DEF Insert
  <2>3. RowInsert(b, v) = [p \in DOMAIN b \cup {new} |->
                              IF p = new THEN n ELSE Eliminate(b[p], b[p][new], n)]
    BY <1>4 DEF RowInsert
  <2>4. \A p \in DOMAIN b : Eliminate(b[p], b[p][new], n) \in V
    <3> HIDE DEF n, new, u
    <3>1. \A p \in DOMAIN b : b[p][new] \in Scalars
      BY <1>2, <2>1 DEF Closed
    <3> QED BY <1>2, <2>1, <3>1 DEF Closed
  <2> HIDE DEF n, new, u
  <2>5. /\ DOMAIN b \cup {new} \subseteq P
        /\ \A p \in DOMAIN b \cup {new} :
              /\ (IF p \in DOMAIN b THEN b[p] ELSE n) \in V
              /\ (IF p = new THEN n ELSE Eliminate(b[p], b[p][new], n)) \in V
    BY <1>2, <2>1, <2>4
  <2> DEFINE S == DOMAIN b \cup {new}
  <2>6. Insert(b, v) \in [S -> V] /\ RowInsert(b, v) \in [S -> V]
    BY <2>2, <2>3, <2>5
  <2>7. S \in SUBSET P
    BY <2>5
  <2> HIDE DEF S
  <2> QED BY <2>6, <2>7 DEF Bases
<1> QED BY <1>3, <1>4

\* The bases on the way, from b.
IsFilling(g, b, handles) ==
    /\ g[0] = b
    /\ \A k \in 1 .. Len(handles) : g[k] = Insert(g[k - 1], ToVector(handles[k]))
    /\ InsertAll(b, handles) = g[Len(handles)]

\* InsertAll takes the handles one after another.
LEMMA InsertAllSteps ==
    ASSUME NEW T, NEW b \in T, NEW handles, Len(handles) \in Nat,
           \A c \in T, i \in 1 .. Len(handles) : Insert(c, ToVector(handles[i])) \in T
    PROVE  \E g : IsFilling(g, b, handles)
<1> DEFINE n == Len(handles)
           D(g) == g = [i \in 0 .. n |-> IF i = 0 THEN b
                                         ELSE Insert(g[i - 1], ToVector(handles[i]))]
           step == [i \in 1 .. n |-> [c \in T |-> Insert(c, ToVector(handles[i]))]]
<1>1. InsertAll(b, handles) = (CHOOSE g : D(g))[n]
  BY DEF InsertAll
<1>2. \A k \in 1 .. n, c \in T : step[k][c] = Insert(c, ToVector(handles[k]))
  OBVIOUS
<1>3. n \in Nat
  OBVIOUS
<1>4. step \in [1 .. n -> [T -> T]]
  OBVIOUS
<1> HIDE DEF step, n
<1>a. PICK g : IsCourse(g, n, T, b, step)
  BY <1>3, <1>4, LoopExists
<1>5. g \in [0 .. n -> T] /\ g[0] = b /\ \A k \in 1 .. n : g[k] = step[k][g[k - 1]]
  BY <1>a DEF IsCourse
<1>6. \A k \in 1 .. n : g[k] = Insert(g[k - 1], ToVector(handles[k]))
  <2> TAKE k \in 1 .. n
  <2>1. g[k - 1] \in T
    BY <1>3, <1>5
  <2> QED BY <1>2, <1>5, <2>1
<1>7. D(g)
  <2>1. \A i \in 0 .. n : g[i] = IF i = 0 THEN b ELSE Insert(g[i - 1], ToVector(handles[i]))
    <3> TAKE i \in 0 .. n
    <3>1. i # 0 => i \in 1 .. n
      BY <1>3
    <3> QED BY <1>5, <1>6, <3>1
  <2>2. g = [i \in 0 .. n |-> g[i]]
    BY <1>5
  <2> QED BY <2>1, <2>2
<1> HIDE DEF D
<1>8. D(CHOOSE h : D(h))
  BY <1>7
<1> DEFINE h == CHOOSE f : D(f)
<1>9. /\ h[0] = b
      /\ \A k \in 1 .. n : h[k] = Insert(h[k - 1], ToVector(handles[k]))
  <2>1. D(h)
    BY <1>8
  <2> HIDE DEF h
  <2> USE DEF D
  <2>2. \A i \in 0 .. n : h[i] = IF i = 0 THEN b ELSE Insert(h[i - 1], ToVector(handles[i]))
    BY <2>1
  <2> HIDE DEF D
  <2> QED BY <1>3, <2>2
<1>10. IsFilling(h, b, handles)
  BY <1>1, <1>9 DEF IsFilling, n
<1> QED BY <1>10

LEMMA InsertAllKeeps ==
    ASSUME NEW T, NEW b \in T, NEW handles, Len(handles) \in Nat,
           \A c \in T, i \in 1 .. Len(handles) : Insert(c, ToVector(handles[i])) \in T
    PROVE  InsertAll(b, handles) \in T
<1> DEFINE n == Len(handles)
<1>1. n \in Nat
  OBVIOUS
<1>2. PICK g : IsFilling(g, b, handles)
  BY InsertAllSteps
<1>3. g[0] \in T /\ InsertAll(b, handles) = g[n]
  BY <1>2 DEF IsFilling
<1>4. \A k \in 1 .. n : g[k - 1] \in T => g[k] \in T
  BY <1>2 DEF IsFilling
<1> HIDE DEF n
<1>5. \A k \in 0 .. n : g[k] \in T
  BY <1>1, <1>3, <1>4, LoopKeeps
<1> QED BY <1>1, <1>3, <1>5

--------------------------------------------------------------------------------
(***************************************************************************)
(* A circuit and its columns.                                              *)
(***************************************************************************)
Matrices(c) == [Rows(c) -> [0 .. c.cols - 1 -> Scalars]]

LEMMA CircuitFacts ==
    ASSUME NEW c \in Circuits
    PROVE  /\ c.a \in Matrices(c) /\ c.b \in Matrices(c) /\ c.c \in Matrices(c)
           /\ c.rows \in Nat /\ c.cols \in Nat /\ c.inputs \in 1 .. c.cols
           /\ c.instance \in [Instance(c) -> Scalars]
           /\ DomainSize(c) \in DomainSizes /\ c.rows + c.inputs <= DomainSize(c)
           /\ DomainSize(c) \in Nat \ {0}
           /\ Rows(c) \subseteq Domain(DomainSize(c)) /\ IsFiniteSet(Rows(c))
           /\ IsFiniteSet(Domain(DomainSize(c))) /\ IsFiniteSet(Instance(c))
<1>1. /\ {c.a, c.b, c.c} \subseteq Matrices(c)
      /\ c.rows \in Nat /\ c.cols \in Nat /\ c.inputs \in 1 .. c.cols
      /\ c.instance \in [Instance(c) -> Scalars]
      /\ \E n \in DomainSizes : c.rows + c.inputs <= n
  BY CircuitsAssumption DEF Matrices, Rows, Instance
<1> DEFINE Fits == {n \in DomainSizes : c.rows + c.inputs <= n}
           Right(n) == /\ c.rows + c.inputs <= n
                       /\ \A m \in DomainSizes : c.rows + c.inputs <= m => n <= m
<1>2. \A n \in DomainSizes : n \in Nat \ {0}
  BY RootsAssumption
<1>3. \E n \in DomainSizes : Right(n)
  <2>1. PICK n \in Fits : \A m \in Fits : ~ (m < n)
    BY <1>1, <1>2, LeastNatural
  <2> QED BY <1>2, <2>1
<1>4. DomainSize(c) \in DomainSizes /\ Right(DomainSize(c))
  BY <1>3 DEF DomainSize
<1> HIDE DEF Right
<1>5. c.rows + c.inputs <= DomainSize(c) /\ DomainSize(c) \in Nat \ {0}
  BY <1>2, <1>4 DEF Right
<1>6. Rows(c) \subseteq Domain(DomainSize(c))
  BY <1>1, <1>5 DEF Rows, Domain
<1>7. \A n \in Nat : IsFiniteSet(0 .. n - 1)
  BY FS_Interval
<1>8. c.inputs \in Nat
  BY <1>1
<1>9. /\ IsFiniteSet(Rows(c)) /\ IsFiniteSet(Instance(c))
      /\ IsFiniteSet(Domain(DomainSize(c)))
  BY <1>1, <1>5, <1>7, <1>8 DEF Rows, Instance, Domain
<1> QED BY <1>1, <1>4, <1>5, <1>6, <1>9

LEMMA PolynomialType ==
    ASSUME NEW c \in Circuits, NEW m \in Matrices(c), NEW j \in 0 .. c.cols - 1,
           NEW r \in Scalars
    PROVE  PolynomialAt(c, m, j, r) \in Scalars
<1> DEFINE n == DomainSize(c)
           v == [k \in Domain(n) |-> IF k \in Rows(c) THEN m[k][j] ELSE Zero]
           f == [i \in Domain(n) |-> Coefficient(n, v, i) \otimes Power(r, i)]
<1>1. n \in DomainSizes /\ IsFiniteSet(Domain(n)) /\ n \in Nat \ {0}
  BY CircuitFacts
<1>2. v \in [Domain(n) -> Scalars]
  <2>1. \A k \in Rows(c) : m[k][j] \in Scalars
    BY DEF Matrices
  <2> QED BY <2>1, Closure
<1> HIDE DEF v, n
<1>3. \A i \in Domain(n) : Coefficient(n, v, i) \in Scalars /\ Power(r, i) \in Scalars
  BY <1>1, <1>2, CoefficientType, PowerType DEF Domain
<1>4. f \in [Domain(n) -> Scalars]
  BY <1>3, MinusType
<1> HIDE DEF f
<1>5. Total(f) \in Scalars
  BY <1>1, <1>4, TotalType
<1> QED BY <1>5 DEF PolynomialAt, f, v, n

LEMMA PublicAtType ==
    ASSUME NEW c \in Circuits, NEW m \in Matrices(c), NEW r \in Scalars
    PROVE  PublicAt(c, m, r) \in Scalars
<1> DEFINE f == [i \in Instance(c) |-> PolynomialAt(c, m, i, r) \otimes c.instance[i]]
<1>1. \A i \in Instance(c) : i \in 0 .. c.cols - 1 /\ c.instance[i] \in Scalars
  BY CircuitFacts DEF Instance
<1>2. f \in [Instance(c) -> Scalars]
  BY <1>1, PolynomialType, MinusType
<1> HIDE DEF f
<1>3. Total(f) \in Scalars
  BY <1>2, CircuitFacts, TotalType
<1> QED BY <1>3 DEF PublicAt, f

LEMMA EvaluateColumnType ==
    ASSUME NEW c \in Circuits, NEW m \in Matrices(c), NEW j \in 0 .. c.cols - 1,
           NEW r \in Scalars
    PROVE  EvaluateColumn(c, m, j, r) \in Scalars
<1> DEFINE n == DomainSize(c)
           s == Support(Column(m, j))
           hit == {k \in s : r = Element(n, k)}
           f == [k \in hit |-> m[k][j]]
           g == [k \in s |-> m[k][j] \otimes Lagrange(n, k, r)]
<1>1. n \in DomainSizes /\ Rows(c) \subseteq Domain(n) /\ IsFiniteSet(Rows(c))
  BY CircuitFacts
<1>2. s \subseteq Rows(c)
  BY DEF Support, Column, Matrices
<1>3. \A k \in Rows(c) : m[k][j] \in Scalars
  BY DEF Matrices
<1>4. IsFiniteSet(s) /\ IsFiniteSet(hit)
  <2> HIDE DEF s
  <2> QED BY <1>1, <1>2, FS_Subset
<1> HIDE DEF n, s
<1>5. EvaluateColumn(c, m, j, r) = IF hit # {} THEN Total(f) ELSE Total(g)
  BY DEF EvaluateColumn, n, s
<1>6. CASE hit # {}
  <2>1. f \in [hit -> Scalars]
    BY <1>2, <1>3
  <2> HIDE DEF f, hit
  <2>2. Total(f) \in Scalars
    BY <1>4, <2>1, TotalType
  <2> QED BY <1>5, <1>6, <2>2
<1>7. CASE hit = {}
  <2>1. \A k \in s : Lagrange(n, k, r) \in Scalars
    BY <1>1, <1>2, <1>7, LagrangeType
  <2>2. g \in [s -> Scalars]
    BY <1>2, <1>3, <2>1, MinusType
  <2> HIDE DEF f, g, hit
  <2>3. Total(g) \in Scalars
    BY <1>4, <2>2, TotalType
  <2> QED BY <1>5, <1>7, <2>3
<1> QED BY <1>6, <1>7

--------------------------------------------------------------------------------
(***************************************************************************)
(* What the result says of the structure of the matrices.                  *)
(***************************************************************************)
LEMMA CoefficientAt ==
    ASSUME NEW c \in Circuits, NEW m \in Matrices(c), NEW js, NEW k \in Rows(c),
           NEW j \in js, k \notin SupportOf(m, js)
    PROVE  m[k][j] = Zero
<1>1. DOMAIN m = Rows(c)
  BY DEF Matrices
<1>2. k \notin Support(Column(m, j))
  BY DEF SupportOf
<1> QED BY <1>1, <1>2 DEF Support, Column

\* IsLinear and IsUnmixed leave no product of a public input with anything but the constant.
LEMMA SafeStructure ==
    ASSUME circuit \in Circuits
    PROVE  SafeIsAffine
<1> DEFINE Pub == Public(circuit)
           Wit == Witness(circuit)
           A == circuit.a
           B == circuit.b
<1> SUFFICES ASSUME IsLinear(circuit), IsUnmixed(circuit),
                    NEW k \in Rows(circuit), NEW i \in Pub, NEW j \in 1 .. circuit.cols - 1
             PROVE  ProductCoefficient(k, i, j) = Zero
  BY DEF SafeIsAffine, Result, FullySafe
<1>1. /\ A \in Matrices(circuit) /\ B \in Matrices(circuit)
      /\ circuit.cols \in Nat /\ circuit.inputs \in 1 .. circuit.cols
  BY CircuitFacts
<1>2. j \in Pub \/ j \in Wit
  BY <1>1 DEF Public, Witness
<1>3. i \in 0 .. circuit.cols - 1 /\ j \in 0 .. circuit.cols - 1
  BY <1>1 DEF Public
<1> HIDE DEF Pub, Wit, A, B
<1>4. \A l \in 0 .. circuit.cols - 1 : A[k][l] \in Scalars /\ B[k][l] \in Scalars
  BY <1>1 DEF Matrices
<1>5. ASSUME NEW x \in Scalars
      PROVE  x \otimes Zero = Zero /\ Zero \otimes x = Zero
  BY TimesZero DEF \otimes
<1>6. Zero \oplus Zero = Zero
  BY PlusZero, Closure DEF \oplus
<1>7. ProductCoefficient(k, i, j) =
        IF i = j THEN A[k][i] \otimes B[k][i]
        ELSE (A[k][i] \otimes B[k][j]) \oplus (A[k][j] \otimes B[k][i])
  BY DEF ProductCoefficient, A, B
<1>8. IsLinear(circuit) => SupportOf(A, Pub) = {} \/ SupportOf(B, Pub) = {}
  BY DEF IsLinear, A, B, Pub
<1>9. /\ SupportOf(B, Pub) \cap SupportOf(A, Wit) = {}
      /\ SupportOf(A, Pub) \cap SupportOf(B, Wit) = {}
  BY DEF IsUnmixed, A, B, Pub, Wit
<1>10. CASE SupportOf(A, Pub) = {}
  <2>1. \A l \in Pub : A[k][l] = Zero
    BY <1>1, <1>10, CoefficientAt
  <2>2. A[k][j] = Zero \/ B[k][i] = Zero
    <3>1. CASE j \in Pub
      BY <2>1, <3>1
    <3>2. CASE j \in Wit
      <4>1. k \notin SupportOf(B, Pub) \/ k \notin SupportOf(A, Wit)
        BY <1>9
      <4> QED BY <1>1, <3>2, <4>1, CoefficientAt
    <3> QED BY <1>2, <3>1, <3>2
  <2> QED BY <1>3, <1>4, <1>5, <1>6, <1>7, <2>1, <2>2
<1>11. CASE SupportOf(B, Pub) = {}
  <2>1. \A l \in Pub : B[k][l] = Zero
    BY <1>1, <1>11, CoefficientAt
  <2>2. A[k][i] = Zero \/ B[k][j] = Zero
    <3>1. CASE j \in Pub
      BY <2>1, <3>1
    <3>2. CASE j \in Wit
      <4>1. k \notin SupportOf(A, Pub) \/ k \notin SupportOf(B, Wit)
        BY <1>9
      <4> QED BY <1>1, <3>2, <4>1, CoefficientAt
    <3> QED BY <1>2, <3>1, <3>2
  <2> QED BY <1>3, <1>4, <1>5, <1>6, <1>7, <2>1, <2>2
<1> QED BY <1>8, <1>10, <1>11

\* A matrix whose public and witness columns share no row is separated before any elimination.
StructureInv ==
    /\ circuit \in Circuits /\ matrix \in {"a", "b", "c"}
    /\ PublicOnlyInC(circuit) => \A m \in DOMAIN separated : separated[m] = TRUE

LEMMA StructureDisjoint ==
    ASSUME matrix \in {"a", "b", "c"}, PublicOnlyInC(circuit)
    PROVE  Disjoint
<1>1. CASE matrix = "a"
  BY <1>1 DEF PublicOnlyInC, Disjoint, Current
<1>2. CASE matrix = "b"
  BY <1>2 DEF PublicOnlyInC, Disjoint, Current
<1>3. CASE matrix = "c"
  BY <1>3 DEF PublicOnlyInC, Disjoint, Current
<1> QED BY <1>1, <1>2, <1>3

LEMMA StructureInit == Init => StructureInv
BY DEF Init, StructureInv

LEMMA StructureStep == StructureInv /\ [Next]_vars => StructureInv'
<1> SUFFICES ASSUME StructureInv, [Next]_vars PROVE StructureInv'
  OBVIOUS
<1>1. CASE TriviallySeparated
  <2>1. /\ circuit' = circuit /\ matrix' \in {"a", "b", "c"}
        /\ separated' = [m \in DOMAIN separated \cup {matrix} |->
                            IF m = matrix THEN TRUE ELSE separated[m]]
    BY <1>1 DEF TriviallySeparated, SpanVerdict, StructureInv
  <2>2. PublicOnlyInC(circuit)' <=> PublicOnlyInC(circuit)
    BY <2>1
  <2> QED BY <2>1, <2>2 DEF StructureInv
<1>2. CASE CompareRanks
  <2>1. circuit' = circuit /\ matrix' \in {"a", "b", "c"} /\ ~ Disjoint
    BY <1>2 DEF CompareRanks, SpanVerdict, StructureInv
  <2>2. ~ PublicOnlyInC(circuit)
    BY <2>1, StructureDisjoint DEF StructureInv
  <2>3. PublicOnlyInC(circuit)' <=> PublicOnlyInC(circuit)
    BY <2>1
  <2> QED BY <2>1, <2>2, <2>3 DEF StructureInv
<1>3. CASE UNCHANGED <<circuit, matrix, separated>>
  BY <1>3 DEF StructureInv
<1>4. CASE InsertWitness
  BY <1>3, <1>4 DEF InsertWitness
<1>5. CASE ReducePublic
  BY <1>3, <1>5 DEF ReducePublic
<1>6. CASE \E r \in Points : StartCheck(r)
  BY <1>3, <1>6 DEF StartCheck
<1>7. CASE AddHandles
  BY <1>3, <1>7 DEF AddHandles
<1>8. CASE FinishCheck
  BY <1>3, <1>8 DEF FinishCheck
<1>9. CASE UNCHANGED vars
  BY <1>3, <1>9 DEF vars
<1> QED BY <1>1, <1>2, <1>4, <1>5, <1>6, <1>7, <1>8, <1>9 DEF Next

\* Unless the result is "unsafe", no row multiplies a public input by anything but the
\* constant.
THEOREM SafeAlwaysAffine == Spec => []SafeIsAffine
<1>1. StructureInv => SafeIsAffine
  BY SafeStructure DEF StructureInv
<1> QED BY <1>1, StructureInit, StructureStep, PTL DEF Spec

\* A circuit that passes the structural test and the independence checks is reported secure.
THEOREM StructureAlwaysSuffices == Spec => []StructureSuffices
<1>1. StructureInv => StructureSuffices
  <2> SUFFICES ASSUME StructureInv, PublicOnlyInC(circuit), safe PROVE Result = "secure"
    BY DEF StructureSuffices
  <2>1. SupportOf(circuit.a, Public(circuit)) = {} /\ SupportOf(circuit.b, Public(circuit)) = {}
    BY DEF PublicOnlyInC
  <2>2. IsLinear(circuit) /\ IsUnmixed(circuit)
    BY <2>1 DEF IsLinear, IsUnmixed
  <2>3. NoPublicOverlap(circuit)
    <3>1. \A i \in Public(circuit) : Support(Column(circuit.a, i)) = {}
      BY <2>1 DEF SupportOf
    <3> QED BY <3>1 DEF NoPublicOverlap
  <2>4. \A m \in DOMAIN separated : separated[m]
    BY DEF StructureInv
  <2> QED BY <2>2, <2>3, <2>4 DEF Result, FullySafe
<1> QED BY <1>1, StructureInit, StructureStep, PTL DEF Spec

--------------------------------------------------------------------------------
(***************************************************************************)
(* The handles.  Four monomials are the target's own; every handle but the *)
(* last three is clear of them, and a basis of clear vectors stays clear.  *)
(***************************************************************************)
Own == {"AlphaBetaDelta", "BetaDeltaUPub", "AlphaDeltaVPub", "DeltaWPub"}
Places == DOMAIN Monomials
Free == Places \ {1, 2, 4, 6}
Clears == {u \in [Places -> Scalars] :
              u[1] = Zero /\ u[2] = Zero /\ u[4] = Zero /\ u[6] = Zero}
ClearBases == Bases(Free, Clears)
IsClear(h) == DOMAIN h \cap Own = {} /\ \A name \in DOMAIN h : h[name] \in Scalars

LEMMA MonomialPlaces ==
    /\ Places = 1 .. 24
    /\ Monomials[1] = "AlphaBetaDelta" /\ Monomials[2] = "BetaDeltaUPub"
    /\ Monomials[4] = "AlphaDeltaVPub" /\ Monomials[6] = "DeltaWPub"
    /\ \A i \in Free : Monomials[i] \notin Own
BY DEF Monomials, Places, Free, Own

LEMMA ClearVector ==
    ASSUME NEW h, IsClear(h)
    PROVE  ToVector(h) \in Clears
<1>1. \A i \in Places : ToVector(h)[i] \in Scalars
  BY Closure DEF ToVector, IsClear, Places
<1>2. ToVector(h) \in [Places -> Scalars]
  BY <1>1 DEF ToVector, Places
<1>3. \A i \in {1, 2, 4, 6} : i \in Places /\ Monomials[i] \in Own
  BY MonomialPlaces DEF Own
<1>4. \A i \in {1, 2, 4, 6} : ToVector(h)[i] = Zero
  BY <1>3 DEF ToVector, IsClear, Places
<1> QED BY <1>2, <1>4 DEF Clears

LEMMA EliminateType ==
    ASSUME NEW D, NEW u \in [D -> Scalars], NEW w \in [D -> Scalars], NEW t \in Scalars
    PROVE  /\ Eliminate(u, t, w) \in [D -> Scalars]
           /\ \A k \in D : Eliminate(u, t, w)[k] = u[k] \ominus (t \otimes w[k])
BY MinusType DEF Eliminate

\* Eliminating nothing changes nothing.
LEMMA EliminateNothing ==
    ASSUME NEW D, NEW u \in [D -> Scalars], NEW w \in [D -> Scalars]
    PROVE  Eliminate(u, Zero, w) = u
<1>0. Zero \in Scalars
  BY Closure
<1>1. \A k \in D : Eliminate(u, Zero, w)[k] = u[k]
  <2> TAKE k \in D
  <2>1. Eliminate(u, Zero, w)[k] = u[k] \ominus (Zero \otimes w[k])
    BY DEF Eliminate
  <2>2. u[k] \in Scalars /\ w[k] \in Scalars
    OBVIOUS
  <2>3. Zero \otimes w[k] = Zero /\ u[k] \ominus Zero = u[k]
    BY <2>2, ZeroLaws
  <2> QED BY <2>1, <2>3
<1>2. Eliminate(u, Zero, w) \in [D -> Scalars]
  BY <1>0, EliminateType
<1> QED BY <1>1, <1>2

\* Vectors over finitely many places, all of them or the clear ones.
LEMMA AllClosed ==
    ASSUME NEW D \in SUBSET Nat, IsFiniteSet(D)
    PROVE  Closed(D, D, [D -> Scalars])
<1>1. \A u \in [D -> Scalars] : Support(u) \subseteq D
  BY DEF Support
<1> QED BY <1>1, EliminateType, MinusType DEF Closed

LEMMA ClearClosed == Closed(Places, Free, Clears)
<1>1. Places = 1 .. 24 /\ IsFiniteSet(Places)
  <2>1. IsFiniteSet(1 .. 24)
    BY 1 \in Int, 24 \in Int, FS_Interval
  <2> QED BY <2>1, MonomialPlaces
<1>2. ASSUME NEW u \in Clears, NEW w \in Clears, NEW t \in Scalars
      PROVE  Eliminate(u, t, w) \in Clears
  <2>1. /\ Eliminate(u, t, w) \in [Places -> Scalars]
        /\ \A k \in Places : Eliminate(u, t, w)[k] = u[k] \ominus (t \otimes w[k])
    <3>1. u \in [Places -> Scalars] /\ w \in [Places -> Scalars]
      BY DEF Clears
    <3>2. Eliminate(u, t, w) = [k \in Places |-> u[k] \ominus (t \otimes w[k])]
      BY <3>1 DEF Eliminate
    <3>3. \A k \in Places : u[k] \ominus (t \otimes w[k]) \in Scalars
      BY <3>1, MinusType
    <3> QED BY <3>2, <3>3
  <2>2. \A k \in {1, 2, 4, 6} : k \in Places /\ u[k] = Zero /\ w[k] = Zero
    BY <1>1 DEF Clears
  <2>3. \A k \in {1, 2, 4, 6} : Eliminate(u, t, w)[k] = Zero
    BY <2>1, <2>2, ZeroLaws, Closure
  <2> QED BY <2>1, <2>3 DEF Clears
<1>3. ASSUME NEW u \in Clears PROVE Support(u) \subseteq Free
  BY DEF Clears, Support, Free
<1>4. ASSUME NEW u \in Clears, NEW t \in Scalars
      PROVE  [k \in Places |-> u[k] \otimes t] \in Clears
  <2>1. \A k \in Places : u[k] \otimes t \in Scalars
    BY MinusType DEF Clears
  <2>2. \A k \in {1, 2, 4, 6} : k \in Places /\ u[k] \otimes t = Zero
    BY <1>1, ZeroLaws DEF Clears
  <2> QED BY <2>1, <2>2 DEF Clears
<1> QED BY <1>1, <1>2, <1>3, <1>4 DEF Closed, Free, Clears

LEMMA ClearRaw ==
    ASSUME NEW c, NEW k, NEW v \in Scalars
    PROVE  /\ Len(RawHandles(c, k, v)) = 3
           /\ \E S : /\ RawHandles(c, k, v) \in Seq(S)
                     /\ \A h \in S : IsClear(h)
<1> DEFINE h1 == IF k \in Witness(c) THEN [DeltaSqVWit |-> v] ELSE [DeltaSqVPub |-> v]
           h2 == [BetaV |-> v]
           h3 == [PureVV |-> v]
           S == {h1, h2, h3}
<1>1. RawHandles(c, k, v) = <<h1, h2, h3>>
  BY DEF RawHandles
<1>2. IsClear(h1)
  BY DEF IsClear, Own
<1>3. IsClear(h2) /\ IsClear(h3)
  BY DEF IsClear, Own
<1> HIDE DEF h1, h2, h3
<1>4. RawHandles(c, k, v) \in Seq(S) /\ Len(RawHandles(c, k, v)) = 3
  BY <1>1
<1>5. \A h \in S : IsClear(h)
  BY <1>2, <1>3
<1> QED BY <1>4, <1>5

LEMMA ClearWitness ==
    ASSUME NEW u \in Scalars, NEW v \in Scalars, NEW w \in Scalars, NEW e \in Scalars
    PROVE  \E S : /\ WitnessHandles(u, v, w, e) \in Seq(S)
                  /\ \A h \in S : IsClear(h)
<1> DEFINE ue == u \otimes e
           ve == v \otimes e
           we == w \otimes e
           h1 == [BetaDeltaUWit |-> u, DeltaUV |-> ue]
           h2 == [DeltaSqUWit |-> u]
           h3 == [DeltaPureUV |-> u]
           h4 == [BetaSqU |-> u, BetaU |-> ue, AlphaBetaV |-> v, AlphaV |-> ve,
                  BetaW |-> w, W |-> we]
           h5 == [BetaDeltaUWit |-> u, AlphaDeltaVWit |-> v, DeltaWWit |-> w]
           h6 == [BetaUV |-> u, AlphaVV |-> v, WV |-> w]
           S == {h1, h2, h3, h4, h5, h6}
<1>1. WitnessHandles(u, v, w, e) = <<h1, h2, h3, h4, h5, h6>>
  BY DEF WitnessHandles
<1>2. ue \in Scalars /\ ve \in Scalars /\ we \in Scalars
  BY MinusType
<1> HIDE DEF ue, ve, we
<1>3. IsClear(h1) /\ IsClear(h2)
  BY <1>2 DEF IsClear, Own
<1>4. IsClear(h3) /\ IsClear(h4)
  BY <1>2 DEF IsClear, Own
<1>5. IsClear(h5) /\ IsClear(h6)
  BY <1>2 DEF IsClear, Own
<1> HIDE DEF h1, h2, h3, h4, h5, h6
<1>6. WitnessHandles(u, v, w, e) \in Seq(S)
  BY <1>1
<1>7. \A h \in S : IsClear(h)
  BY <1>3, <1>4, <1>5
<1> QED BY <1>6, <1>7

LEMMA ClearInsert ==
    ASSUME NEW b \in ClearBases, NEW S, NEW handles \in Seq(S), \A h \in S : IsClear(h)
    PROVE  InsertAll(b, handles) \in ClearBases
<1>1. Len(handles) \in Nat /\ \A i \in 1 .. Len(handles) : handles[i] \in S
  BY LenProperties
<1>2. \A c \in ClearBases, i \in 1 .. Len(handles) :
         Insert(c, ToVector(handles[i])) \in ClearBases
  <2> TAKE c \in ClearBases, i \in 1 .. Len(handles)
  <2>1. ToVector(handles[i]) \in Clears
    BY <1>1, ClearVector
  <2> QED BY <2>1, ClearClosed, ClosedInsert DEF ClearBases
<1> QED BY <1>1, <1>2, InsertAllKeeps

--------------------------------------------------------------------------------
(***************************************************************************)
(* The handles of alpha, and what is left of the target.                   *)
(***************************************************************************)
\* A vector over the target's own monomials.
OwnVector(x, u, v, w) ==
    [i \in Places |-> IF i = 1 THEN x ELSE IF i = 2 THEN u
                      ELSE IF i = 4 THEN v ELSE IF i = 6 THEN w ELSE Zero]

\* Bases with alpha's handle at the first place and clear vectors elsewhere.
AlphaBases(v) ==
    {b \in Bases(Free \cup {1}, [Places -> Scalars]) :
        /\ 1 \in DOMAIN b /\ b[1] = OwnVector(One, Zero, v, Zero)
        /\ \A p \in DOMAIN b : p # 1 => b[p] \in Clears}

LEMMA OwnVectorType ==
    ASSUME NEW x \in Scalars, NEW u \in Scalars, NEW v \in Scalars, NEW w \in Scalars
    PROVE  /\ OwnVector(x, u, v, w) \in [Places -> Scalars]
           /\ \A p \in Free : p \in Places /\ OwnVector(x, u, v, w)[p] = Zero
           /\ OwnVector(x, u, v, w)[1] = x /\ OwnVector(x, u, v, w)[2] = u
           /\ OwnVector(x, u, v, w)[4] = v /\ OwnVector(x, u, v, w)[6] = w
<1>1. \A i \in {1, 2, 4, 6} : i \in Places
  BY MonomialPlaces
<1>2. OwnVector(x, u, v, w) \in [Places -> Scalars]
  BY Closure DEF OwnVector
<1> QED BY <1>1, <1>2 DEF OwnVector, Free

LEMMA PlacesFinite == IsFiniteSet(Places) /\ Places \subseteq Nat /\ Closed(Places, Places, [Places -> Scalars])
<1>1. IsFiniteSet(Places)
  BY ClearClosed DEF Closed
<1>2. Places \subseteq Nat
  BY MonomialPlaces
<1> QED BY <1>1, <1>2, AllClosed

\* Alpha's bundled handle goes into a clear basis as it is, with the first place as pivot.
LEMMA AlphaFirst ==
    ASSUME NEW b \in ClearBases, NEW v \in Scalars
    PROVE  Insert(b, OwnVector(One, Zero, v, Zero)) \in AlphaBases(v)
<1> DEFINE e == OwnVector(One, Zero, v, Zero)
<1>1. /\ e \in [Places -> Scalars] /\ e[1] = One
      /\ \A p \in Free : p \in Places /\ e[p] = Zero
  BY OwnVectorType, Closure
<1>2. DOMAIN b \subseteq Free /\ \A p \in DOMAIN b : b[p] \in Clears
  BY BasesAre DEF ClearBases
<1> HIDE DEF e
<1>3. Reduce(b, e) = e
  <2> DEFINE T == {e}
  <2>1. \A u \in T, p \in DOMAIN b : Eliminate(u, u[p], b[p]) \in T
    <3> TAKE u \in T, p \in DOMAIN b
    <3>1. b[p] \in [Places -> Scalars] /\ e[p] = Zero /\ u = e
      BY <1>1, <1>2 DEF Clears
    <3>2. Eliminate(e, Zero, b[p]) = e
      BY <1>1, <3>1, EliminateNothing
    <3> QED BY <3>1, <3>2
  <2>2. IsFiniteSet(DOMAIN e) /\ e \in T
    BY <1>1, PlacesFinite
  <2> HIDE DEF T
  <2>3. Reduce(b, e) \in T
    BY <2>1, <2>2, ReduceKeeps
  <2> QED BY <2>3 DEF T
<1>4. 1 \in Support(e) /\ Support(e) \subseteq Places
  <2>1. 1 \in DOMAIN e /\ DOMAIN e = Places
    BY <1>1, MonomialPlaces
  <2> QED BY <1>1, <2>1, FieldAssumption DEF Support
<1>5. Least(Support(e)) = 1
  <2>1. Support(e) \subseteq 1 .. 24 /\ Support(e) \in SUBSET Nat
    BY <1>4, MonomialPlaces
  <2>2. Least(Support(e)) \in Support(e) /\ Least(Support(e)) <= 1
    BY <1>4, <2>1, LeastOf
  <2> QED BY <2>1, <2>2
<1>6. Normalized(e) = e
  <2>1. Normalized(e) = [k \in Places |-> e[k] \otimes One]
    BY <1>1, <1>5, UnitReciprocal DEF Normalized
  <2>2. \A k \in Places : e[k] \otimes One = e[k]
    BY <1>1, ZeroLaws
  <2> QED BY <1>1, <2>1, <2>2
<1>7. 1 \notin DOMAIN b
  BY <1>2 DEF Free
<1> DEFINE c == [p \in DOMAIN b \cup {1} |-> IF p \in DOMAIN b THEN b[p] ELSE e]
<1>8. Insert(b, e) = c
  BY <1>3, <1>4, <1>5, <1>6 DEF Insert
<1>9. c[1] = e /\ \A p \in DOMAIN c : p # 1 => c[p] \in Clears
  BY <1>2, <1>7
<1>10. c \in Bases(Free \cup {1}, [Places -> Scalars])
  <2>1. DOMAIN c \subseteq Free \cup {1} /\ \A p \in DOMAIN c : c[p] \in [Places -> Scalars]
    BY <1>1, <1>2, <1>7 DEF Clears
  <2>2. c = [p \in DOMAIN c |-> c[p]]
    OBVIOUS
  <2> HIDE DEF c
  <2> QED BY <2>1, <2>2, BasesAre
<1>11. 1 \in DOMAIN c
  OBVIOUS
<1> HIDE DEF c
<1>12. c \in AlphaBases(v)
  BY <1>9, <1>10, <1>11 DEF AlphaBases, e
<1> QED BY <1>8, <1>12 DEF e

\* The other handles leave it there.
LEMMA AlphaNext ==
    ASSUME NEW v \in Scalars, NEW b \in AlphaBases(v), NEW u \in Clears
    PROVE  Insert(b, u) \in AlphaBases(v)
<1> DEFINE r == Reduce(b, u)
           n == Normalized(r)
           new == Least(Support(r))
<1>1. /\ DOMAIN b \subseteq Free \cup {1} /\ 1 \in DOMAIN b
      /\ b[1] = OwnVector(One, Zero, v, Zero)
      /\ \A p \in DOMAIN b : p # 1 => b[p] \in Clears
      /\ \A p \in DOMAIN b : b[p] \in [Places -> Scalars]
  BY BasesAre DEF AlphaBases
<1>2. r \in Clears
  <2>1. ASSUME NEW x \in Clears, NEW p \in DOMAIN b
        PROVE  Eliminate(x, x[p], b[p]) \in Clears
    <3>1. x \in [Places -> Scalars] /\ x[1] = Zero
      BY DEF Clears
    <3>2. CASE p = 1
      BY <1>1, <3>1, <3>2, EliminateNothing
    <3>3. CASE p # 1
      <4>1. p \in Places /\ b[p] \in Clears
        BY <1>1, <3>3 DEF Free
      <4> QED BY <3>1, <4>1, ClearClosed DEF Closed
    <3> QED BY <3>2, <3>3
  <2>2. IsFiniteSet(DOMAIN u)
    BY PlacesFinite DEF Clears
  <2> QED BY <2>1, <2>2, ReduceKeeps
<1> HIDE DEF r
<1>3. CASE Support(r) = {}
  BY <1>3 DEF Insert, r
<1>4. CASE Support(r) # {}
  <2>1. n \in Clears /\ new \in Free
    BY <1>2, <1>4, ClearClosed, ClosedNormalized
  <2>2. Insert(b, u) = [p \in DOMAIN b \cup {new} |-> IF p \in DOMAIN b THEN b[p] ELSE n]
    BY <1>4 DEF Insert, r
  <2> HIDE DEF n, new
  <2> DEFINE c == [p \in DOMAIN b \cup {new} |-> IF p \in DOMAIN b THEN b[p] ELSE n]
  <2>3. /\ DOMAIN c \subseteq Free \cup {1}
        /\ \A p \in DOMAIN c : c[p] \in [Places -> Scalars]
        /\ \A p \in DOMAIN c : p # 1 => c[p] \in Clears
        /\ 1 \in DOMAIN c /\ c[1] = b[1] /\ c = [p \in DOMAIN c |-> c[p]]
    BY <1>1, <2>1 DEF Clears
  <2> HIDE DEF c
  <2>4. c \in Bases(Free \cup {1}, [Places -> Scalars])
    BY <2>3, BasesAre
  <2>5. c \in AlphaBases(v)
    BY <1>1, <2>3, <2>4 DEF AlphaBases
  <2> QED BY <2>2, <2>5 DEF c
<1> QED BY <1>3, <1>4

LEMMA AlphaVectors ==
    ASSUME NEW v \in Scalars
    PROVE  /\ Len(AlphaHandles(v)) = 3
           /\ ToVector(AlphaHandles(v)[1]) = OwnVector(One, Zero, v, Zero)
           /\ ToVector(AlphaHandles(v)[2]) \in Clears
           /\ ToVector(AlphaHandles(v)[3]) \in Clears
<1> DEFINE h1 == [AlphaBetaDelta |-> One, AlphaDeltaVPub |-> v]
           h2 == [AlphaDeltaVWit |-> One]
           h3 == [AlphaDeltaSq |-> One]
<1>1. AlphaHandles(v) = <<h1, h2, h3>>
  BY DEF AlphaHandles
<1>2. IsClear(h2) /\ IsClear(h3)
  BY Closure DEF IsClear, Own
<1>3. /\ DOMAIN h1 = {"AlphaBetaDelta", "AlphaDeltaVPub"}
      /\ h1["AlphaBetaDelta"] = One /\ h1["AlphaDeltaVPub"] = v
  OBVIOUS
<1> HIDE DEF h1, h2, h3
<1>4. \A i \in Places : ToVector(h1)[i] = OwnVector(One, Zero, v, Zero)[i]
  <2> TAKE i \in Places
  <2>1. /\ ToVector(h1)[i] = IF Monomials[i] \in DOMAIN h1 THEN h1[Monomials[i]] ELSE Zero
        /\ OwnVector(One, Zero, v, Zero)[i]
             = IF i = 1 THEN One ELSE IF i = 4 THEN v ELSE Zero
    BY DEF ToVector, OwnVector, Places
  <2>2. i \in Free \/ i = 1 \/ i = 2 \/ i = 4 \/ i = 6
    BY DEF Free
  <2> QED BY <1>3, <2>1, <2>2, MonomialPlaces DEF Own, Free
<1>5. ToVector(h1) = OwnVector(One, Zero, v, Zero)
  BY <1>4 DEF ToVector, OwnVector, Places
<1>6. ToVector(h2) \in Clears /\ ToVector(h3) \in Clears
  BY <1>2, ClearVector
<1> QED BY <1>1, <1>5, <1>6

LEMMA AlphaAll ==
    ASSUME NEW v \in Scalars, NEW b \in ClearBases
    PROVE  InsertAll(b, AlphaHandles(v)) \in AlphaBases(v)
<1> DEFINE T == Bases(Places, [Places -> Scalars])
           hs == AlphaHandles(v)
<1>1. b \in T
  <2>1. DOMAIN b \subseteq Free /\ b = [p \in DOMAIN b |-> b[p]]
        /\ \A p \in DOMAIN b : b[p] \in Clears
    BY BasesAre DEF ClearBases
  <2>2. DOMAIN b \subseteq Places /\ \A p \in DOMAIN b : b[p] \in [Places -> Scalars]
    BY <2>1 DEF Free, Clears
  <2> QED BY <2>1, <2>2, BasesAre
<1>2. \A i \in 1 .. Len(hs) : ToVector(hs[i]) \in [Places -> Scalars]
  <2>1. OwnVector(One, Zero, v, Zero) \in [Places -> Scalars]
    BY OwnVectorType, Closure
  <2>2. \A x \in Clears : x \in [Places -> Scalars]
    BY DEF Clears
  <2>3. \A i \in 1 .. 3 : i = 1 \/ i = 2 \/ i = 3
    OBVIOUS
  <2> HIDE DEF hs
  <2>4. /\ Len(hs) = 3 /\ ToVector(hs[1]) = OwnVector(One, Zero, v, Zero)
        /\ ToVector(hs[2]) \in Clears /\ ToVector(hs[3]) \in Clears
    BY AlphaVectors DEF hs
  <2> QED BY <2>1, <2>2, <2>3, <2>4
<1>3. \A c \in T, i \in 1 .. Len(hs) : Insert(c, ToVector(hs[i])) \in T
  BY <1>2, PlacesFinite, ClosedInsert
<1>4. Len(hs) = 3 /\ Len(hs) \in Nat
  BY AlphaVectors
<1> HIDE DEF T, hs
<1>5. PICK g : IsFilling(g, b, hs)
  BY <1>1, <1>3, <1>4, InsertAllSteps
<1>6. /\ g[1] = Insert(b, ToVector(hs[1]))
      /\ g[2] = Insert(g[1], ToVector(hs[2]))
      /\ g[3] = Insert(g[2], ToVector(hs[3]))
      /\ InsertAll(b, hs) = g[3]
  <2>1. \A k \in 1 .. 3 : g[k] = Insert(g[k - 1], ToVector(hs[k]))
    BY <1>4, <1>5 DEF IsFilling
  <2>2. 1 \in 1 .. 3 /\ 2 \in 1 .. 3 /\ 3 \in 1 .. 3 /\ 1 - 1 = 0 /\ 2 - 1 = 1 /\ 3 - 1 = 2
    OBVIOUS
  <2>3. /\ g[1] = Insert(g[1 - 1], ToVector(hs[1])) /\ g[2] = Insert(g[2 - 1], ToVector(hs[2]))
        /\ g[3] = Insert(g[3 - 1], ToVector(hs[3]))
    BY <2>1, <2>2
  <2>4. g[0] = b /\ InsertAll(b, hs) = g[3]
    BY <1>4, <1>5 DEF IsFilling
  <2> QED BY <2>2, <2>3, <2>4
<1>7. g[1] \in AlphaBases(v)
  BY <1>6, AlphaFirst, AlphaVectors DEF hs
<1>8. g[2] \in AlphaBases(v)
  BY <1>6, <1>7, AlphaNext, AlphaVectors DEF hs
<1>9. g[3] \in AlphaBases(v)
  BY <1>6, <1>8, AlphaNext, AlphaVectors DEF hs
<1> QED BY <1>6, <1>9 DEF hs

\* What is left of the target: its parts in A and C.
LEMMA TargetLeft ==
    ASSUME NEW v \in Scalars, NEW b \in AlphaBases(v), NEW u \in Scalars, NEW w \in Scalars
    PROVE  Reduce(b, OwnVector(One, u, v, w)) = OwnVector(Zero, u, Zero, w)
<1> DEFINE t == OwnVector(One, u, v, w)
           left == OwnVector(Zero, u, Zero, w)
           e == OwnVector(One, Zero, v, Zero)
           T == {t, left}
           n == Cardinality(DOMAIN t) + 1
<1>0. Zero \in Scalars /\ One \in Scalars
  BY Closure
<1>1. /\ t \in [Places -> Scalars] /\ t[1] = One
      /\ \A p \in Free : p \in Places /\ t[p] = Zero
  <2> HIDE DEF t, left, e, T, n
  <2>1. OwnVector(One, u, v, w) \in [Places -> Scalars]
    BY <1>0, OwnVectorType
  <2>2. \A p \in Free : p \in Places /\ OwnVector(One, u, v, w)[p] = Zero
    BY <1>0 DEF OwnVector, Free
  <2>3. OwnVector(One, u, v, w)[1] = One
    BY <1>0, MonomialPlaces DEF OwnVector
  <2> QED BY <2>1, <2>2, <2>3 DEF t
<1>2. /\ left \in [Places -> Scalars] /\ left[1] = Zero
      /\ \A p \in Free : left[p] = Zero
  <2> HIDE DEF t, left, e, T, n
  <2>1. OwnVector(Zero, u, Zero, w) \in [Places -> Scalars]
    BY <1>0, OwnVectorType
  <2>2. \A p \in Free : OwnVector(Zero, u, Zero, w)[p] = Zero
    BY <1>0 DEF OwnVector, Free
  <2>3. OwnVector(Zero, u, Zero, w)[1] = Zero
    BY <1>0, MonomialPlaces DEF OwnVector
  <2> QED BY <2>1, <2>2, <2>3 DEF left
<1>3. e \in [Places -> Scalars]
  BY OwnVectorType, Closure
<1>4. /\ DOMAIN b \subseteq Free \cup {1} /\ 1 \in DOMAIN b /\ b[1] = e
      /\ \A p \in DOMAIN b : b[p] \in [Places -> Scalars]
  BY BasesAre DEF AlphaBases
<1>5. Eliminate(t, One, e) = left
  <2>1. \A k \in Places : t[k] \ominus (One \otimes e[k]) = left[k]
    <3> TAKE k \in Places
    <3>1. One \otimes e[k] = e[k]
      BY <1>3, ZeroLaws
    <3>2. /\ t[k] = IF k = 1 THEN One ELSE IF k = 2 THEN u
                    ELSE IF k = 4 THEN v ELSE IF k = 6 THEN w ELSE Zero
          /\ e[k] = IF k = 1 THEN One ELSE IF k = 4 THEN v ELSE Zero
          /\ left[k] = IF k = 2 THEN u ELSE IF k = 6 THEN w ELSE Zero
      BY DEF OwnVector
    <3>3. One \ominus One = Zero /\ v \ominus v = Zero /\ u \ominus Zero = u
          /\ w \ominus Zero = w /\ Zero \ominus Zero = Zero
      BY Closure, ZeroLaws
    <3> HIDE DEF t, e, left
    <3> QED BY <3>1, <3>2, <3>3
  <2> HIDE DEF t, e, left
  <2>2. Eliminate(t, One, e) = [k \in Places |-> t[k] \ominus (One \otimes e[k])]
    BY <1>1 DEF Eliminate
  <2> QED BY <1>2, <2>1, <2>2
<1> HIDE DEF t, left, e
<1>6. \A p \in DOMAIN b : p # 1 => Eliminate(t, t[p], b[p]) = t
  BY <1>1, <1>4, EliminateNothing
<1>7. \A p \in DOMAIN b : Eliminate(left, left[p], b[p]) = left
  <2> TAKE p \in DOMAIN b
  <2>1. left[p] = Zero
    BY <1>2, <1>4
  <2> QED BY <1>2, <1>4, <2>1, EliminateNothing
<1>8. \A x \in T, p \in DOMAIN b : Eliminate(x, x[p], b[p]) \in T
  BY <1>1, <1>4, <1>5, <1>6, <1>7
<1>9. IsFiniteSet(DOMAIN t) /\ t \in T
  BY <1>1, PlacesFinite
<1>10. n \in Nat /\ n >= 2
  <2>1. DOMAIN t # {}
    BY <1>1, MonomialPlaces
  <2>2. Cardinality(DOMAIN t) \in Nat /\ Cardinality(DOMAIN t) # 0
    BY <1>9, <2>1, FS_CardinalityType, FS_EmptySet
  <2> QED BY <2>2
<1> HIDE DEF T
<1>11. PICK g : /\ g[0] = t
                /\ \A k \in 1 .. n : g[k] = Turn(b, g[k - 1], k - 1)
                /\ Reduce(b, t) = g[n]
  BY <1>8, <1>9, ReduceSteps
<1> HIDE DEF n
<1>12. g[1] = t
  <2>1. 0 \notin DOMAIN b
    BY <1>4, MonomialPlaces DEF Free
  <2>2. 1 \in 1 .. n /\ 1 - 1 = 0
    BY <1>10
  <2>3. g[1] = Turn(b, g[0], 0)
    BY <1>11, <2>2
  <2> QED BY <1>11, <2>1, <2>3 DEF Turn
<1>13. g[2] = left
  <2>1. 2 \in 1 .. n /\ 2 - 1 = 1
    BY <1>10
  <2>2. g[2] = Turn(b, g[1], 1)
    BY <1>11, <2>1
  <2> QED BY <1>1, <1>4, <1>5, <1>12, <2>2 DEF Turn
<1> DEFINE m == n - 2
           f == [k \in 0 .. m |-> g[k + 2]]
<1>14. f[0] \in {left} /\ m \in Nat
  BY <1>10, <1>13
<1>15. ASSUME NEW k \in 1 .. m, f[k - 1] \in {left} PROVE f[k] \in {left}
  <2>1. /\ f[k - 1] = g[k + 1] /\ f[k] = g[k + 2] /\ k + 2 \in 1 .. n
        /\ (k + 2) - 1 = k + 1
    BY <1>10
  <2>2. g[k + 2] = Turn(b, g[k + 1], k + 1)
    BY <1>11, <2>1
  <2>3. Turn(b, left, k + 1) = left
    BY <1>7 DEF Turn
  <2> HIDE DEF f
  <2> QED BY <1>15, <2>1, <2>2, <2>3
<1> HIDE DEF f, m
<1> DEFINE L == {left}
<1>16. f[0] \in L /\ \A k \in 1 .. m : f[k - 1] \in L => f[k] \in L
  BY <1>14, <1>15
<1> HIDE DEF L
<1>a. \A k \in 0 .. m : f[k] \in L
  BY <1>14, <1>16, LoopKeeps
<1>17. g[n] = left
  <2>1. m \in 0 .. m /\ m + 2 = n
    BY <1>10 DEF m
  <2>2. f[m] = g[n]
    BY <2>1 DEF f
  <2> QED BY <1>a, <2>1, <2>2 DEF L
<1> QED BY <1>11, <1>17 DEF t, left

--------------------------------------------------------------------------------
(***************************************************************************)
(* The inductive invariant of the audit.                                   *)
(***************************************************************************)
ControlInv ==
    /\ circuit \in Circuits
    /\ pc \in {"span", "independence", "done"} /\ matrix \in {"a", "b", "c"}
    /\ col \in 0 .. circuit.cols
    /\ met \in BOOLEAN /\ safe \in BOOLEAN
    /\ separated \in UNION {[s -> BOOLEAN] : s \in SUBSET {"a", "b", "c"}}

RowBases == Bases(Rows(circuit), [Rows(circuit) -> Scalars])
SpanInv == witBasis \in RowBases /\ pubBasis \in RowBases /\ imgBasis \in RowBases

\* A check works on the target and the value of B at its own point, and its basis is clear
\* of the target's monomials until alpha's handles go in.
CheckInv ==
    /\ checks \in 0 .. NumChecks /\ (pc # "done" => checks < NumChecks)
    /\ point \in Points \cup {None}
    /\ point # None => /\ target = Target(circuit, point)
                       /\ vpub = PublicAt(circuit, circuit.b, point)
    /\ basis \in ClearBases

AuditInv == ControlInv /\ SpanInv /\ CheckInv

LEMMA NoVectorsBasis ==
    ASSUME NEW P, NEW V
    PROVE  NoVectors \in Bases(P, V)
<1>1. DOMAIN NoVectors = {} /\ NoVectors = [p \in DOMAIN NoVectors |-> NoVectors[p]]
  BY DEF NoVectors
<1> QED BY <1>1, BasesAre

\* The target has the parts of the public columns, each at its place.
LEMMA TargetIs ==
    ASSUME NEW c, NEW r
    PROVE  Target(c, r) = OwnVector(One, PublicAt(c, c.a, r), PublicAt(c, c.b, r),
                                    PublicAt(c, c.c, r))
<1> DEFINE u == PublicAt(c, c.a, r)
           v == PublicAt(c, c.b, r)
           w == PublicAt(c, c.c, r)
           h == [AlphaBetaDelta |-> One, BetaDeltaUPub |-> u, AlphaDeltaVPub |-> v,
                 DeltaWPub |-> w]
<1>1. Target(c, r) = ToVector(h)
  BY DEF Target
<1> HIDE DEF u, v, w
<1>2. /\ DOMAIN h = Own
      /\ h["AlphaBetaDelta"] = One /\ h["BetaDeltaUPub"] = u
      /\ h["AlphaDeltaVPub"] = v /\ h["DeltaWPub"] = w
  BY DEF Own
<1> HIDE DEF h
<1>3. \A i \in Places : ToVector(h)[i] = OwnVector(One, u, v, w)[i]
  <2> TAKE i \in Places
  <2>1. /\ ToVector(h)[i] = IF Monomials[i] \in DOMAIN h THEN h[Monomials[i]] ELSE Zero
        /\ OwnVector(One, u, v, w)[i]
             = IF i = 1 THEN One ELSE IF i = 2 THEN u
               ELSE IF i = 4 THEN v ELSE IF i = 6 THEN w ELSE Zero
    BY DEF ToVector, OwnVector, Places
  <2>2. i \in Free \/ i = 1 \/ i = 2 \/ i = 4 \/ i = 6
    BY DEF Free
  <2> QED BY <1>2, <2>1, <2>2, MonomialPlaces DEF Own, Free
<1>4. ToVector(h) = OwnVector(One, u, v, w)
  BY <1>3 DEF ToVector, OwnVector, Places
<1> QED BY <1>1, <1>4 DEF u, v, w

LEMMA ColumnType ==
    ASSUME ControlInv, col \in 0 .. circuit.cols - 1
    PROVE  Column(Current, col) \in [Rows(circuit) -> Scalars]
<1>1. Current \in Matrices(circuit)
  BY CircuitFacts DEF ControlInv, Current
<1> QED BY <1>1 DEF Column, Matrices

\* Row bases stay row bases.
LEMMA RowInsertType ==
    ASSUME circuit \in Circuits, NEW b \in RowBases, NEW v \in [Rows(circuit) -> Scalars]
    PROVE  RowInsert(b, v) \in RowBases /\ Reduce(b, v) \in [Rows(circuit) -> Scalars]
<1> DEFINE D == Rows(circuit)
<1>1. IsFiniteSet(D) /\ D \in SUBSET Nat
  BY CircuitFacts DEF Rows
<1> HIDE DEF D
<1>2. Closed(D, D, [D -> Scalars])
  BY <1>1, AllClosed
<1>3. b \in Bases(D, [D -> Scalars]) /\ v \in [D -> Scalars]
  BY DEF D, RowBases
<1>4. RowInsert(b, v) \in Bases(D, [D -> Scalars])
  BY <1>2, <1>3, ClosedInsert
<1>5. Reduce(b, v) \in [D -> Scalars]
  BY <1>2, <1>3, ClosedReduce
<1> QED BY <1>4, <1>5 DEF D, RowBases

LEMMA AuditInit == Init => AuditInv
<1> SUFFICES ASSUME Init PROVE AuditInv
  OBVIOUS
<1>1. circuit.cols \in Nat /\ circuit.inputs \in 1 .. circuit.cols
  BY CircuitFacts DEF Init
<1>2. ControlInv
  <2>1. separated \in [{} -> BOOLEAN] /\ {} \in SUBSET {"a", "b", "c"}
    BY DEF Init
  <2>2. separated \in UNION {[s -> BOOLEAN] : s \in SUBSET {"a", "b", "c"}}
    BY <2>1
  <2>3. col \in 0 .. circuit.cols
    BY <1>1 DEF Init
  <2>4. /\ circuit \in Circuits /\ pc = "span" /\ matrix = "b" /\ met = FALSE /\ safe = TRUE
    BY DEF Init
  <2> QED BY <2>2, <2>3, <2>4 DEF ControlInv
<1>3. SpanInv
  BY NoVectorsBasis DEF Init, SpanInv, RowBases
<1>4. CheckInv
  BY NoVectorsBasis, PointsAssumption DEF Init, CheckInv, ClearBases
<1> QED BY <1>2, <1>3, <1>4 DEF AuditInv

\* A verdict ends the elimination for a matrix.
LEMMA VerdictKeeps ==
    ASSUME AuditInv, pc = "span", NEW verdict \in BOOLEAN, SpanVerdict(verdict)
    PROVE  AuditInv'
<1>1. /\ circuit.cols \in Nat /\ circuit.inputs \in 1 .. circuit.cols
      /\ circuit \in Circuits /\ matrix \in {"a", "b", "c"}
  BY CircuitFacts DEF AuditInv, ControlInv
<1>2. ControlInv'
  <2>1. /\ circuit' = circuit /\ safe' = safe /\ met' = FALSE
        /\ pc' \in {"span", "independence"} /\ matrix' \in {"a", "b", "c"}
        /\ col' \in {0, circuit.inputs}
    BY <1>1 DEF SpanVerdict
  <2>2. separated' \in UNION {[s -> BOOLEAN] : s \in SUBSET {"a", "b", "c"}}
    <3>1. PICK s \in SUBSET {"a", "b", "c"} : separated \in [s -> BOOLEAN]
      BY DEF AuditInv, ControlInv
    <3>2. separated' = [m \in s \cup {matrix} |->
                            IF m = matrix THEN verdict ELSE separated[m]]
      BY <3>1 DEF SpanVerdict
    <3>3. separated' \in [s \cup {matrix} -> BOOLEAN]
      BY <3>1, <3>2
    <3>4. s \cup {matrix} \in SUBSET {"a", "b", "c"}
      BY <1>1
    <3> QED BY <3>3, <3>4
  <2>3. safe \in BOOLEAN
    BY DEF AuditInv, ControlInv
  <2>4. col' \in 0 .. circuit.cols
    BY <1>1, <2>1
  <2> QED BY <1>1, <2>1, <2>2, <2>3, <2>4 DEF ControlInv
<1>3. SpanInv'
  <2>1. witBasis' = NoVectors /\ pubBasis' = NoVectors /\ imgBasis' = NoVectors
    BY DEF SpanVerdict
  <2>2. NoVectors \in RowBases'
    BY NoVectorsBasis DEF RowBases
  <2> QED BY <2>1, <2>2 DEF SpanInv
<1>4. CheckInv'
  <2>1. /\ UNCHANGED <<circuit, checks, point, target, vpub, basis>>
        /\ pc' # "done"
    BY DEF SpanVerdict
  <2>2. CheckInv /\ pc # "done"
    BY DEF AuditInv
  <2> QED BY <2>1, <2>2 DEF CheckInv
<1> QED BY <1>2, <1>3, <1>4 DEF AuditInv

\* Every handle of a column is clear of the target's monomials.
LEMMA HandlesClear ==
    ASSUME NEW k, NEW u \in Scalars, NEW v \in Scalars, NEW w \in Scalars,
           NEW e \in Scalars, NEW b \in ClearBases
    PROVE  InsertAll(b, (IF k \in Witness(circuit) THEN WitnessHandles(u, v, w, e)
                         ELSE << >>) \o RawHandles(circuit, k, v)) \in ClearBases
<1> DEFINE first == IF k \in Witness(circuit) THEN WitnessHandles(u, v, w, e) ELSE << >>
           raw == RawHandles(circuit, k, v)
<1>1. PICK S1 : raw \in Seq(S1) /\ \A h \in S1 : IsClear(h)
  BY ClearRaw
<1>2. \E S : first \in Seq(S) /\ \A h \in S : IsClear(h)
  <2>1. CASE k \in Witness(circuit)
    BY <2>1, ClearWitness
  <2>2. CASE k \notin Witness(circuit)
    <3>1. first = << >>
      BY <2>2
    <3> HIDE DEF first
    <3> SUFFICES first \in Seq({})
      OBVIOUS
    <3> QED BY <3>1
  <2> QED BY <2>1, <2>2
<1>3. PICK S2 : first \in Seq(S2) /\ \A h \in S2 : IsClear(h)
  BY <1>2
<1> DEFINE S == S1 \cup S2
<1> HIDE DEF first, raw
<1>4. first \o raw \in Seq(S)
  <2>1. first \in Seq(S) /\ raw \in Seq(S)
    BY <1>1, <1>3
  <2> HIDE DEF S
  <2> QED BY <2>1, ConcatProperties
<1>5. \A h \in S : IsClear(h)
  BY <1>1, <1>3
<1> HIDE DEF S
<1> DEFINE all == first \o raw
<1> HIDE DEF all
<1>6. all \in Seq(S)
  BY <1>4 DEF all
<1>7. InsertAll(b, all) \in ClearBases
  BY <1>5, <1>6, ClearInsert
<1> QED BY <1>7 DEF all, first, raw

LEMMA AuditStep == AuditInv /\ [Next]_vars => AuditInv'
<1> SUFFICES ASSUME AuditInv, [Next]_vars PROVE AuditInv'
  OBVIOUS
<1> USE DEF AuditInv
<1>1. /\ circuit.cols \in Nat /\ circuit.inputs \in 1 .. circuit.cols
      /\ circuit \in Circuits
      /\ circuit.a \in Matrices(circuit) /\ circuit.b \in Matrices(circuit)
      /\ circuit.c \in Matrices(circuit)
  BY CircuitFacts DEF ControlInv
<1>2. CASE TriviallySeparated
  BY <1>2, VerdictKeeps DEF TriviallySeparated
<1>3. CASE InsertWitness
  <2>1. UNCHANGED <<circuit, pc, matrix, pubBasis, imgBasis, met, separated, checks, point,
                    target, vpub, basis, safe>>
    BY <1>3 DEF InsertWitness
  <2>2. col \in 0 .. circuit.cols - 1 /\ col' \in 0 .. circuit.cols
    BY <1>1, <1>3 DEF InsertWitness, Witness
  <2>3. ControlInv'
    BY <1>1, <2>1, <2>2 DEF ControlInv
  <2>4. witBasis' \in RowBases
    BY <1>1, <1>3, <2>2, ColumnType, RowInsertType DEF InsertWitness, SpanInv
  <2>5. SpanInv' /\ CheckInv'
    BY <2>1, <2>4 DEF SpanInv, CheckInv, RowBases
  <2> QED BY <2>3, <2>5
<1>4. CASE ReducePublic
  <2>1. UNCHANGED <<circuit, pc, matrix, witBasis, separated, checks, point, target, vpub,
                    basis, safe>>
    BY <1>4 DEF ReducePublic
  <2>2. col \in 0 .. circuit.cols - 1 /\ col' \in 0 .. circuit.cols
    BY <1>1, <1>4 DEF ReducePublic, Public
  <2>3. met' \in BOOLEAN
    BY <1>4 DEF ReducePublic, ControlInv
  <2>4. ControlInv'
    BY <1>1, <2>1, <2>2, <2>3 DEF ControlInv
  <2> DEFINE v == Column(Current, col)
             image == Reduce(witBasis, v)
  <2>5. v \in [Rows(circuit) -> Scalars]
    BY <2>2, ColumnType
  <2>6. pubBasis' = RowInsert(pubBasis, v) /\ imgBasis' = RowInsert(imgBasis, image)
    BY <1>4 DEF ReducePublic
  <2> HIDE DEF v
  <2>7. image \in [Rows(circuit) -> Scalars]
    BY <1>1, <2>5, RowInsertType DEF SpanInv
  <2> HIDE DEF image
  <2>8. pubBasis' \in RowBases /\ imgBasis' \in RowBases
    BY <1>1, <2>5, <2>6, <2>7, RowInsertType DEF SpanInv
  <2>9. SpanInv' /\ CheckInv'
    BY <2>1, <2>8 DEF SpanInv, CheckInv, RowBases
  <2> QED BY <2>4, <2>9
<1>5. CASE CompareRanks
  <2>1. (~ met /\ RankKept) \in BOOLEAN
    OBVIOUS
  <2> QED BY <1>5, <2>1, VerdictKeeps DEF CompareRanks
<1>6. ASSUME NEW r \in Points, StartCheck(r) PROVE AuditInv'
  <2>1. /\ UNCHANGED <<circuit, pc, matrix, col, witBasis, pubBasis, imgBasis, met, separated,
                       checks, safe>>
        /\ point' = r /\ target' = Target(circuit, r)
        /\ vpub' = PublicAt(circuit, circuit.b, r) /\ basis' = NoVectors
    BY <1>6 DEF StartCheck
  <2>2. ControlInv' /\ SpanInv'
    BY <2>1 DEF ControlInv, SpanInv, RowBases
  <2>3. NoVectors \in ClearBases
    BY NoVectorsBasis DEF ClearBases
  <2>4. CheckInv'
    BY <2>1, <2>3 DEF CheckInv
  <2> QED BY <2>2, <2>4
<1>7. CASE AddHandles
  <2>1. /\ UNCHANGED <<circuit, pc, matrix, witBasis, pubBasis, imgBasis, met, separated,
                       checks, point, target, vpub, safe>>
        /\ point # None /\ col \in 0 .. circuit.cols - 1 /\ col' \in 0 .. circuit.cols
    BY <1>1, <1>7 DEF AddHandles, ControlInv
  <2> DEFINE u == EvaluateColumn(circuit, circuit.a, col, point)
             v == EvaluateColumn(circuit, circuit.b, col, point)
             w == EvaluateColumn(circuit, circuit.c, col, point)
  <2>2. point \in Scalars /\ vpub = PublicAt(circuit, circuit.b, point)
    BY <2>1, PointsAssumption DEF CheckInv
  <2>3. u \in Scalars /\ v \in Scalars /\ w \in Scalars /\ vpub \in Scalars
    BY <1>1, <2>1, <2>2, EvaluateColumnType, PublicAtType
  <2>4. basis' = InsertAll(basis,
               (IF col \in Witness(circuit) THEN WitnessHandles(u, v, w, vpub) ELSE << >>)
                  \o RawHandles(circuit, col, v))
    BY <1>7 DEF AddHandles
  <2> HIDE DEF u, v, w
  <2>5. basis' \in ClearBases
    BY <2>3, <2>4, HandlesClear DEF CheckInv
  <2>6. ControlInv' /\ SpanInv'
    BY <2>1 DEF ControlInv, SpanInv, RowBases
  <2>7. CheckInv'
    BY <2>1, <2>5 DEF CheckInv
  <2> QED BY <2>6, <2>7
<1>8. CASE FinishCheck
  <2> DEFINE residue == Reduce(InsertAll(basis, AlphaHandles(vpub)), target)
  <2>1. /\ UNCHANGED <<circuit, matrix, witBasis, pubBasis, imgBasis, met, separated>>
        /\ checks' = checks + 1 /\ col' = 0 /\ point' = None /\ basis' = NoVectors
        /\ pc = "independence"
        /\ safe' = (Support(residue) # {})
        /\ pc' = IF LastCheck(residue) THEN "done" ELSE pc
    BY <1>8 DEF FinishCheck
  <2>2. safe' \in BOOLEAN
    BY <2>1
  <2>3. /\ pc' \in {"independence", "done"}
        /\ pc' # "done" => checks + 1 # NumChecks
    BY <2>1 DEF LastCheck
  <2>4. ControlInv' /\ SpanInv'
    BY <1>1, <2>1, <2>2, <2>3 DEF ControlInv, SpanInv, RowBases
  <2>5. NoVectors \in ClearBases
    BY NoVectorsBasis DEF ClearBases
  <2>6. /\ NumChecks \in Nat /\ checks \in Nat /\ checks < NumChecks
    BY <2>1, PointsAssumption DEF CheckInv
  <2>7. checks' \in 0 .. NumChecks /\ (pc' # "done" => checks' < NumChecks)
    BY <2>1, <2>3, <2>6
  <2>8. CheckInv'
    BY <2>1, <2>5, <2>7 DEF CheckInv
  <2> QED BY <2>4, <2>8
<1>9. CASE UNCHANGED vars
  BY <1>9 DEF vars, ControlInv, SpanInv, CheckInv, RowBases
<1> QED BY <1>2, <1>3, <1>4, <1>5, <1>6, <1>7, <1>8, <1>9 DEF Next

\* Every variable keeps its type: vectors over the rows of the circuit while spans are
\* compared, vectors over the monomials while a check runs.
THEOREM TypeCorrect == Spec => []TypeOK
<1>1. AuditInv => TypeOK
  <2> SUFFICES ASSUME AuditInv PROVE TypeOK
    OBVIOUS
  <2>1. DOMAIN circuit[matrix] = Rows(circuit)
    BY CircuitFacts DEF AuditInv, ControlInv, Matrices
  <2>2. \A b \in {witBasis, pubBasis, imgBasis} :
           DOMAIN b \subseteq Rows(circuit) /\ \A p \in DOMAIN b : b[p] \in Vectors(matrix)
    BY <2>1, BasesAre DEF AuditInv, SpanInv, RowBases, Vectors
  <2>3. ASSUME point # None
        PROVE  vpub \in Scalars /\ target \in [DOMAIN Monomials -> Scalars]
    <3>1. point \in Scalars /\ circuit \in Circuits
      BY <2>3, PointsAssumption DEF AuditInv, CheckInv, ControlInv
    <3>2. /\ PublicAt(circuit, circuit.a, point) \in Scalars
          /\ PublicAt(circuit, circuit.b, point) \in Scalars
          /\ PublicAt(circuit, circuit.c, point) \in Scalars
      BY <3>1, CircuitFacts, PublicAtType
    <3>3. Target(circuit, point) \in [Places -> Scalars]
      BY <3>2, TargetIs, OwnVectorType, Closure
    <3> QED BY <2>3, <3>2, <3>3 DEF AuditInv, CheckInv, Places
  <2>4. \A p \in DOMAIN basis : basis[p] \in [DOMAIN Monomials -> Scalars]
    BY BasesAre DEF AuditInv, CheckInv, ClearBases, Clears, Places
  <2> QED BY <2>2, <2>3, <2>4 DEF AuditInv, ControlInv, CheckInv, TypeOK
<1> QED BY <1>1, AuditInit, AuditStep, PTL DEF Spec

\* An own vector has a support unless all its parts are zero.
LEMMA OwnSupport ==
    ASSUME NEW u \in Scalars, NEW w \in Scalars
    PROVE  Support(OwnVector(Zero, u, Zero, w)) # {} <=> u # Zero \/ w # Zero
<1> DEFINE t == OwnVector(Zero, u, Zero, w)
<1>1. DOMAIN t = Places /\ 2 \in Places /\ 6 \in Places
  BY MonomialPlaces DEF OwnVector
<1>2. t[2] = u /\ t[6] = w
  BY <1>1 DEF OwnVector
<1>3. \A i \in Places : t[i] # Zero => i = 2 \/ i = 6
  BY DEF OwnVector
<1> HIDE DEF t
<1>4. Support(t) # {} <=> u # Zero \/ w # Zero
  BY <1>1, <1>2, <1>3 DEF Support
<1> QED BY <1>4 DEF t

\* A check passes exactly when the instance's combination of public columns in A or in C does
\* not vanish at the sample point, for every circuit and whatever the witness columns are.
THEOREM ChecksExact == Spec => IndependenceExact
<1>1. ASSUME AuditInv, [Next]_vars, checks' # checks
      PROVE  safe' <=> \/ PublicAt(circuit, circuit.a, point) # Zero
                       \/ PublicAt(circuit, circuit.c, point) # Zero
  <2> DEFINE u == PublicAt(circuit, circuit.a, point)
             v == PublicAt(circuit, circuit.b, point)
             w == PublicAt(circuit, circuit.c, point)
             residue == Reduce(InsertAll(basis, AlphaHandles(vpub)), target)
  <2>1. FinishCheck
    <3>1. CASE UNCHANGED vars
      BY <1>1, <3>1 DEF vars
    <3>2. CASE Next
      BY <1>1, <3>2 DEF Next, TriviallySeparated, SpanVerdict, InsertWitness, ReducePublic,
                        CompareRanks, StartCheck, AddHandles
    <3> QED BY <1>1, <3>1, <3>2
  <2>2. point # None /\ safe' = (Support(residue) # {})
    BY <2>1 DEF FinishCheck
  <2>3. circuit \in Circuits /\ point \in Scalars /\ basis \in ClearBases
    BY <1>1, <2>2, PointsAssumption DEF AuditInv, ControlInv, CheckInv
  <2>4. target = Target(circuit, point) /\ vpub = v
    BY <1>1, <2>2 DEF AuditInv, CheckInv
  <2>5. u \in Scalars /\ v \in Scalars /\ w \in Scalars
    BY <2>3, CircuitFacts, PublicAtType
  <2>6. target = OwnVector(One, u, v, w)
    BY <2>4, TargetIs
  <2> HIDE DEF u, v, w
  <2>7. InsertAll(basis, AlphaHandles(v)) \in AlphaBases(v)
    BY <2>3, <2>5, AlphaAll
  <2>8. Reduce(InsertAll(basis, AlphaHandles(v)), OwnVector(One, u, v, w))
          = OwnVector(Zero, u, Zero, w)
    BY <2>5, <2>7, TargetLeft
  <2>9. residue = OwnVector(Zero, u, Zero, w)
    BY <2>4, <2>6, <2>8
  <2> HIDE DEF residue
  <2>10. safe' <=> u # Zero \/ w # Zero
    BY <2>2, <2>5, <2>9, OwnSupport
  <2> QED BY <2>10 DEF u, w
<1>2. AuditInv /\ [Next]_vars =>
         [checks' # checks =>
            (safe' <=> \/ PublicAt(circuit, circuit.a, point) # Zero
                       \/ PublicAt(circuit, circuit.c, point) # Zero)]_vars
  BY <1>1
<1> QED BY <1>2, AuditInit, AuditStep, PTL DEF Spec, IndependenceExact

--------------------------------------------------------------------------------
\* evaluate_column takes the value of the polynomial that get_column_polys interpolates.
LEMMA ColumnEvaluates ==
    ASSUME NEW c \in Circuits, NEW m \in Matrices(c), NEW j \in 0 .. c.cols - 1,
           NEW r \in Scalars
    PROVE  EvaluateColumn(c, m, j, r) = PolynomialAt(c, m, j, r)
<1> DEFINE n == DomainSize(c)
           s == Support(Column(m, j))
           hit == {k \in s : r = Element(n, k)}
           v == [k \in Domain(n) |-> IF k \in Rows(c) THEN m[k][j] ELSE Zero]
           u == [k \in Domain(n) |-> Times(v[k], Total(Weights(n, k, r)))]
           f == [k \in hit |-> m[k][j]]
           g == [k \in s |-> m[k][j] \otimes Lagrange(n, k, r)]
<1>1. /\ n \in DomainSizes /\ n \in Nat /\ Rows(c) \subseteq Domain(n)
      /\ IsFiniteSet(Domain(n))
  BY CircuitFacts
<1>2. s \subseteq Rows(c)
  BY DEF Support, Column, Matrices
<1>3. \A k \in Rows(c) : m[k][j] \in Scalars
  BY DEF Matrices
<1>4. \A k \in s : v[k] = m[k][j]
  BY <1>1, <1>2
<1>5. \A k \in Domain(n) \ s : v[k] = Zero
  BY DEF Support, Column, Matrices
<1>6. EvaluateColumn(c, m, j, r) = IF hit # {} THEN Total(f) ELSE Total(g)
  BY DEF EvaluateColumn
<1>7. v \in [Domain(n) -> Scalars]
  BY <1>3, Closure
<1>8. PolynomialAt(c, m, j, r)
        = Total([i \in Domain(n) |-> Coefficient(n, v, i) \otimes Power(r, i)])
  BY DEF PolynomialAt
<1> HIDE DEF n, s, v
<1>9. PolynomialAt(c, m, j, r) = Total(u)
  BY <1>1, <1>7, <1>8, Interpolates
<1>10. \A k \in Domain(n) : v[k] \in Scalars /\ Total(Weights(n, k, r)) \in Scalars
  <2> TAKE k \in Domain(n)
  <2> DEFINE w == Weights(n, k, r)
  <2>1. w \in [Domain(n) -> Scalars]
    BY <1>1, KernelTerms
  <2> HIDE DEF w
  <2>2. Total(w) \in Scalars
    BY <1>1, <2>1, FirstLaws
  <2> QED BY <1>7, <2>2 DEF w
<1>11. u \in [Domain(n) -> Scalars]
  BY <1>10, Closure
<1>12. CASE hit = {}
  <2>1. \A k \in s : r # Element(n, k)
    BY <1>12
  <2>2. \A k \in s : u[k] = m[k][j] \otimes Lagrange(n, k, r)
    <3> TAKE k \in s
    <3>1. k \in Domain(n) /\ r # Element(n, k)
      BY <1>1, <1>2, <2>1
    <3>2. Total(Weights(n, k, r)) = Lagrange(n, k, r)
      BY <1>1, <3>1, KernelIs
    <3> QED BY <1>4, <3>1, <3>2 DEF \otimes
  <2>3. \A k \in Domain(n) \ s : u[k] = Zero
    BY <1>5, <1>10, TimesZero
  <2>4. s \in SUBSET Domain(n)
    BY <1>1, <1>2
  <2> HIDE DEF u
  <2>5. Total(u) = Part(u, s)
    BY <1>1, <1>11, <2>3, <2>4, TotalSupport
  <2>6. [k \in s |-> u[k]] = g
    BY <2>2
  <2> QED BY <1>6, <1>9, <1>12, <2>5, <2>6 DEF Part
<1>13. CASE hit # {}
  <2>1. PICK e \in hit : TRUE
    BY <1>13
  <2>2. e \in s /\ e \in Domain(n) /\ r = Element(n, e)
    BY <1>1, <1>2, <2>1
  <2>3. hit = {e}
    <3>1. \A k \in hit : k = e
      BY <1>1, <1>2, <2>2, RootsDistinct
    <3> QED BY <2>1, <3>1
  <2>4. \A k \in Domain(n) : k # e => u[k] = Zero
    <3> TAKE k \in Domain(n)
    <3> HAVE k # e
    <3>1. Total(Weights(n, k, r)) = Zero
      BY <1>1, <2>2, KernelAtRoot
    <3> QED BY <1>10, <3>1, TimesZero
  <2>5. u[e] = v[e]
    <3>1. Total(Weights(n, e, r)) = One
      BY <1>1, <2>2, KernelIs
    <3>2. v[e] \in Scalars
      BY <1>10, <2>2
    <3> QED BY <2>2, <3>1, <3>2, TimesLaws
  <2> HIDE DEF u
  <2>6. Total(u) = v[e]
    BY <1>1, <1>11, <2>2, <2>4, <2>5, TotalSingle
  <2> DEFINE w == [k \in Domain(n) |-> IF k = e THEN v[e] ELSE Zero]
  <2>7. w \in [Domain(n) -> Scalars] /\ w[e] = v[e]
        /\ \A k \in Domain(n) : k # e => w[k] = Zero
    BY <1>10, <2>2, Closure
  <2>8. [k \in hit |-> w[k]] = f
    BY <1>4, <2>2, <2>3
  <2> HIDE DEF w, f
  <2>9. Total(w) = v[e]
    BY <1>1, <2>2, <2>7, TotalSingle
  <2>10. Total(w) = Part(w, hit)
    <3>1. hit \in SUBSET Domain(n) /\ \A k \in Domain(n) \ hit : w[k] = Zero
      BY <1>1, <1>2, <2>1, <2>3, <2>7
    <3> HIDE DEF hit
    <3> QED BY <1>1, <2>7, <3>1, TotalSupport
  <2>11. Total(f) = v[e]
    BY <2>8, <2>9, <2>10 DEF Part
  <2> QED BY <1>6, <1>9, <1>13, <2>6, <2>11
<1> QED BY <1>12, <1>13

\* EvaluationAgrees: the barycentric formula that the handles of a check are evaluated by and
\* the coefficients its target is evaluated by give the same value of every column, at every
\* sample point of every field.
THEOREM EvaluationsAlwaysAgree == Spec => []EvaluationAgrees
<1>1. AuditInv => EvaluationAgrees
  <2> SUFFICES ASSUME AuditInv, point # None,
                      NEW m \in {circuit.a, circuit.b, circuit.c},
                      NEW j \in 0 .. circuit.cols - 1
               PROVE  EvaluateColumn(circuit, m, j, point)
                        = PolynomialAt(circuit, m, j, point)
    BY DEF EvaluationAgrees
  <2>1. point \in Scalars /\ circuit \in Circuits
    BY PointsAssumption DEF AuditInv, CheckInv, ControlInv
  <2>2. m \in Matrices(circuit)
    BY <2>1, CircuitFacts
  <2> QED BY <2>1, <2>2, ColumnEvaluates
<1> QED BY <1>1, AuditInit, AuditStep, PTL DEF Spec

--------------------------------------------------------------------------------
(***************************************************************************)
(* Spaces of columns, closed under elimination.                            *)
(***************************************************************************)
Columns(r) == [0 .. r - 1 -> Scalars]
Nought(r) == [k \in 0 .. r - 1 |-> Zero]
IsSpace(r, V) ==
    /\ V \subseteq Columns(r) /\ Nought(r) \in V
    /\ \A x, y \in V, c \in Scalars : Eliminate(x, c, y) \in V
Extend(V, v) == {Eliminate(x, c, v) : x \in V, c \in Scalars}

LEMMA ColumnsAre ==
    ASSUME NEW r
    PROVE  /\ Nought(r) \in Columns(r)
           /\ \A k \in 0 .. r - 1 : Nought(r)[k] = Zero
           /\ \A x \in Columns(r) : x = Nought(r) <=> \A k \in 0 .. r - 1 : x[k] = Zero
           /\ \A x \in Columns(r) : x = Nought(r) <=> Support(x) = {}
<1>1. /\ Nought(r) \in Columns(r)
      /\ \A k \in 0 .. r - 1 : Nought(r)[k] = Zero
  BY Closure DEF Nought, Columns
<1>2. \A x \in Columns(r) : x = Nought(r) <=> \A k \in 0 .. r - 1 : x[k] = Zero
  BY DEF Nought, Columns
<1>3. \A x \in Columns(r) : Support(x) = {} <=> \A k \in 0 .. r - 1 : x[k] = Zero
  BY DEF Support, Columns
<1> QED BY <1>1, <1>2, <1>3

LEMMA EliminateColumns ==
    ASSUME NEW r, NEW x \in Columns(r), NEW y \in Columns(r), NEW c \in Scalars
    PROVE  /\ Eliminate(x, c, y) \in Columns(r)
           /\ \A k \in 0 .. r - 1 : /\ x[k] \in Scalars /\ y[k] \in Scalars
                                    /\ Eliminate(x, c, y)[k] = x[k] \ominus (c \otimes y[k])
<1> DEFINE D == 0 .. r - 1
<1>1. x \in [D -> Scalars] /\ y \in [D -> Scalars] /\ Columns(r) = [D -> Scalars]
  BY DEF Columns
<1> HIDE DEF D
<1>2. \A k \in D : x[k] \in Scalars /\ y[k] \in Scalars
  BY <1>1
<1>3. /\ Eliminate(x, c, y) \in [D -> Scalars]
      /\ \A k \in D : Eliminate(x, c, y)[k] = x[k] \ominus (c \otimes y[k])
  <2>1. x \in [D -> Scalars] /\ y \in [D -> Scalars] /\ c \in Scalars
    BY <1>1
  <2> QED BY <2>1, EliminateType
<1> QED BY <1>1, <1>2, <1>3 DEF D

\* One row of it.
LEMMA EntryType ==
    ASSUME NEW r, NEW x \in Columns(r), NEW k \in 0 .. r - 1
    PROVE  x[k] \in Scalars
BY DEF Columns

LEMMA EntryOf ==
    ASSUME NEW r, NEW x \in Columns(r), NEW y \in Columns(r), NEW c \in Scalars,
           NEW k \in 0 .. r - 1
    PROVE  Eliminate(x, c, y)[k] = x[k] \ominus (c \otimes y[k])
BY EliminateColumns

\* Columns that agree in every row are the same.
LEMMA ColumnsEqual ==
    ASSUME NEW r, NEW x \in Columns(r), NEW y \in Columns(r), \A k \in 0 .. r - 1 : x[k] = y[k]
    PROVE  x = y
<1> DEFINE D == 0 .. r - 1
<1>1. x \in [D -> Scalars] /\ y \in [D -> Scalars] /\ \A k \in D : x[k] = y[k]
  BY DEF Columns
<1> HIDE DEF D
<1> QED BY <1>1

\* (x - a v) - c (y - d v) = (x - c y) - (a - c d) v
LEMMA EliminateSame ==
    ASSUME NEW r, NEW x \in Columns(r), NEW y \in Columns(r), NEW v \in Columns(r),
           NEW a \in Scalars, NEW c \in Scalars, NEW d \in Scalars
    PROVE  Eliminate(Eliminate(x, a, v), c, Eliminate(y, d, v))
             = Eliminate(Eliminate(x, c, y), a \ominus (c \otimes d), v)
<1> DEFINE p == Eliminate(x, a, v)
           q == Eliminate(y, d, v)
           s == Eliminate(x, c, y)
           e == a \ominus (c \otimes d)
<1>1. p \in Columns(r) /\ q \in Columns(r) /\ s \in Columns(r) /\ e \in Scalars
  BY EliminateColumns, MinusType
<1>2. \A k \in 0 .. r - 1 : /\ x[k] \in Scalars /\ y[k] \in Scalars /\ v[k] \in Scalars
                            /\ p[k] = x[k] \ominus (a \otimes v[k])
                            /\ q[k] = y[k] \ominus (d \otimes v[k])
                            /\ s[k] = x[k] \ominus (c \otimes y[k])
  BY EliminateColumns
<1> HIDE DEF p, q, s, e
<1>3. Eliminate(p, c, q) \in Columns(r) /\ Eliminate(s, e, v) \in Columns(r)
  BY <1>1, EliminateColumns
<1>4. ASSUME NEW k \in 0 .. r - 1 PROVE Eliminate(p, c, q)[k] = Eliminate(s, e, v)[k]
  <2> DEFINE X == x[k]
             Y == y[k]
             W == v[k]
  <2>1. X \in Scalars /\ Y \in Scalars /\ W \in Scalars
    BY <1>2
  <2>2. Eliminate(p, c, q)[k] = (X \ominus (a \otimes W)) \ominus (c \otimes (Y \ominus (d \otimes W)))
    BY <1>1, <1>2, EliminateColumns
  <2>3. Eliminate(s, e, v)[k] = (X \ominus (c \otimes Y)) \ominus (e \otimes W)
    BY <1>1, <1>2, EliminateColumns
  <2> HIDE DEF X, Y, W
  <2> DEFINE aw == a \otimes W
             cy == c \otimes Y
             cd == c \otimes d
             dw == d \otimes W
             f == c \otimes dw
  <2>4. aw \in Scalars /\ cy \in Scalars /\ cd \in Scalars /\ dw \in Scalars /\ f \in Scalars
    BY <2>1, MinusType
  <2>5. f = cd \otimes W
    BY <2>1, TimesLaws DEF \otimes
  <2>6. e \otimes W = aw \ominus (cd \otimes W)
    <3> HIDE DEF cd
    <3> QED BY <2>1, <2>4, TimesSub DEF e, cd
  <2>7. c \otimes (Y \ominus dw) = cy \ominus f
    <3> HIDE DEF dw
    <3> QED BY <2>1, <2>4, TimesSub
  <2> HIDE DEF aw, cy, cd, dw, f
  <2>8. (X \ominus aw) \ominus (cy \ominus f) = (X \ominus cy) \ominus (aw \ominus f)
    BY <2>1, <2>4, SubSwap
  <2> QED BY <2>2, <2>3, <2>5, <2>6, <2>7, <2>8 DEF aw, cy, dw
<1>5. Eliminate(p, c, q) = Eliminate(s, e, v)
  BY <1>3, <1>4, ColumnsEqual
<1> QED BY <1>5 DEF p, q, s, e

\* (u - a y) - c (v - a z) = (u - c v) - a (y - c z)
LEMMA EliminatePairs ==
    ASSUME NEW r, NEW u \in Columns(r), NEW y \in Columns(r), NEW v \in Columns(r),
           NEW z \in Columns(r), NEW a \in Scalars, NEW c \in Scalars
    PROVE  Eliminate(Eliminate(u, a, y), c, Eliminate(v, a, z))
             = Eliminate(Eliminate(u, c, v), a, Eliminate(y, c, z))
<1> DEFINE p == Eliminate(u, a, y)
           q == Eliminate(v, a, z)
           s == Eliminate(u, c, v)
           t == Eliminate(y, c, z)
<1>1. p \in Columns(r) /\ q \in Columns(r) /\ s \in Columns(r) /\ t \in Columns(r)
  BY EliminateColumns
<1>2. \A k \in 0 .. r - 1 : /\ u[k] \in Scalars /\ y[k] \in Scalars
                            /\ v[k] \in Scalars /\ z[k] \in Scalars
                            /\ p[k] = u[k] \ominus (a \otimes y[k])
                            /\ q[k] = v[k] \ominus (a \otimes z[k])
                            /\ s[k] = u[k] \ominus (c \otimes v[k])
                            /\ t[k] = y[k] \ominus (c \otimes z[k])
  BY EliminateColumns
<1> HIDE DEF p, q, s, t
<1>3. Eliminate(p, c, q) \in Columns(r) /\ Eliminate(s, a, t) \in Columns(r)
  BY <1>1, EliminateColumns
<1>4. ASSUME NEW k \in 0 .. r - 1 PROVE Eliminate(p, c, q)[k] = Eliminate(s, a, t)[k]
  <2> DEFINE U == u[k]
             Y == y[k]
             W == v[k]
             Z == z[k]
  <2>1. U \in Scalars /\ Y \in Scalars /\ W \in Scalars /\ Z \in Scalars
    BY <1>2
  <2>2. Eliminate(p, c, q)[k] = (U \ominus (a \otimes Y)) \ominus (c \otimes (W \ominus (a \otimes Z)))
    BY <1>1, <1>2, EliminateColumns
  <2>3. Eliminate(s, a, t)[k] = (U \ominus (c \otimes W)) \ominus (a \otimes (Y \ominus (c \otimes Z)))
    BY <1>1, <1>2, EliminateColumns
  <2> HIDE DEF U, Y, W, Z
  <2> DEFINE ay == a \otimes Y
             cw == c \otimes W
             az == a \otimes Z
             cz == c \otimes Z
             f == c \otimes az
  <2>4. ay \in Scalars /\ cw \in Scalars /\ az \in Scalars /\ cz \in Scalars /\ f \in Scalars
    BY <2>1, MinusType
  <2>5. f = a \otimes cz
    <3>1. Times(c, Times(a, Z)) = Times(Times(c, a), Z)
      BY <2>1, TimesLaws
    <3>2. Times(a, Times(c, Z)) = Times(Times(a, c), Z)
      BY <2>1, TimesLaws
    <3>3. Times(c, a) = Times(a, c)
      BY TimesLaws
    <3> QED BY <3>1, <3>2, <3>3 DEF \otimes
  <2>6. c \otimes (W \ominus az) = cw \ominus f
    <3> HIDE DEF az
    <3> QED BY <2>1, <2>4, TimesSub
  <2>7. a \otimes (Y \ominus cz) = ay \ominus f
    <3>1. a \otimes (Y \ominus cz) = ay \ominus (a \otimes cz)
      <4> HIDE DEF cz
      <4> QED BY <2>1, <2>4, TimesSub
    <3> QED BY <2>5, <3>1
  <2> HIDE DEF ay, cw, az, cz, f
  <2>8. (U \ominus ay) \ominus (cw \ominus f) = (U \ominus cw) \ominus (ay \ominus f)
    BY <2>1, <2>4, SubSwap
  <2> QED BY <2>2, <2>3, <2>6, <2>7, <2>8 DEF ay, cw, az, cz
<1>5. Eliminate(p, c, q) = Eliminate(s, a, t)
  BY <1>3, <1>4, ColumnsEqual
<1> QED BY <1>5 DEF p, q, s, t

--------------------------------------------------------------------------------
LEMMA NoughtLaws ==
    ASSUME NEW r, NEW u \in Columns(r), NEW t \in Scalars
    PROVE  /\ Eliminate(u, t, Nought(r)) = u
           /\ Eliminate(u, One, u) = Nought(r)
           /\ Eliminate(u, Zero, u) = u
           /\ Eliminate(Nought(r), One, Eliminate(Nought(r), One, u)) = u
<1> DEFINE o == Nought(r)
           z == Eliminate(o, One, u)
<1>0. One \in Scalars /\ Zero \in Scalars
  BY Closure
<1>1. o \in Columns(r) /\ \A k \in 0 .. r - 1 : o[k] = Zero
  BY ColumnsAre
<1>2. \A k \in 0 .. r - 1 : u[k] \in Scalars
  BY EntryType
<1> HIDE DEF o
<1>3. Eliminate(u, t, o) = u
  <2>1. Eliminate(u, t, o) \in Columns(r)
    BY <1>1, EliminateColumns
  <2>2. \A k \in 0 .. r - 1 : Eliminate(u, t, o)[k] = u[k] \ominus (t \otimes Zero)
    BY <1>1, EntryOf
  <2>3. \A k \in 0 .. r - 1 : Eliminate(u, t, o)[k] = u[k]
    BY <1>2, <2>2, ZeroLaws
  <2> QED BY <2>1, <2>3, ColumnsEqual
<1>4. Eliminate(u, One, u) = o
  <2>1. Eliminate(u, One, u) \in Columns(r)
    BY <1>0, EliminateColumns
  <2>2. \A k \in 0 .. r - 1 : Eliminate(u, One, u)[k] = u[k] \ominus (One \otimes u[k])
    BY <1>0, EntryOf
  <2>3. \A k \in 0 .. r - 1 : Eliminate(u, One, u)[k] = o[k]
    BY <1>1, <1>2, <2>2, ZeroLaws
  <2> QED BY <1>1, <2>1, <2>3, ColumnsEqual
<1>5. Eliminate(u, Zero, u) = u
  BY EliminateNothing DEF Columns
<1>6. Eliminate(o, One, z) = u
  <2>1. z \in Columns(r)
    BY <1>0, <1>1, EliminateColumns
  <2>2. \A k \in 0 .. r - 1 : z[k] = Zero \ominus (One \otimes u[k])
    BY <1>0, <1>1, EntryOf
  <2> HIDE DEF z
  <2>3. Eliminate(o, One, z) \in Columns(r)
    BY <1>0, <1>1, <2>1, EliminateColumns
  <2>4. \A k \in 0 .. r - 1 : Eliminate(o, One, z)[k] = Zero \ominus (One \otimes z[k])
    BY <1>0, <1>1, <2>1, EntryOf
  <2>5. ASSUME NEW k \in 0 .. r - 1 PROVE Eliminate(o, One, z)[k] = u[k]
    <3> DEFINE a == u[k]
    <3>1. a \in Scalars
      BY <1>2
    <3>2. Eliminate(o, One, z)[k] = Zero \ominus (One \otimes (Zero \ominus (One \otimes a)))
      BY <2>2, <2>4
    <3> HIDE DEF a
    <3>3. One \otimes a = a
      BY <3>1, ZeroLaws
    <3>4. Zero \ominus a = Minus(a) /\ Minus(a) \in Scalars
      BY <3>1, Closure, PlusZero DEF \ominus
    <3>5. One \otimes Minus(a) = Minus(a)
      BY <3>4, ZeroLaws
    <3>6. Zero \ominus Minus(a) = a
      <4>1. Minus(Minus(a)) = a
        BY <3>1, MinusMinus
      <4> QED BY <3>1, <4>1, PlusZero DEF \ominus
    <3> QED BY <3>2, <3>3, <3>4, <3>5, <3>6 DEF a
  <2> QED BY <2>3, <2>5, ColumnsEqual
<1> QED BY <1>3, <1>4, <1>5, <1>6 DEF o

LEMMA SpaceLaws ==
    ASSUME NEW r, NEW V, IsSpace(r, V)
    PROVE  /\ V \subseteq Columns(r) /\ Nought(r) \in V
           /\ \A x, y \in V, c \in Scalars : Eliminate(x, c, y) \in V
BY DEF IsSpace

\* A space extended by a column is a space, and contains both.
LEMMA ExtendSpace ==
    ASSUME NEW r, NEW V, IsSpace(r, V), NEW v \in Columns(r)
    PROVE  /\ IsSpace(r, Extend(V, v)) /\ V \subseteq Extend(V, v) /\ v \in Extend(V, v)
           /\ v \in V => Extend(V, v) = V
<1> DEFINE E == Extend(V, v)
<1>0. /\ One \in Scalars /\ Zero \in Scalars /\ Minus(One) \in Scalars
      /\ V \subseteq Columns(r) /\ Nought(r) \in V
  BY Closure, SpaceLaws
<1>1. V \subseteq E
  <2> SUFFICES ASSUME NEW x \in V PROVE x \in E
    OBVIOUS
  <2>1. Eliminate(x, Zero, v) = x
    BY <1>0, EliminateNothing DEF Columns
  <2> QED BY <1>0, <2>1 DEF Extend
<1>2. E \subseteq Columns(r)
  BY <1>0, EliminateColumns DEF Extend
<1>3. ASSUME NEW x \in E, NEW y \in E, NEW c \in Scalars PROVE Eliminate(x, c, y) \in E
  <2>1. PICK p \in V, a \in Scalars : x = Eliminate(p, a, v)
    BY DEF Extend
  <2>2. PICK q \in V, d \in Scalars : y = Eliminate(q, d, v)
    BY DEF Extend
  <2> DEFINE s == Eliminate(p, c, q)
             e == a \ominus (c \otimes d)
  <2>3. s \in V /\ e \in Scalars
    BY SpaceLaws, MinusType
  <2>4. Eliminate(x, c, y) = Eliminate(s, e, v)
    BY <1>0, <2>1, <2>2, EliminateSame
  <2> HIDE DEF s, e
  <2> QED BY <2>3, <2>4 DEF Extend
<1>4. v \in E
  <2> DEFINE z == Eliminate(Nought(r), One, v)
             w == Eliminate(Nought(r), Minus(One), v)
  <2>1. Nought(r) \in Columns(r) /\ v = Eliminate(Nought(r), One, z)
    BY <1>0, NoughtLaws, ColumnsAre
  <2>2. z \in E
    BY <1>0 DEF Extend
  <2>3. Nought(r) \in E
    BY <1>0, <1>1
  <2> HIDE DEF z, E
  <2> QED BY <1>0, <1>3, <2>1, <2>2, <2>3
<1>5. v \in V => E = V
  <2> SUFFICES ASSUME v \in V PROVE E \subseteq V
    BY <1>1
  <2> QED BY SpaceLaws DEF Extend
<1> QED BY <1>0, <1>1, <1>2, <1>3, <1>4, <1>5 DEF IsSpace

--------------------------------------------------------------------------------
(***************************************************************************)
(* Bases kept reduced: one at the own pivot and zero at the others.        *)
(***************************************************************************)
Unit(p, q) == IF p = q THEN One ELSE Zero
IsReduced(r, b) ==
    /\ DOMAIN b \subseteq 0 .. r - 1
    /\ \A p \in DOMAIN b : b[p] \in Columns(r) /\ \A q \in DOMAIN b : b[p][q] = Unit(p, q)
Misses(x, b) == \A p \in DOMAIN b : x[p] = Zero
\* The vectors of b are in V, and no other column of V than zero misses all pivots.
Spans(r, b, V) ==
    /\ \A p \in DOMAIN b : b[p] \in V
    /\ \A x \in V : Misses(x, b) => x = Nought(r)
IsBasis(r, b, V) == IsReduced(r, b) /\ Spans(r, b, V)

\* x is what is left of u when a column of V is taken off and no pivot remains.
Residue(r, b, V, u, x) ==
    x \in Columns(r) /\ Misses(x, b) /\ \E y \in V : x = Eliminate(u, One, y)

LEMMA ResidueUnique ==
    ASSUME NEW r, NEW V, IsSpace(r, V), NEW b, IsBasis(r, b, V), NEW u \in Columns(r),
           NEW x, Residue(r, b, V, u, x), NEW z, Residue(r, b, V, u, z)
    PROVE  x = z
<1>0. One \in Scalars /\ V \subseteq Columns(r) /\ DOMAIN b \subseteq 0 .. r - 1
  BY Closure, SpaceLaws DEF IsBasis, IsReduced
<1>1. PICK y \in V : x = Eliminate(u, One, y)
  BY DEF Residue
<1>2. PICK w \in V : z = Eliminate(u, One, w)
  BY DEF Residue
<1> DEFINE d == Eliminate(y, One, w)
<1>3. d \in V
  BY <1>0, SpaceLaws
<1>4. y \in Columns(r) /\ w \in Columns(r)
  BY <1>0
<1>5. \A k \in 0 .. r - 1 : /\ u[k] \in Scalars /\ y[k] \in Scalars /\ w[k] \in Scalars
                            /\ x[k] = u[k] \ominus y[k] /\ z[k] = u[k] \ominus w[k]
                            /\ d[k] = y[k] \ominus w[k]
  <2> TAKE k \in 0 .. r - 1
  <2>1. /\ u[k] \in Scalars /\ y[k] \in Scalars /\ w[k] \in Scalars
        /\ x[k] = u[k] \ominus (One \otimes y[k])
        /\ z[k] = u[k] \ominus (One \otimes w[k])
        /\ d[k] = y[k] \ominus (One \otimes w[k])
    BY <1>0, <1>1, <1>2, <1>4, EntryType, EntryOf
  <2> QED BY <2>1, ZeroLaws
<1> HIDE DEF d
<1>6. Misses(d, b)
  <2> SUFFICES ASSUME NEW p \in DOMAIN b PROVE d[p] = Zero
    BY DEF Misses
  <2>1. p \in 0 .. r - 1 /\ x[p] = Zero /\ z[p] = Zero
    BY <1>0 DEF Residue, Misses
  <2>2. u[p] = y[p] /\ u[p] = w[p]
    BY <1>5, <2>1, SubZero
  <2>3. d[p] = y[p] \ominus y[p] /\ y[p] \in Scalars
    BY <1>5, <2>1, <2>2
  <2> QED BY <2>3, ZeroLaws
<1>7. d = Nought(r)
  BY <1>3, <1>6 DEF IsBasis, Spans
<1>8. \A k \in 0 .. r - 1 : y[k] = w[k]
  <2>1. \A k \in 0 .. r - 1 : y[k] \ominus w[k] = Zero
    BY <1>5, <1>7, ColumnsAre
  <2> QED BY <1>5, <2>1, SubZero
<1>9. y = w
  BY <1>4, <1>8, ColumnsEqual
<1> QED BY <1>1, <1>2, <1>9

\* The pivots of b are cleared in ascending order.
LEMMA ReduceResidue ==
    ASSUME NEW r \in Nat, NEW V, IsSpace(r, V), NEW b, IsBasis(r, b, V), NEW u \in Columns(r)
    PROVE  Residue(r, b, V, u, Reduce(b, u))
<1> DEFINE T == {x \in Columns(r) : \E y \in V : x = Eliminate(u, One, y)}
           n == Cardinality(DOMAIN u) + 1
<1>0. /\ One \in Scalars /\ Zero \in Scalars /\ V \subseteq Columns(r) /\ Nought(r) \in V
      /\ DOMAIN b \subseteq 0 .. r - 1 /\ Nought(r) \in Columns(r)
      /\ \A p \in DOMAIN b : b[p] \in V /\ b[p] \in Columns(r)
                             /\ \A q \in DOMAIN b : b[p][q] = Unit(p, q)
  BY Closure, SpaceLaws, ColumnsAre DEF IsBasis, IsReduced, Spans
<1>1. DOMAIN u = 0 .. r - 1 /\ IsFiniteSet(DOMAIN u) /\ n = r + 1
  <2>1. DOMAIN u = 0 .. r - 1
    BY DEF Columns
  <2>2. 0 \in Int /\ r - 1 \in Int
    OBVIOUS
  <2>3. IsFiniteSet(0 .. r - 1) /\ Cardinality(0 .. r - 1) = r
    <3>1. IsFiniteSet(0 .. r - 1)
      BY <2>2, FS_Interval
    <3>2. Cardinality(0 .. r - 1) = IF 0 > r - 1 THEN 0 ELSE (r - 1) - 0 + 1
      BY <2>2, FS_Interval
    <3> QED BY <3>1, <3>2
  <2> QED BY <2>1, <2>3
<1>2. u \in T
  <2>1. Eliminate(u, One, Nought(r)) = u
    BY <1>0, NoughtLaws
  <2> QED BY <1>0, <2>1
<1>3. ASSUME NEW x \in T, NEW t \in Scalars, NEW w \in V PROVE Eliminate(x, t, w) \in T
  <2>1. PICK y \in V : x = Eliminate(u, One, y)
    OBVIOUS
  <2> DEFINE z == Eliminate(Nought(r), One, w)
             s == Eliminate(y, t, z)
  <2>2. z \in V /\ w \in Columns(r) /\ y \in Columns(r)
    BY <1>0, SpaceLaws
  <2>3. Eliminate(Nought(r), One, z) = w
    BY <2>2, NoughtLaws
  <2> HIDE DEF z
  <2>4. s \in V /\ z \in Columns(r)
    BY <1>0, <2>2, SpaceLaws
  <2>5. Eliminate(Eliminate(u, One, y), t, Eliminate(Nought(r), One, z))
          = Eliminate(Eliminate(u, t, Nought(r)), One, s)
    BY <1>0, <2>2, <2>4, EliminatePairs
  <2>6. Eliminate(u, t, Nought(r)) = u
    BY NoughtLaws
  <2>7. Eliminate(x, t, w) = Eliminate(u, One, s)
    BY <2>1, <2>3, <2>5, <2>6
  <2>8. s \in Columns(r)
    BY <1>0, <2>4
  <2> HIDE DEF s
  <2>9. Eliminate(u, One, s) \in Columns(r)
    BY <1>0, <2>8, EliminateColumns
  <2> QED BY <2>4, <2>7, <2>9
<1>4. \A x \in T, p \in DOMAIN b : Eliminate(x, x[p], b[p]) \in T
  <2> TAKE x \in T, p \in DOMAIN b
  <2>1. x[p] \in Scalars /\ b[p] \in V
    BY <1>0, EntryType
  <2> HIDE DEF T
  <2> QED BY <1>3, <2>1
<1>5. T \subseteq Columns(r)
  OBVIOUS
<1>6. \A x \in T : \E y \in V : x = Eliminate(u, One, y)
  OBVIOUS
<1> HIDE DEF T
<1>7. PICK g : /\ g[0] = u
               /\ \A k \in 1 .. n : g[k] = Turn(b, g[k - 1], k - 1)
               /\ Reduce(b, u) = g[n]
  BY <1>1, <1>2, <1>4, ReduceSteps
<1>8. \A k \in 0 .. n : g[k] \in T
  <2>1. g[0] \in T
    BY <1>2, <1>7
  <2>2. \A k \in 1 .. n : g[k - 1] \in T => g[k] \in T
    BY <1>4, <1>7 DEF Turn
  <2>3. n \in Nat
    BY <1>1
  <2> HIDE DEF n
  <2> QED BY <2>1, <2>2, <2>3, LoopKeeps
<1> HIDE DEF n
<1> DEFINE Good == {k \in Nat : k <= n => \A q \in DOMAIN b : q < k => g[k][q] = Zero}
<1>9. 0 \in Good
  BY <1>0
<1>10. ASSUME NEW k \in Nat, k \in Good PROVE k + 1 \in Good
  <2> SUFFICES ASSUME k + 1 <= n, NEW q \in DOMAIN b, q < k + 1
               PROVE  g[k + 1][q] = Zero
    OBVIOUS
  <2>1. n \in Nat /\ k \in 0 .. n /\ k + 1 \in 1 .. n /\ (k + 1) - 1 = k
    BY <1>1
  <2>2. g[k + 1] = Turn(b, g[k], k) /\ g[k] \in Columns(r)
    BY <1>5, <1>7, <1>8, <2>1
  <2>3. q < k => g[k][q] = Zero
    BY <1>10, <2>1
  <2> DEFINE x == g[k]
  <2>4. CASE k \in DOMAIN b
    <3>1. g[k + 1] = Eliminate(x, x[k], b[k])
      BY <2>2, <2>4 DEF Turn
    <3>2. x \in Columns(r) /\ b[k] \in Columns(r) /\ k \in 0 .. r - 1 /\ q \in 0 .. r - 1
      BY <1>0, <2>2, <2>4
    <3>3. x[k] \in Scalars /\ x[q] \in Scalars
      BY <3>2, EntryType
    <3>4. g[k + 1][q] = x[q] \ominus (x[k] \otimes b[k][q])
      BY <3>1, <3>2, <3>3, EntryOf
    <3>5. b[k][q] = Unit(k, q)
      BY <1>0, <2>4
    <3> HIDE DEF x
    <3>6. CASE q = k
      <4>1. g[k + 1][q] = x[q] \ominus (x[q] \otimes One)
        BY <3>4, <3>5, <3>6 DEF Unit
      <4> QED BY <3>3, <4>1, ZeroLaws
    <3>7. CASE q # k
      <4>1. q < k
        BY <1>0, <3>2, <3>7
      <4>2. x[q] = Zero /\ b[k][q] = Zero
        BY <2>3, <3>5, <3>7, <4>1 DEF x, Unit
      <4>3. g[k + 1][q] = x[q] \ominus (x[k] \otimes Zero)
        BY <3>4, <4>2
      <4> QED BY <3>3, <4>2, <4>3, ZeroLaws
    <3> QED BY <3>6, <3>7
  <2>5. CASE k \notin DOMAIN b
    <3>1. g[k + 1] = g[k] /\ q # k
      BY <2>2, <2>5 DEF Turn
    <3>2. q < k
      BY <1>0, <3>1
    <3> QED BY <2>3, <3>1, <3>2
  <2> QED BY <2>4, <2>5
<1>11. Nat \subseteq Good
  <2> HIDE DEF Good
  <2> QED BY <1>9, <1>10, SetInduction
<1>12. Misses(g[n], b)
  <2>1. n \in Nat /\ n \in Good /\ \A q \in DOMAIN b : q < n
    BY <1>0, <1>1, <1>11
  <2> QED BY <2>1 DEF Misses
<1>13. g[n] \in T
  BY <1>1, <1>8
<1> QED BY <1>5, <1>6, <1>7, <1>12, <1>13 DEF Residue

--------------------------------------------------------------------------------
\* What Reduce leaves is zero just for the columns of the space, and nothing is taken off a
\* column without pivots.
LEMMA ReduceLaws ==
    ASSUME NEW r \in Nat, NEW V, IsSpace(r, V), NEW b, IsBasis(r, b, V), NEW u \in Columns(r)
    PROVE  /\ Reduce(b, u) \in Columns(r) /\ Misses(Reduce(b, u), b)
           /\ \E y \in V : Reduce(b, u) = Eliminate(u, One, y)
           /\ Reduce(b, u) = Nought(r) <=> u \in V
           /\ Misses(u, b) => Reduce(b, u) = u
<1> DEFINE x == Reduce(b, u)
           o == Nought(r)
<1>0. /\ One \in Scalars /\ V \subseteq Columns(r) /\ o \in V /\ o \in Columns(r)
      /\ DOMAIN b \subseteq 0 .. r - 1
  BY Closure, SpaceLaws DEF IsBasis, IsReduced
<1>1. Residue(r, b, V, u, x)
  BY ReduceResidue
<1> HIDE DEF x
<1>2. x \in Columns(r) /\ Misses(x, b) /\ \E y \in V : x = Eliminate(u, One, y)
  BY <1>1 DEF Residue
<1>3. ASSUME Misses(u, b) PROVE x = u
  <2>1. Eliminate(u, One, o) = u
    BY <1>0, NoughtLaws
  <2>2. Residue(r, b, V, u, u)
    BY <1>0, <1>3, <2>1 DEF Residue
  <2> QED BY <1>1, <2>2, ResidueUnique
<1>4. ASSUME u \in V PROVE x = o
  <2>1. Eliminate(u, One, u) = o
    BY <1>0, NoughtLaws
  <2>2. Misses(o, b)
    BY <1>0, ColumnsAre DEF Misses
  <2>3. Residue(r, b, V, u, o)
    BY <1>0, <1>4, <2>1, <2>2 DEF Residue
  <2> QED BY <1>1, <2>3, ResidueUnique
<1>5. ASSUME x = o PROVE u \in V
  <2>1. PICK y \in V : x = Eliminate(u, One, y)
    BY <1>2
  <2>2. y \in Columns(r)
    BY <1>0
  <2>3. \A k \in 0 .. r - 1 : u[k] = y[k]
    <3> TAKE k \in 0 .. r - 1
    <3>1. u[k] \in Scalars /\ y[k] \in Scalars
      BY <2>2, EntryType
    <3>2. x[k] = u[k] \ominus (One \otimes y[k])
      BY <1>0, <2>1, <2>2, EntryOf
    <3>3. x[k] = Zero
      BY <1>5, ColumnsAre
    <3>4. u[k] \ominus y[k] = Zero
      BY <3>1, <3>2, <3>3, ZeroLaws
    <3> QED BY <3>1, <3>4, SubZero
  <2>4. u = y
    BY <2>2, <2>3, ColumnsEqual
  <2> QED BY <2>4
<1> QED BY <1>2, <1>3, <1>4, <1>5 DEF x

\* Reduce is linear.
LEMMA ReduceLinear ==
    ASSUME NEW r \in Nat, NEW V, IsSpace(r, V), NEW b, IsBasis(r, b, V),
           NEW u \in Columns(r), NEW v \in Columns(r), NEW c \in Scalars
    PROVE  Reduce(b, Eliminate(u, c, v)) = Eliminate(Reduce(b, u), c, Reduce(b, v))
<1> DEFINE x == Reduce(b, u)
           z == Reduce(b, v)
           w == Eliminate(u, c, v)
           d == Eliminate(x, c, z)
<1>0. One \in Scalars /\ V \subseteq Columns(r) /\ DOMAIN b \subseteq 0 .. r - 1
  BY Closure, SpaceLaws DEF IsBasis, IsReduced
<1>1. x \in Columns(r) /\ Misses(x, b) /\ z \in Columns(r) /\ Misses(z, b)
  BY ReduceLaws
<1>2. PICK y \in V : x = Eliminate(u, One, y)
  BY ReduceLaws
<1>3. PICK q \in V : z = Eliminate(v, One, q)
  BY ReduceLaws
<1>4. w \in Columns(r) /\ Residue(r, b, V, w, Reduce(b, w))
  BY EliminateColumns, ReduceResidue
<1> HIDE DEF x, z
<1>5. d \in Columns(r)
  BY <1>1, EliminateColumns
<1>6. Misses(d, b)
  <2> SUFFICES ASSUME NEW p \in DOMAIN b PROVE d[p] = Zero
    BY DEF Misses
  <2>1. p \in 0 .. r - 1 /\ x[p] = Zero /\ z[p] = Zero
    BY <1>0, <1>1 DEF Misses
  <2>2. d[p] = Zero \ominus (c \otimes Zero)
    BY <1>1, <2>1, EntryOf
  <2> QED BY <2>2, Closure, ZeroLaws
<1>7. d = Eliminate(w, One, Eliminate(y, c, q))
  <2>1. y \in Columns(r) /\ q \in Columns(r)
    BY <1>0
  <2> QED BY <1>0, <1>2, <1>3, <2>1, EliminatePairs
<1>8. Eliminate(y, c, q) \in V
  BY SpaceLaws
<1> HIDE DEF w, d
<1>9. Residue(r, b, V, w, d)
  BY <1>5, <1>6, <1>7, <1>8 DEF Residue
<1>10. Reduce(b, w) = d
  BY <1>4, <1>9, ResidueUnique
<1> QED BY <1>10 DEF w, d, x, z

LEMMA NormalizedColumn ==
    ASSUME NEW r, NEW u \in Columns(r), Support(u) # {}
    PROVE  /\ Least(Support(u)) \in 0 .. r - 1 /\ u[Least(Support(u))] # Zero
           /\ Normalized(u) \in Columns(r) /\ Normalized(u)[Least(Support(u))] = One
           /\ \A q \in 0 .. r - 1 : u[q] = Zero => Normalized(u)[q] = Zero
           /\ \E c \in Scalars : Normalized(u) = Eliminate(Nought(r), c, u)
<1> DEFINE p == Least(Support(u))
           inv == Reciprocal(u[p])
           c == Minus(inv)
           n == Normalized(u)
<1>1. p \in 0 .. r - 1 /\ u[p] # Zero
  <2>1. DOMAIN u = 0 .. r - 1
    BY DEF Columns
  <2>2. Support(u) \in SUBSET Nat
    BY <2>1 DEF Support
  <2>3. p \in Support(u)
    BY <2>2, LeastOf
  <2> HIDE DEF p
  <2> QED BY <2>1, <2>3 DEF Support
<1>2. u[p] \in Scalars
  BY <1>1, EntryType
<1>3. n = [k \in 0 .. r - 1 |-> u[k] \otimes inv]
  BY DEF Normalized, Columns
<1> HIDE DEF p
<1>4. inv \in Scalars /\ u[p] \otimes inv = One
  BY <1>1, <1>2, ReciprocalType
<1> HIDE DEF inv
<1>5. \A k \in 0 .. r - 1 : u[k] \in Scalars /\ n[k] = u[k] \otimes inv /\ n[k] \in Scalars
  BY <1>3, <1>4, EntryType, MinusType
<1>6. n \in Columns(r)
  BY <1>3, <1>5 DEF Columns
<1> HIDE DEF n
<1>7. n[p] = One
  BY <1>1, <1>4, <1>5
<1>8. \A q \in 0 .. r - 1 : u[q] = Zero => n[q] = Zero
  BY <1>4, <1>5, ZeroLaws
<1>9. c \in Scalars
  BY <1>4, Closure
<1>10. n = Eliminate(Nought(r), c, u)
  <2>1. Nought(r) \in Columns(r)
    BY ColumnsAre
  <2>2. Eliminate(Nought(r), c, u) \in Columns(r)
    BY <1>9, <2>1, EliminateColumns
  <2>3. ASSUME NEW k \in 0 .. r - 1 PROVE n[k] = Eliminate(Nought(r), c, u)[k]
    <3> DEFINE a == u[k]
    <3>1. a \in Scalars /\ n[k] = Times(a, inv)
      BY <1>5 DEF \otimes
    <3>2. Eliminate(Nought(r), c, u)[k] = Zero \ominus (c \otimes a)
      BY <1>9, <2>1, ColumnsAre, EntryOf
    <3> HIDE DEF a, c
    <3>3. Times(a, c) = Minus(Times(a, inv)) /\ Times(c, a) = Times(a, c)
      BY <1>4, <1>9, <3>1, TimesMinus, TimesLaws DEF c
    <3>4. Times(a, inv) \in Scalars
      BY <1>4, <3>1, Closure
    <3>5. Minus(Minus(Times(a, inv))) = Times(a, inv)
      BY <3>4, MinusMinus
    <3>6. Plus(Zero, Times(a, inv)) = Times(a, inv)
      BY <3>4, PlusZero
    <3> QED BY <3>1, <3>2, <3>3, <3>5, <3>6 DEF \ominus, \otimes
  <2> QED BY <1>6, <2>2, <2>3, ColumnsEqual
<1> QED BY <1>1, <1>6, <1>7, <1>8, <1>9, <1>10 DEF p, n

\* RowBasis::insert turns a basis of V into one of V extended by v; the new vector adds to
\* the rank unless v was in V.
LEMMA InsertBasis ==
    ASSUME NEW r \in Nat, NEW V, IsSpace(r, V), NEW b, IsBasis(r, b, V), NEW v \in Columns(r)
    PROVE  /\ IsBasis(r, RowInsert(b, v), Extend(V, v))
           /\ Cardinality(DOMAIN b) \in Nat
           /\ Cardinality(DOMAIN RowInsert(b, v))
                = Cardinality(DOMAIN b) + (IF v \in V THEN 0 ELSE 1)
<1> DEFINE u == Reduce(b, v)
           E == Extend(V, v)
           new == Least(Support(u))
           n == Normalized(u)
           a == RowInsert(b, v)
<1>0. /\ One \in Scalars /\ Zero \in Scalars /\ V \subseteq Columns(r)
      /\ Nought(r) \in V /\ Nought(r) \in Columns(r)
      /\ DOMAIN b \subseteq 0 .. r - 1
      /\ \A p \in DOMAIN b : /\ b[p] \in V /\ b[p] \in Columns(r)
                             /\ \A q \in DOMAIN b : b[p][q] = Unit(p, q)
  BY Closure, SpaceLaws, ColumnsAre DEF IsBasis, IsReduced, Spans
<1>1. IsFiniteSet(DOMAIN b) /\ Cardinality(DOMAIN b) \in Nat
  <2>1. IsFiniteSet(0 .. r - 1)
    <3>1. 0 \in Int /\ r - 1 \in Int
      OBVIOUS
    <3> QED BY <3>1, FS_Interval
  <2>2. IsFiniteSet(DOMAIN b)
    BY <1>0, <2>1, FS_Subset
  <2> QED BY <2>2, FS_CardinalityType
<1>2. IsSpace(r, E) /\ V \subseteq E /\ v \in E /\ E \subseteq Columns(r) /\ (v \in V => E = V)
  BY ExtendSpace, SpaceLaws
<1>3. /\ u \in Columns(r) /\ Misses(u, b)
      /\ u = Nought(r) <=> v \in V
      /\ Support(u) = {} <=> u = Nought(r)
  BY ReduceLaws, ColumnsAre
<1>4. PICK y \in V : u = Eliminate(v, One, y)
  BY ReduceLaws
<1>5. CASE Support(u) = {}
  <2>1. a = b /\ v \in V
    BY <1>3, <1>5 DEF RowInsert
  <2> HIDE DEF a
  <2> QED BY <1>1, <1>2, <2>1 DEF a
<1>6. CASE Support(u) # {}
  <2>1. v \notin V /\ u # Nought(r)
    BY <1>3, <1>6
  <2>2. a = [p \in DOMAIN b \cup {new} |-> IF p = new THEN n ELSE Eliminate(b[p], b[p][new], n)]
    BY <1>6 DEF RowInsert
  <2>3. u \in E
    BY <1>0, <1>2, <1>4, SpaceLaws
  <2> HIDE DEF u
  <2>4. /\ new \in 0 .. r - 1 /\ u[new] # Zero /\ n \in Columns(r) /\ n[new] = One
        /\ \A q \in 0 .. r - 1 : u[q] = Zero => n[q] = Zero
        /\ \E c \in Scalars : n = Eliminate(Nought(r), c, u)
    BY <1>3, <1>6, NormalizedColumn
  <2> HIDE DEF new, n, a, E
  <2>5. \A q \in DOMAIN b : u[q] = Zero /\ n[q] = Zero /\ q # new /\ q \in 0 .. r - 1
    BY <1>0, <1>3, <2>4 DEF Misses
  <2>6. n \in E
    BY <1>0, <1>2, <2>3, <2>4, SpaceLaws
  <2>7. DOMAIN a = DOMAIN b \cup {new} /\ new \notin DOMAIN b /\ a[new] = n
        /\ \A p \in DOMAIN b : a[p] = Eliminate(b[p], b[p][new], n)
    BY <2>2, <2>5
  <2>8. \A p \in DOMAIN b : b[p][new] \in Scalars
    BY <1>0, <2>4, EntryType
  <2>9. \A p \in DOMAIN b : a[p] \in E /\ a[p] \in Columns(r)
    <3> TAKE p \in DOMAIN b
    <3>1. b[p] \in E /\ b[p][new] \in Scalars /\ a[p] = Eliminate(b[p], b[p][new], n)
      BY <1>0, <1>2, <2>7, <2>8
    <3>2. Eliminate(b[p], b[p][new], n) \in E
      BY <1>2, <2>6, <3>1, SpaceLaws
    <3> QED BY <1>2, <3>1, <3>2
  <2>10. ASSUME NEW p \in DOMAIN b, NEW q \in DOMAIN a PROVE a[p][q] = Unit(p, q)
    <3>1. /\ q \in 0 .. r - 1 /\ b[p] \in Columns(r)
          /\ b[p][q] \in Scalars /\ b[p][new] \in Scalars
      BY <1>0, <2>4, <2>7, EntryType
    <3>2. a[p][q] = b[p][q] \ominus (b[p][new] \otimes n[q])
      BY <2>4, <2>7, <3>1, EntryOf
    <3>3. CASE q = new
      <4>1. a[p][q] = b[p][q] \ominus (b[p][q] \otimes One)
        BY <2>4, <3>2, <3>3
      <4>2. a[p][q] = Zero
        BY <3>1, <4>1, ZeroLaws
      <4> QED BY <2>5, <3>3, <4>2 DEF Unit
    <3>4. CASE q # new
      <4>1. q \in DOMAIN b
        BY <2>7, <3>4
      <4>2. a[p][q] = b[p][q] \ominus (b[p][new] \otimes Zero)
        BY <2>5, <3>2, <4>1
      <4>3. a[p][q] = b[p][q]
        BY <3>1, <4>2, ZeroLaws
      <4> QED BY <1>0, <4>1, <4>3
    <3> QED BY <3>3, <3>4
  <2>11. \A q \in DOMAIN a : n[q] = Unit(new, q)
    BY <2>4, <2>5, <2>7 DEF Unit
  <2>12. IsReduced(r, a)
    <3>1. DOMAIN a \subseteq 0 .. r - 1
      BY <1>0, <2>4, <2>7
    <3>2. \A p \in DOMAIN a : a[p] \in Columns(r)
      BY <2>4, <2>7, <2>9
    <3>3. \A p \in DOMAIN a : \A q \in DOMAIN a : a[p][q] = Unit(p, q)
      BY <2>7, <2>10, <2>11
    <3> QED BY <3>1, <3>2, <3>3 DEF IsReduced
  <2>13. ASSUME NEW x \in E, Misses(x, a) PROVE x = Nought(r)
    <3>1. PICK z \in V, c \in Scalars : x = Eliminate(z, c, v)
      BY DEF E, Extend
    <3>2. x \in Columns(r) /\ z \in Columns(r)
      BY <1>0, <1>2
    <3>3. Misses(x, b)
      BY <2>7, <2>13 DEF Misses
    <3>4. Reduce(b, x) = x
      BY <3>2, <3>3, ReduceLaws
    <3>5. Reduce(b, z) = Nought(r)
      BY <3>2, ReduceLaws
    <3>6. Reduce(b, Eliminate(z, c, v)) = Eliminate(Reduce(b, z), c, Reduce(b, v))
      BY <3>2, ReduceLinear
    <3>7. x = Eliminate(Nought(r), c, u)
      BY <3>1, <3>4, <3>5, <3>6 DEF u
    <3>8. x[new] = Zero
      BY <2>7, <2>13 DEF Misses
    <3>9. x[new] = Zero \ominus (c \otimes u[new]) /\ u[new] \in Scalars
      BY <1>0, <1>3, <2>4, <3>7, EntryOf, EntryType, ColumnsAre
    <3>10. c \otimes u[new] \in Scalars
      BY <3>9, MinusType
    <3>11. c \otimes u[new] = Zero
      BY <1>0, <3>8, <3>9, <3>10, SubZero
    <3>12. c = Zero
      BY <2>4, <3>9, <3>11, TimesNonZero DEF \otimes
    <3>13. Eliminate(Nought(r), Zero, u) = Nought(r)
      BY <1>0, <1>3, EliminateNothing DEF Columns
    <3> QED BY <3>7, <3>12, <3>13
  <2>14. IsBasis(r, a, E)
    <3>1. \A p \in DOMAIN a : a[p] \in E
      BY <2>6, <2>7, <2>9
    <3> QED BY <2>12, <2>13, <3>1 DEF IsBasis, Spans
  <2>15. Cardinality(DOMAIN a) = Cardinality(DOMAIN b) + 1
    BY <1>1, <2>7, FS_AddElement
  <2> QED BY <1>1, <2>1, <2>14, <2>15 DEF a, E
<1> QED BY <1>5, <1>6

--------------------------------------------------------------------------------
(***************************************************************************)
(* Ranks: the columns of P meet V in zero alone when their images under    *)
(* the reduction by a basis of V have the rank of P.                       *)
(***************************************************************************)
Images(b, P) == {Reduce(b, y) : y \in P}
Meet(r, V, P) == \E x \in V \cap P : x # Nought(r)
Ranked(r, V, P, vb, pb, ib) ==
    /\ IsBasis(r, vb, V) /\ IsBasis(r, pb, P) /\ IsBasis(r, ib, Images(vb, P))
    /\ Cardinality(DOMAIN ib) <= Cardinality(DOMAIN pb)
    /\ Cardinality(DOMAIN ib) = Cardinality(DOMAIN pb) <=> ~ Meet(r, V, P)

LEMMA ImagesSpace ==
    ASSUME NEW r \in Nat, NEW V, IsSpace(r, V), NEW b, IsBasis(r, b, V), NEW P, IsSpace(r, P)
    PROVE  IsSpace(r, Images(b, P))
<1>1. P \subseteq Columns(r) /\ Nought(r) \in P /\ Nought(r) \in V
      /\ Nought(r) \in Columns(r)
  BY SpaceLaws, ColumnsAre
<1>2. Images(b, P) \subseteq Columns(r)
  <2>1. \A y \in P : Reduce(b, y) \in Columns(r)
    BY <1>1, ReduceLaws
  <2> QED BY <2>1 DEF Images
<1>3. Nought(r) \in Images(b, P)
  <2>1. Reduce(b, Nought(r)) = Nought(r)
    BY <1>1, ReduceLaws
  <2> QED BY <1>1, <2>1 DEF Images
<1>4. ASSUME NEW x \in Images(b, P), NEW z \in Images(b, P), NEW c \in Scalars
      PROVE  Eliminate(x, c, z) \in Images(b, P)
  <2>1. PICK y \in P : x = Reduce(b, y)
    BY DEF Images
  <2>2. PICK w \in P : z = Reduce(b, w)
    BY DEF Images
  <2>3. Eliminate(x, c, z) = Reduce(b, Eliminate(y, c, w))
    BY <1>1, <2>1, <2>2, ReduceLinear
  <2>4. Eliminate(y, c, w) \in P
    BY SpaceLaws
  <2> QED BY <2>3, <2>4 DEF Images
<1> QED BY <1>2, <1>3, <1>4 DEF IsSpace

LEMMA ImagesExtend ==
    ASSUME NEW r \in Nat, NEW V, IsSpace(r, V), NEW b, IsBasis(r, b, V),
           NEW P, IsSpace(r, P), NEW v \in Columns(r)
    PROVE  Images(b, Extend(P, v)) = Extend(Images(b, P), Reduce(b, v))
<1>1. P \subseteq Columns(r)
  BY SpaceLaws
<1>2. \A y \in P, c \in Scalars :
         Reduce(b, Eliminate(y, c, v)) = Eliminate(Reduce(b, y), c, Reduce(b, v))
  BY <1>1, ReduceLinear
<1>3. ASSUME NEW x \in Images(b, Extend(P, v)) PROVE x \in Extend(Images(b, P), Reduce(b, v))
  <2>1. PICK y \in P, c \in Scalars : x = Reduce(b, Eliminate(y, c, v))
    BY DEF Images, Extend
  <2> QED BY <1>2, <2>1 DEF Images, Extend
<1>4. ASSUME NEW x \in Extend(Images(b, P), Reduce(b, v)) PROVE x \in Images(b, Extend(P, v))
  <2>1. PICK y \in P, c \in Scalars : x = Eliminate(Reduce(b, y), c, Reduce(b, v))
    BY DEF Images, Extend
  <2> QED BY <1>2, <2>1 DEF Images, Extend
<1> QED BY <1>3, <1>4

\* A column of V extended by v either is one of V or shows that v is.
LEMMA ExtendSolves ==
    ASSUME NEW r \in Nat, NEW V, IsSpace(r, V), NEW b, IsBasis(r, b, V), NEW P, IsSpace(r, P),
           NEW v \in Columns(r)
    PROVE  /\ Meet(r, V, Extend(P, v)) /\ ~ Meet(r, V, P) =>
                  v \notin P /\ Reduce(b, v) \in Images(b, P)
           /\ v \notin P /\ Reduce(b, v) \in Images(b, P) => Meet(r, V, Extend(P, v))
<1>0. /\ One \in Scalars /\ Zero \in Scalars
      /\ P \subseteq Columns(r) /\ Nought(r) \in P /\ Nought(r) \in Columns(r)
      /\ IsSpace(r, Extend(P, v)) /\ P \subseteq Extend(P, v) /\ v \in Extend(P, v)
      /\ (v \in P => Extend(P, v) = P)
  BY Closure, SpaceLaws, ExtendSpace, ColumnsAre
<1>1. ASSUME Meet(r, V, Extend(P, v)), ~ Meet(r, V, P)
      PROVE  v \notin P /\ Reduce(b, v) \in Images(b, P)
  <2>1. PICK x \in V \cap Extend(P, v) : x # Nought(r)
    BY <1>1 DEF Meet
  <2>2. PICK y \in P, c \in Scalars : x = Eliminate(y, c, v)
    BY DEF Extend
  <2>3. v \notin P
    BY <1>0, <1>1
  <2>4. c # Zero
    <3> SUFFICES ASSUME c = Zero PROVE FALSE
      OBVIOUS
    <3>1. Eliminate(y, Zero, v) = y
      BY <1>0, EliminateNothing DEF Columns
    <3>2. x \in V \cap P
      BY <2>2, <3>1
    <3> QED BY <1>1, <2>1, <3>2 DEF Meet
  <2> DEFINE inv == Reciprocal(c)
             p == Reduce(b, y)
             q == Reduce(b, v)
             w == Eliminate(Nought(r), Minus(inv), y)
  <2>5. inv \in Scalars /\ Minus(inv) \in Scalars /\ Times(c, inv) = One
    <3>1. inv \in Scalars /\ Times(c, inv) = One
      BY <2>4, ReciprocalType DEF \otimes
    <3> QED BY <3>1, Closure
  <2>6. w \in P /\ Reduce(b, w) = Eliminate(Nought(r), Minus(inv), p)
    <3>1. w \in P
      BY <1>0, <2>5, SpaceLaws
    <3>2. Reduce(b, Nought(r)) = Nought(r)
      BY <1>0, SpaceLaws, ReduceLaws
    <3>3. Reduce(b, w) = Eliminate(Reduce(b, Nought(r)), Minus(inv), p)
      BY <1>0, <2>5, ReduceLinear
    <3> QED BY <3>1, <3>2, <3>3
  <2>7. p \in Columns(r) /\ q \in Columns(r)
    BY <1>0, ReduceLaws
  <2>8. Eliminate(p, c, q) = Nought(r)
    <3>1. Reduce(b, x) = Nought(r)
      BY <2>1, SpaceLaws, ReduceLaws
    <3> QED BY <1>0, <2>2, <3>1, ReduceLinear
  <2> HIDE DEF inv, p, q, w
  <2>9. ASSUME NEW k \in 0 .. r - 1 PROVE Eliminate(Nought(r), Minus(inv), p)[k] = q[k]
    <3> DEFINE X == p[k]
               Y == q[k]
    <3>1. X \in Scalars /\ Y \in Scalars
      BY <2>7, EntryType
    <3>2. X \ominus (c \otimes Y) = Zero
      BY <2>7, <2>8, EntryOf, ColumnsAre
    <3>3. Eliminate(Nought(r), Minus(inv), p)[k] = Zero \ominus (Minus(inv) \otimes X)
      BY <1>0, <2>5, <2>7, EntryOf, ColumnsAre
    <3> HIDE DEF X, Y
    <3>4. X = Times(c, Y)
      BY <3>1, <3>2, MinusType, SubZero DEF \otimes
    <3>5. Times(inv, X) = Y
      <4>1. Times(inv, Times(c, Y)) = Times(Times(inv, c), Y) /\ Times(inv, c) = Times(c, inv)
        BY <2>5, <3>1, TimesLaws
      <4>2. Times(One, Y) = Y
        BY <1>0, <3>1, TimesLaws
      <4> QED BY <2>5, <3>4, <4>1, <4>2
    <3>6. Times(Minus(inv), X) = Minus(Y)
      <4>1. Times(X, Minus(inv)) = Minus(Times(X, inv))
        BY <2>5, <3>1, TimesMinus
      <4>2. Times(X, Minus(inv)) = Times(Minus(inv), X) /\ Times(X, inv) = Times(inv, X)
        BY <2>5, <3>1, TimesLaws
      <4> QED BY <3>5, <4>1, <4>2
    <3>7. Zero \ominus Minus(Y) = Y
      BY <3>1, MinusMinus, PlusZero DEF \ominus
    <3> QED BY <3>3, <3>6, <3>7 DEF Y, \otimes
  <2>10. Eliminate(Nought(r), Minus(inv), p) \in Columns(r)
    BY <1>0, <2>5, <2>7, EliminateColumns
  <2>11. Eliminate(Nought(r), Minus(inv), p) = q
    BY <2>7, <2>9, <2>10, ColumnsEqual
  <2> QED BY <2>3, <2>6, <2>11 DEF q, Images
<1>2. ASSUME v \notin P, Reduce(b, v) \in Images(b, P) PROVE Meet(r, V, Extend(P, v))
  <2>1. PICK y \in P : Reduce(b, v) = Reduce(b, y)
    BY <1>2 DEF Images
  <2> DEFINE x == Eliminate(y, One, v)
             p == Reduce(b, y)
  <2>2. y \in Columns(r) /\ p \in Columns(r) /\ x \in Columns(r)
    BY <1>0, ReduceLaws, EliminateColumns
  <2>3. Reduce(b, x) = Nought(r)
    <3>1. Reduce(b, x) = Eliminate(p, One, p)
      BY <1>0, <2>1, <2>2, ReduceLinear
    <3> HIDE DEF p, x
    <3> QED BY <1>0, <2>2, <3>1, NoughtLaws
  <2>4. x \in V
    BY <2>2, <2>3, ReduceLaws
  <2>5. x \in Extend(P, v)
    BY <1>0 DEF Extend
  <2>6. x # Nought(r)
    <3> SUFFICES ASSUME x = Nought(r) PROVE FALSE
      OBVIOUS
    <3>1. ASSUME NEW k \in 0 .. r - 1 PROVE y[k] = v[k]
      <4>1. y[k] \in Scalars /\ v[k] \in Scalars
        BY <2>2, EntryType
      <4>2. x[k] = y[k] \ominus (One \otimes v[k])
        BY <1>0, <2>2, EntryOf
      <4>3. x[k] = Zero
        BY ColumnsAre
      <4>4. y[k] \ominus v[k] = Zero
        BY <4>1, <4>2, <4>3, ZeroLaws
      <4> QED BY <4>1, <4>4, SubZero
    <3>2. y = v
      BY <2>2, <3>1, ColumnsEqual
    <3> QED BY <1>2, <3>2
  <2> QED BY <2>4, <2>5, <2>6 DEF Meet
<1> QED BY <1>1, <1>2

LEMMA RankStep ==
    ASSUME NEW r \in Nat, NEW V, IsSpace(r, V), NEW P, IsSpace(r, P),
           NEW vb, NEW pb, NEW ib, Ranked(r, V, P, vb, pb, ib), NEW v \in Columns(r)
    PROVE  Ranked(r, V, Extend(P, v), vb, RowInsert(pb, v), RowInsert(ib, Reduce(vb, v)))
<1> DEFINE E == Extend(P, v)
           I == Images(vb, P)
           u == Reduce(vb, v)
           x == Cardinality(DOMAIN ib)
           y == Cardinality(DOMAIN pb)
           x1 == Cardinality(DOMAIN RowInsert(ib, u))
           y1 == Cardinality(DOMAIN RowInsert(pb, v))
<1>1. /\ IsBasis(r, vb, V) /\ IsBasis(r, pb, P) /\ IsBasis(r, ib, I)
      /\ x <= y
      /\ x = y <=> ~ Meet(r, V, P)
  BY DEF Ranked
<1>2. IsSpace(r, I) /\ u \in Columns(r) /\ Images(vb, E) = Extend(I, u)
  BY <1>1, ImagesSpace, ImagesExtend, ReduceLaws
<1>3. IsBasis(r, RowInsert(pb, v), E) /\ y \in Nat /\ y1 = y + (IF v \in P THEN 0 ELSE 1)
  BY <1>1, InsertBasis
<1>4. IsBasis(r, RowInsert(ib, u), Extend(I, u)) /\ x \in Nat
      /\ x1 = x + (IF u \in I THEN 0 ELSE 1)
  <2> HIDE DEF u, I
  <2> QED BY <1>1, <1>2, InsertBasis
<1>5. /\ v \in P => E = P
      /\ Meet(r, V, P) => Meet(r, V, E)
  BY ExtendSpace DEF Meet
<1>6. v \in P => u \in I
  BY DEF Images
<1>7. /\ Meet(r, V, E) /\ ~ Meet(r, V, P) => v \notin P /\ u \in I
      /\ v \notin P /\ u \in I => Meet(r, V, E)
  BY <1>1, ExtendSolves
<1> HIDE DEF E, I, u, x, y, x1, y1
<1>8. x1 <= y1
  BY <1>1, <1>3, <1>4, <1>6
<1>9. x1 = y1 <=> ~ Meet(r, V, E)
  <2>1. CASE v \in P
    BY <1>1, <1>3, <1>4, <1>5, <1>6, <2>1
  <2>2. CASE v \notin P /\ u \in I
    <3>1. Meet(r, V, E) /\ x1 = x /\ y1 = y + 1
      BY <1>3, <1>4, <1>7, <2>2
    <3> QED BY <1>1, <1>3, <1>4, <3>1
  <2>3. CASE v \notin P /\ u \notin I
    <3>1. x1 = x + 1 /\ y1 = y + 1
      BY <1>3, <1>4, <2>3
    <3>2. Meet(r, V, E) <=> Meet(r, V, P)
      BY <1>5, <1>7, <2>3
    <3> QED BY <1>1, <1>3, <1>4, <3>1, <3>2
  <2> QED BY <2>1, <2>2, <2>3
<1> QED BY <1>1, <1>2, <1>3, <1>4, <1>8, <1>9 DEF Ranked, E, u, x1, y1

\* Before the first column.
LEMMA RankStart ==
    ASSUME NEW r \in Nat, NEW V, IsSpace(r, V), NEW vb, IsBasis(r, vb, V)
    PROVE  /\ IsSpace(r, {Nought(r)}) /\ IsBasis(r, NoVectors, {Nought(r)})
           /\ Ranked(r, V, {Nought(r)}, vb, NoVectors, NoVectors)
<1> DEFINE o == Nought(r)
<1>1. o \in Columns(r) /\ o \in V
  BY ColumnsAre, SpaceLaws
<1>2. \A c \in Scalars : Eliminate(o, c, o) = o
  BY <1>1, NoughtLaws
<1>3. Reduce(vb, o) = o
  BY <1>1, ReduceLaws
<1> HIDE DEF o
<1>4. IsSpace(r, {o})
  BY <1>1, <1>2 DEF IsSpace, o
<1>5. Images(vb, {o}) = {o}
  BY <1>3 DEF Images
<1>6. DOMAIN NoVectors = {}
  BY DEF NoVectors
<1>7. IsBasis(r, NoVectors, {o})
  BY <1>6 DEF IsBasis, IsReduced, Spans, o
<1>8. Cardinality({}) = 0
  BY FS_EmptySet
<1>9. ~ Meet(r, V, {o})
  BY DEF Meet, o
<1>10. Ranked(r, V, {o}, vb, NoVectors, NoVectors)
  <2> DEFINE y == Cardinality(DOMAIN NoVectors)
  <2>1. y = 0
    BY <1>6, <1>8
  <2>2. IsBasis(r, NoVectors, Images(vb, {o}))
    BY <1>5, <1>7
  <2> HIDE DEF y
  <2>3. y <= y /\ (y = y <=> ~ Meet(r, V, {o}))
    BY <1>9, <2>1
  <2> QED BY <1>7, <2>2, <2>3 DEF Ranked, y
<1> QED BY <1>4, <1>7, <1>10 DEF o

--------------------------------------------------------------------------------
(***************************************************************************)
(* Spans of the columns of a matrix.                                       *)
(***************************************************************************)
LEMMA MatrixColumns ==
    ASSUME NEW c \in Circuits, NEW m \in Matrices(c)
    PROVE  /\ c.rows \in Nat /\ DOMAIN m = 0 .. c.rows - 1
           /\ \A k \in 0 .. c.rows - 1, j \in 0 .. c.cols - 1 : m[k][j] \in Scalars
           /\ \A j \in 0 .. c.cols - 1 :
                 /\ Column(m, j) \in Columns(c.rows)
                 /\ \A k \in 0 .. c.rows - 1 : Column(m, j)[k] = m[k][j]
<1>1. c.rows \in Nat /\ DOMAIN m = 0 .. c.rows - 1
  BY CircuitFacts DEF Matrices, Rows
<1>2. \A k \in 0 .. c.rows - 1, j \in 0 .. c.cols - 1 : m[k][j] \in Scalars
  BY DEF Matrices, Rows
<1>3. \A j \in 0 .. c.cols - 1 :
         /\ Column(m, j) \in Columns(c.rows)
         /\ \A k \in 0 .. c.rows - 1 : Column(m, j)[k] = m[k][j]
  BY <1>1, <1>2 DEF Column, Columns
<1> QED BY <1>1, <1>2, <1>3

Weighted(m, x, k) == [j \in DOMAIN x |-> m[k][j] \otimes x[j]]

LEMMA CombinationIs ==
    ASSUME NEW c \in Circuits, NEW m \in Matrices(c), NEW s \in SUBSET (0 .. c.cols - 1),
           NEW x \in [s -> Scalars]
    PROVE  /\ IsFiniteSet(s)
           /\ \A k \in 0 .. c.rows - 1 : /\ Weighted(m, x, k) \in [s -> Scalars]
                                         /\ Combination(m, x)[k] = Total(Weighted(m, x, k))
           /\ Combination(m, x) \in Columns(c.rows)
<1>1. IsFiniteSet(s)
  <2>1. c.cols \in Nat
    BY CircuitFacts
  <2>2. 0 \in Int /\ c.cols - 1 \in Int
    BY <2>1
  <2>3. IsFiniteSet(0 .. c.cols - 1)
    BY <2>2, FS_Interval
  <2> QED BY <2>3, FS_Subset
<1>2. DOMAIN x = s /\ \A k \in 0 .. c.rows - 1, j \in s : m[k][j] \in Scalars /\ x[j] \in Scalars
  BY MatrixColumns
<1>3. \A k \in 0 .. c.rows - 1 : Weighted(m, x, k) \in [s -> Scalars]
  BY <1>2, MinusType DEF Weighted
<1>4. Combination(m, x) = [k \in 0 .. c.rows - 1 |-> Total(Weighted(m, x, k))]
  BY MatrixColumns DEF Combination, Weighted
<1>5. \A k \in 0 .. c.rows - 1 : Total(Weighted(m, x, k)) \in Scalars
  BY <1>1, <1>3, TotalType
<1> QED BY <1>1, <1>3, <1>4, <1>5 DEF Columns

LEMMA SpanEmpty ==
    ASSUME NEW c \in Circuits, NEW m \in Matrices(c)
    PROVE  SpanOf(m, {}) = {Nought(c.rows)}
<1> DEFINE s == {j \in 0 .. c.cols - 1 : FALSE}
           e == [j \in s |-> Zero]
<1>1. s \in SUBSET (0 .. c.cols - 1) /\ s = {}
  OBVIOUS
<1> HIDE DEF s
<1>2. e \in [s -> Scalars] /\ \A x \in [s -> Scalars] : x = e
  BY <1>1
<1> HIDE DEF e
<1>3. Combination(m, e) = Nought(c.rows)
  <2>1. ASSUME NEW k \in 0 .. c.rows - 1 PROVE Combination(m, e)[k] = Nought(c.rows)[k]
    <3> DEFINE v == Weighted(m, e, k)
    <3>1. v \in [s -> Scalars] /\ Combination(m, e)[k] = Total(v) /\ IsFiniteSet(s)
      BY <1>1, <1>2, CombinationIs
    <3> HIDE DEF v
    <3>2. Part(v, {}) = Zero /\ Part(v, s) = Total(v)
      BY <3>1, PartLaws, Zenon
    <3> QED BY <1>1, <3>1, <3>2, ColumnsAre
  <2>2. Combination(m, e) \in Columns(c.rows) /\ Nought(c.rows) \in Columns(c.rows)
    BY <1>1, <1>2, CombinationIs, ColumnsAre
  <2> QED BY <2>1, <2>2, ColumnsEqual
<1> QED BY <1>1, <1>2, <1>3 DEF SpanOf

\* One column more.
LEMMA CombinationGrows ==
    ASSUME NEW c \in Circuits, NEW m \in Matrices(c), NEW s \in SUBSET (0 .. c.cols - 1),
           NEW e \in (0 .. c.cols - 1) \ s, NEW x \in [s \cup {e} -> Scalars]
    PROVE  Combination(m, x)
             = Eliminate(Combination(m, [j \in s |-> x[j]]), Minus(x[e]), Column(m, e))
<1> DEFINE t == s \cup {e}
           y == [j \in s |-> x[j]]
           w == Column(m, e)
<1>1. t \in SUBSET (0 .. c.cols - 1) /\ x \in [t -> Scalars] /\ y \in [s -> Scalars]
      /\ x[e] \in Scalars /\ s \in SUBSET t /\ e \in t \ s /\ \A j \in s : y[j] = x[j]
  OBVIOUS
<1>2. w \in Columns(c.rows) /\ \A k \in 0 .. c.rows - 1 : w[k] = m[k][e] /\ w[k] \in Scalars
  BY MatrixColumns
<1>3. Minus(x[e]) \in Scalars
  BY <1>1, Closure
<1> HIDE DEF t, y, w
<1>4. Combination(m, x) \in Columns(c.rows) /\ Combination(m, y) \in Columns(c.rows)
  BY <1>1, CombinationIs
<1> DEFINE z == Eliminate(Combination(m, y), Minus(x[e]), w)
<1>5. z \in Columns(c.rows)
  BY <1>2, <1>3, <1>4, EliminateColumns
<1>6. ASSUME NEW k \in 0 .. c.rows - 1 PROVE Combination(m, x)[k] = z[k]
  <2> DEFINE v == Weighted(m, x, k)
             u == Weighted(m, y, k)
             a == x[e]
             b == w[k]
  <2>1. /\ v \in [t -> Scalars] /\ IsFiniteSet(t)
        /\ Combination(m, x)[k] = Total(v) /\ Combination(m, y)[k] = Total(u)
    BY <1>1, CombinationIs
  <2>2. u = [j \in s |-> v[j]] /\ v[e] = Times(b, a)
    BY <1>1, <1>2 DEF Weighted, \otimes
  <2>3. z[k] = Total(u) \ominus (Minus(a) \otimes b)
    BY <1>2, <1>3, <1>4, <2>1, EntryOf
  <2>4. a \in Scalars /\ b \in Scalars
    BY <1>1, <1>2
  <2> HIDE DEF u, v, a, b, z
  <2>5. /\ Part(v, t) = Total(v)
        /\ \A p \in SUBSET t : Part(v, p) \in Scalars
        /\ \A p \in SUBSET t : \A q \in t \ p : Part(v, p \cup {q}) = Plus(Part(v, p), v[q])
    BY <2>1, PartLaws, Zenon
  <2>6. Total(v) = Plus(Part(v, s), v[e]) /\ Part(v, s) = Total(u)
    BY <1>1, <2>2, <2>5 DEF Part, t
  <2>7. Minus(Times(Minus(a), b)) = Times(b, a)
    <3>1. Minus(a) \in Scalars /\ Times(b, a) \in Scalars
      BY <2>4, Closure
    <3>2. Times(b, Minus(a)) = Minus(Times(b, a)) /\ Times(Minus(a), b) = Times(b, Minus(a))
      BY <2>4, <3>1, TimesMinus, TimesLaws
    <3> QED BY <3>1, <3>2, MinusMinus
  <2> QED BY <2>1, <2>2, <2>3, <2>6, <2>7 DEF \ominus, \otimes
<1>7. Combination(m, x) = z
  BY <1>4, <1>5, <1>6, ColumnsEqual
<1> QED BY <1>7 DEF y, w

LEMMA SpanGrows ==
    ASSUME NEW c \in Circuits, NEW m \in Matrices(c), NEW s \in SUBSET (0 .. c.cols - 1),
           NEW e \in (0 .. c.cols - 1) \ s
    PROVE  SpanOf(m, s \cup {e}) = Extend(SpanOf(m, s), Column(m, e))
<1>1. ASSUME NEW x \in [s \cup {e} -> Scalars]
      PROVE  Combination(m, x) \in Extend(SpanOf(m, s), Column(m, e))
  <2> DEFINE y == [j \in s |-> x[j]]
             a == Minus(x[e])
  <2>1. Combination(m, x) = Eliminate(Combination(m, y), a, Column(m, e))
    BY CombinationGrows
  <2>2. y \in [s -> Scalars] /\ a \in Scalars
    BY Closure
  <2> HIDE DEF y, a
  <2>3. Combination(m, y) \in SpanOf(m, s)
    BY <2>2 DEF SpanOf
  <2> QED BY <2>1, <2>2, <2>3 DEF Extend
<1>2. ASSUME NEW y \in [s -> Scalars], NEW a \in Scalars
      PROVE  Eliminate(Combination(m, y), a, Column(m, e)) \in SpanOf(m, s \cup {e})
  <2> DEFINE x == [j \in s \cup {e} |-> IF j = e THEN Minus(a) ELSE y[j]]
  <2>1. x \in [s \cup {e} -> Scalars]
    BY Closure
  <2>2. [j \in s |-> x[j]] = y
    OBVIOUS
  <2>3. Minus(x[e]) = a
    BY MinusMinus
  <2> HIDE DEF x
  <2>4. Combination(m, x) = Eliminate(Combination(m, y), a, Column(m, e))
    BY <2>1, <2>2, <2>3, CombinationGrows
  <2> QED BY <2>1, <2>4 DEF SpanOf
<1>3. SpanOf(m, s \cup {e}) \subseteq Extend(SpanOf(m, s), Column(m, e))
  BY <1>1 DEF SpanOf
<1>4. Extend(SpanOf(m, s), Column(m, e)) \subseteq SpanOf(m, s \cup {e})
  BY <1>2 DEF SpanOf, Extend
<1> QED BY <1>3, <1>4

\* Spans are spaces, and zero in the rows where all their columns are.
LEMMA SpanSpace ==
    ASSUME NEW c \in Circuits, NEW m \in Matrices(c), NEW lo \in Nat, NEW hi \in Nat,
           lo <= hi, hi <= c.cols
    PROVE  /\ IsSpace(c.rows, SpanOf(m, lo .. hi - 1))
           /\ \A k \in 0 .. c.rows - 1 : (\A j \in lo .. hi - 1 : m[k][j] = Zero) =>
                 \A x \in SpanOf(m, lo .. hi - 1) : x[k] = Zero
<1> DEFINE S(h) == lo .. h - 1
           Flat(h) == \A k \in 0 .. c.rows - 1 : (\A j \in S(h) : m[k][j] = Zero) =>
                         \A x \in SpanOf(m, S(h)) : x[k] = Zero
           Good == {i \in Nat : lo + i <= hi =>
                       IsSpace(c.rows, SpanOf(m, S(lo + i))) /\ Flat(lo + i)}
<1>0. c.cols \in Nat /\ c.rows \in Nat
  BY CircuitFacts
<1>1. 0 \in Good
  <2>1. S(lo + 0) = {}
    OBVIOUS
  <2>2. SpanOf(m, S(lo + 0)) = {Nought(c.rows)}
    BY <2>1, SpanEmpty
  <2>3. IsSpace(c.rows, {Nought(c.rows)})
    <3>1. Nought(c.rows) \in Columns(c.rows)
      BY ColumnsAre
    <3>2. \A a \in Scalars : Eliminate(Nought(c.rows), a, Nought(c.rows)) = Nought(c.rows)
      BY <3>1, NoughtLaws
    <3> QED BY <3>1, <3>2 DEF IsSpace
  <2>4. Flat(lo + 0)
    BY <2>2, ColumnsAre
  <2> HIDE DEF S, Flat
  <2> QED BY <2>2, <2>3, <2>4
<1>2. ASSUME NEW i \in Nat, i \in Good PROVE i + 1 \in Good
  <2> SUFFICES ASSUME lo + (i + 1) <= hi
               PROVE  IsSpace(c.rows, SpanOf(m, S(lo + (i + 1)))) /\ Flat(lo + (i + 1))
    OBVIOUS
  <2> DEFINE e == lo + i
             s == S(lo + i)
             t == S(lo + (i + 1))
             V == SpanOf(m, s)
             w == Column(m, e)
  <2>1. IsSpace(c.rows, V) /\ Flat(lo + i)
    BY <1>2
  <2>2. t = s \cup {e} /\ s \in SUBSET (0 .. c.cols - 1) /\ e \in (0 .. c.cols - 1) \ s
        /\ e \in 0 .. c.cols - 1
    BY <1>0
  <2>3. w \in Columns(c.rows) /\ \A k \in 0 .. c.rows - 1 : w[k] = m[k][e]
    BY <2>2, MatrixColumns
  <2>4. \A k \in 0 .. c.rows - 1 : (\A j \in s : m[k][j] = Zero) => \A x \in V : x[k] = Zero
    BY <2>1
  <2> HIDE DEF e, s, t, w
  <2>5. SpanOf(m, t) = Extend(V, w)
    BY <2>2, SpanGrows DEF w
  <2> HIDE DEF V
  <2>6. IsSpace(c.rows, SpanOf(m, t))
    BY <2>1, <2>3, <2>5, ExtendSpace
  <2>7. \A k \in 0 .. c.rows - 1 : (\A j \in t : m[k][j] = Zero) =>
           \A x \in SpanOf(m, t) : x[k] = Zero
    <3> SUFFICES ASSUME NEW k \in 0 .. c.rows - 1, \A j \in t : m[k][j] = Zero,
                        NEW x \in SpanOf(m, t)
                 PROVE  x[k] = Zero
      OBVIOUS
    <3>1. PICK y \in V, a \in Scalars : x = Eliminate(y, a, w)
      BY <2>5 DEF Extend
    <3>2. y \in Columns(c.rows)
      BY <2>1, SpaceLaws
    <3>3. y[k] = Zero /\ w[k] = Zero
      BY <2>2, <2>3, <2>4
    <3>4. x[k] = Zero \ominus (a \otimes Zero)
      BY <2>3, <3>1, <3>2, <3>3, EntryOf
    <3> QED BY <3>4, Closure, ZeroLaws
  <2> QED BY <2>6, <2>7 DEF t
<1>3. Nat \subseteq Good
  <2> HIDE DEF Good
  <2> QED BY <1>1, <1>2, SetInduction
<1>4. hi - lo \in Good /\ lo + (hi - lo) = hi
  <2> HIDE DEF Good
  <2>1. hi - lo \in Nat
    OBVIOUS
  <2> QED BY <1>3, <2>1
<1>5. IsSpace(c.rows, SpanOf(m, S(hi))) /\ Flat(hi)
  BY <1>4
<1> QED BY <1>5

--------------------------------------------------------------------------------
(***************************************************************************)
(* The elimination of a matrix, column by column.                          *)
(***************************************************************************)
DisjointIn(c, mx) == SupportOf(c[mx], Public(c)) \cap SupportOf(c[mx], Witness(c)) = {}
\* The columns that have been through the elimination when j is the next one.
WitnessDone(c, j) == IF j \in Witness(c) THEN c.inputs .. j - 1 ELSE Witness(c)
PublicDone(c, j) ==
    IF j \in Witness(c) THEN {} ELSE IF j \in Public(c) THEN 1 .. j - 1 ELSE Public(c)
RankAt(c, mx, j, wb, pb, ib, mt) ==
    LET V == SpanOf(c[mx], WitnessDone(c, j))
        P == SpanOf(c[mx], PublicDone(c, j))
    IN  /\ j \in 1 .. c.cols
        /\ ~ DisjointIn(c, mx) =>
              /\ Ranked(c.rows, V, P, wb, pb, ib)
              /\ j \in Witness(c) => pb = NoVectors /\ ib = NoVectors
              /\ mt => Meet(c.rows, V, P)

LEMMA SharedColumns ==
    ASSUME NEW c \in Circuits, NEW mx \in {"a", "b", "c"}
    PROVE  /\ c[mx] \in Matrices(c) /\ c.rows \in Nat /\ c.cols \in Nat
           /\ c.inputs \in 1 .. c.cols
           /\ ~ DisjointIn(c, mx) => c.inputs \in Witness(c) /\ 1 \in Public(c)
<1>1. c[mx] \in Matrices(c) /\ c.rows \in Nat /\ c.cols \in Nat /\ c.inputs \in 1 .. c.cols
  BY CircuitFacts
<1>2. SupportOf(c[mx], {}) = {}
  BY DEF SupportOf
<1>3. ASSUME ~ DisjointIn(c, mx) PROVE c.inputs \in Witness(c) /\ 1 \in Public(c)
  <2>1. Public(c) # {} /\ Witness(c) # {}
    BY <1>2, <1>3 DEF DisjointIn
  <2> QED BY <1>1, <2>1 DEF Public, Witness
<1> QED BY <1>1, <1>3

LEMMA DoneSpaces ==
    ASSUME NEW c \in Circuits, NEW mx \in {"a", "b", "c"}, NEW j \in 1 .. c.cols
    PROVE  /\ IsSpace(c.rows, SpanOf(c[mx], WitnessDone(c, j)))
           /\ IsSpace(c.rows, SpanOf(c[mx], PublicDone(c, j)))
           /\ IsSpace(c.rows, SpanOf(c[mx], Witness(c)))
           /\ IsSpace(c.rows, SpanOf(c[mx], Public(c)))
<1>1. c[mx] \in Matrices(c) /\ c.cols \in Nat /\ c.inputs \in 1 .. c.cols
  BY SharedColumns
<1>2. \A lo \in Nat, hi \in Nat : lo <= hi /\ hi <= c.cols =>
         IsSpace(c.rows, SpanOf(c[mx], lo .. hi - 1))
  BY <1>1, SpanSpace
<1>3. IsSpace(c.rows, SpanOf(c[mx], Witness(c)))
  BY <1>1, <1>2 DEF Witness
<1>4. IsSpace(c.rows, SpanOf(c[mx], Public(c)))
  BY <1>1, <1>2 DEF Public
<1>5. IsSpace(c.rows, SpanOf(c[mx], WitnessDone(c, j)))
  BY <1>1, <1>2, <1>3 DEF WitnessDone, Witness
<1>6. IsSpace(c.rows, SpanOf(c[mx], {}))
  <2>1. 1 .. 1 - 1 = {}
    OBVIOUS
  <2>2. IsSpace(c.rows, SpanOf(c[mx], 1 .. 1 - 1))
    BY <1>1, <1>2
  <2> QED BY <2>1, <2>2
<1>7. IsSpace(c.rows, SpanOf(c[mx], PublicDone(c, j)))
  BY <1>1, <1>2, <1>4, <1>6 DEF PublicDone, Public
<1> QED BY <1>3, <1>4, <1>5, <1>7

LEMMA RankBegins ==
    ASSUME NEW c \in Circuits, NEW mx \in {"a", "b", "c"}
    PROVE  RankAt(c, mx, c.inputs, NoVectors, NoVectors, NoVectors, FALSE)
<1> DEFINE m == c[mx]
           o == {Nought(c.rows)}
<1>1. m \in Matrices(c) /\ c.rows \in Nat /\ c.inputs \in 1 .. c.cols
  BY SharedColumns
<1>2. ASSUME ~ DisjointIn(c, mx)
      PROVE  SpanOf(m, WitnessDone(c, c.inputs)) = o /\ SpanOf(m, PublicDone(c, c.inputs)) = o
  <2>1. c.inputs \in Witness(c)
    BY <1>2, SharedColumns
  <2>2. c.inputs .. c.inputs - 1 = {}
    BY <1>1
  <2>3. SpanOf(m, {}) = o
    BY <1>1, SpanEmpty
  <2> QED BY <2>1, <2>2, <2>3 DEF WitnessDone, PublicDone
<1>3. Ranked(c.rows, o, o, NoVectors, NoVectors, NoVectors)
  <2>1. \E V, b : IsSpace(c.rows, V) /\ IsBasis(c.rows, b, V)
    <3>1. IsSpace(c.rows, o)
      <4>1. Nought(c.rows) \in Columns(c.rows)
        BY ColumnsAre
      <4>2. \A a \in Scalars : Eliminate(Nought(c.rows), a, Nought(c.rows)) = Nought(c.rows)
        BY <4>1, NoughtLaws
      <4> QED BY <4>1, <4>2 DEF IsSpace
    <3>2. IsBasis(c.rows, NoVectors, o)
      BY DEF IsBasis, IsReduced, Spans, NoVectors
    <3> QED BY <3>1, <3>2
  <2>2. IsSpace(c.rows, o) /\ IsBasis(c.rows, NoVectors, o)
    BY <1>1, <2>1, RankStart
  <2> QED BY <1>1, <2>2, RankStart
<1> QED BY <1>1, <1>2, <1>3 DEF RankAt

LEMMA RankWitness ==
    ASSUME NEW c \in Circuits, NEW mx \in {"a", "b", "c"}, NEW j \in Witness(c),
           NEW wb, NEW pb, NEW ib, NEW mt, RankAt(c, mx, j, wb, pb, ib, mt), ~ DisjointIn(c, mx)
    PROVE  RankAt(c, mx, IF j + 1 \in Witness(c) THEN j + 1 ELSE 1,
                  RowInsert(wb, Column(c[mx], j)), pb, ib, mt)
<1> DEFINE m == c[mx]
           r == c.rows
           n == IF j + 1 \in Witness(c) THEN j + 1 ELSE 1
           V == SpanOf(m, WitnessDone(c, j))
           v == Column(m, j)
           o == {Nought(r)}
<1>1. /\ m \in Matrices(c) /\ r \in Nat /\ c.cols \in Nat /\ c.inputs \in 1 .. c.cols
      /\ 1 \in Public(c)
  BY SharedColumns
<1>2. j \in 1 .. c.cols /\ j \in c.inputs .. c.cols - 1 /\ j \in 0 .. c.cols - 1
  BY <1>1 DEF Witness
<1>3. n \in 1 .. c.cols /\ PublicDone(c, n) = {} /\ PublicDone(c, j) = {}
  BY <1>1, <1>2 DEF PublicDone, Public, Witness
<1>4. WitnessDone(c, n) = WitnessDone(c, j) \cup {j}
  <2>1. WitnessDone(c, j) = c.inputs .. j - 1
    BY DEF WitnessDone
  <2>2. CASE j + 1 \in Witness(c)
    <3>1. WitnessDone(c, n) = c.inputs .. (j + 1) - 1
      BY <2>2 DEF WitnessDone
    <3> QED BY <1>1, <1>2, <2>1, <3>1
  <2>3. CASE j + 1 \notin Witness(c)
    <3>1. WitnessDone(c, n) = c.inputs .. c.cols - 1 /\ j = c.cols - 1
      BY <1>1, <1>2, <2>3 DEF WitnessDone, Witness, Public
    <3> QED BY <1>1, <1>2, <2>1, <3>1
  <2> QED BY <2>2, <2>3
<1>5. WitnessDone(c, j) \in SUBSET (0 .. c.cols - 1) /\ j \in (0 .. c.cols - 1) \ WitnessDone(c, j)
  BY <1>1, <1>2 DEF WitnessDone
<1>6. SpanOf(m, PublicDone(c, j)) = o /\ SpanOf(m, PublicDone(c, n)) = o
  BY <1>1, <1>3, SpanEmpty
<1>7. IsSpace(r, V)
  BY <1>2, DoneSpaces
<1>8. /\ Ranked(r, V, o, wb, pb, ib)
      /\ pb = NoVectors /\ ib = NoVectors
      /\ mt => Meet(r, V, o)
  BY <1>6 DEF RankAt
<1>9. SpanOf(m, WitnessDone(c, n)) = Extend(V, v)
  BY <1>1, <1>4, <1>5, SpanGrows
<1>10. v \in Columns(r)
  BY <1>1, <1>2, MatrixColumns
<1> HIDE DEF m, r, n, V, v
<1>11. IsBasis(r, wb, V) /\ ~ mt
  BY <1>8 DEF Ranked, Meet
<1>12. IsSpace(r, Extend(V, v)) /\ IsBasis(r, RowInsert(wb, v), Extend(V, v))
  BY <1>1, <1>7, <1>10, <1>11, ExtendSpace, InsertBasis
<1>13. Ranked(r, Extend(V, v), o, RowInsert(wb, v), pb, ib)
  BY <1>1, <1>8, <1>12, RankStart
<1>14. RankAt(c, mx, n, RowInsert(wb, v), pb, ib, mt)
  BY <1>3, <1>6, <1>8, <1>9, <1>11, <1>13 DEF RankAt, m, r
<1> QED BY <1>14 DEF n, v, m

LEMMA RankPublic ==
    ASSUME NEW c \in Circuits, NEW mx \in {"a", "b", "c"}, NEW j \in Public(c),
           NEW wb, NEW pb, NEW ib, NEW mt, RankAt(c, mx, j, wb, pb, ib, mt), ~ DisjointIn(c, mx),
           NEW more, more => \/ mt
                             \/ /\ Support(Column(c[mx], j)) # {}
                                /\ Support(Reduce(wb, Column(c[mx], j))) = {}
    PROVE  RankAt(c, mx, IF j + 1 \in Public(c) THEN j + 1 ELSE c.cols, wb,
                  RowInsert(pb, Column(c[mx], j)),
                  RowInsert(ib, Reduce(wb, Column(c[mx], j))), more)
<1> DEFINE m == c[mx]
           r == c.rows
           n == IF j + 1 \in Public(c) THEN j + 1 ELSE c.cols
           V == SpanOf(m, Witness(c))
           P == SpanOf(m, PublicDone(c, j))
           v == Column(m, j)
           u == Reduce(wb, v)
<1>1. /\ m \in Matrices(c) /\ r \in Nat /\ c.cols \in Nat /\ c.inputs \in 1 .. c.cols
  BY SharedColumns
<1>2. j \in 1 .. c.cols /\ j \in 1 .. c.inputs - 1 /\ j \in 0 .. c.cols - 1 /\ j \notin Witness(c)
  BY <1>1 DEF Public, Witness
<1>3. n \in 1 .. c.cols /\ n \notin Witness(c)
  BY <1>1, <1>2 DEF Public, Witness
<1>4. PublicDone(c, n) = PublicDone(c, j) \cup {j}
  <2>1. PublicDone(c, j) = 1 .. j - 1
    BY <1>2 DEF PublicDone
  <2>2. CASE j + 1 \in Public(c)
    <3>1. PublicDone(c, n) = 1 .. (j + 1) - 1
      BY <1>3, <2>2 DEF PublicDone
    <3> QED BY <1>1, <1>2, <2>1, <3>1
  <2>3. CASE j + 1 \notin Public(c)
    <3>1. PublicDone(c, n) = 1 .. c.inputs - 1 /\ j = c.inputs - 1
      BY <1>1, <1>2, <1>3, <2>3 DEF PublicDone, Public
    <3> QED BY <1>1, <1>2, <2>1, <3>1
  <2> QED BY <2>2, <2>3
<1>5. PublicDone(c, j) \in SUBSET (0 .. c.cols - 1) /\ j \in (0 .. c.cols - 1) \ PublicDone(c, j)
  BY <1>1, <1>2 DEF PublicDone
<1>6. WitnessDone(c, j) = Witness(c) /\ WitnessDone(c, n) = Witness(c)
  BY <1>2, <1>3 DEF WitnessDone
<1>7. IsSpace(r, V) /\ IsSpace(r, P)
  BY <1>2, DoneSpaces
<1>8. /\ Ranked(r, V, P, wb, pb, ib)
      /\ mt => Meet(r, V, P)
  BY <1>6 DEF RankAt
<1>9. SpanOf(m, PublicDone(c, n)) = Extend(P, v)
  BY <1>1, <1>4, <1>5, SpanGrows
<1>10. v \in Columns(r)
  BY <1>1, <1>2, MatrixColumns
<1>11. more => mt \/ (Support(v) # {} /\ Support(u) = {})
  OBVIOUS
<1> HIDE DEF m, r, n, P, v
<1>12. SpanOf(m, WitnessDone(c, n)) = V
  BY <1>6
<1> HIDE DEF V
<1>13. Ranked(r, V, Extend(P, v), wb, RowInsert(pb, v), RowInsert(ib, u))
  BY <1>1, <1>7, <1>8, <1>10, RankStep
<1>14. more => Meet(r, V, Extend(P, v))
  <2>1. P \subseteq Extend(P, v) /\ v \in Extend(P, v)
    BY <1>7, <1>10, ExtendSpace
  <2>2. mt => Meet(r, V, Extend(P, v))
    BY <1>8, <2>1 DEF Meet
  <2>3. ASSUME Support(v) # {}, Support(u) = {} PROVE Meet(r, V, Extend(P, v))
    <3>1. IsBasis(r, wb, V)
      BY <1>8 DEF Ranked
    <3>2. u \in Columns(r) /\ (u = Nought(r) <=> v \in V)
      BY <1>1, <1>7, <1>10, <3>1, ReduceLaws
    <3> HIDE DEF u
    <3>3. v # Nought(r) /\ u = Nought(r)
      BY <1>10, <2>3, <3>2, ColumnsAre
    <3> QED BY <2>1, <3>2, <3>3 DEF Meet
  <2> QED BY <1>11, <2>2, <2>3
<1> HIDE DEF u
<1>15. RankAt(c, mx, n, wb, RowInsert(pb, v), RowInsert(ib, u), more)
  BY <1>3, <1>9, <1>12, <1>13, <1>14 DEF RankAt, m, r
<1> QED BY <1>15 DEF n, v, u, m

\* The comparison of ranks decides whether the spans meet.
Decides(c, mx, pb, ib, mt) ==
    (~ mt /\ Cardinality(DOMAIN ib) >= Cardinality(DOMAIN pb)) <=>
       SpanOf(c[mx], Public(c)) \cap SpanOf(c[mx], Witness(c)) = {Nought(c.rows)}

LEMMA RankDecides ==
    ASSUME NEW c \in Circuits, NEW mx \in {"a", "b", "c"}, NEW wb, NEW pb, NEW ib, NEW mt,
           RankAt(c, mx, c.cols, wb, pb, ib, mt), ~ DisjointIn(c, mx)
    PROVE  Decides(c, mx, pb, ib, mt)
<1> DEFINE r == c.rows
           V == SpanOf(c[mx], Witness(c))
           P == SpanOf(c[mx], Public(c))
           x == Cardinality(DOMAIN ib)
           y == Cardinality(DOMAIN pb)
<1>1. /\ c.cols \in Nat /\ c.inputs \in 1 .. c.cols /\ r \in Nat
  BY SharedColumns
<1>2. c.cols \notin Witness(c) /\ c.cols \notin Public(c) /\ c.cols \in 1 .. c.cols
  BY <1>1 DEF Witness, Public
<1>3. WitnessDone(c, c.cols) = Witness(c) /\ PublicDone(c, c.cols) = Public(c)
  BY <1>2 DEF WitnessDone, PublicDone
<1>4. Ranked(r, V, P, wb, pb, ib) /\ (mt => Meet(r, V, P))
  BY <1>3 DEF RankAt
<1>5. IsSpace(r, V) /\ IsSpace(r, P)
  BY <1>2, DoneSpaces
<1>6. Nought(r) \in V \cap P
  BY <1>5, SpaceLaws
<1> HIDE DEF V, P
<1>7. IsSpace(r, Images(wb, P)) /\ IsBasis(r, pb, P) /\ IsBasis(r, ib, Images(wb, P))
  BY <1>1, <1>4, <1>5, ImagesSpace DEF Ranked
<1>8. x \in Nat /\ y \in Nat
  <2>1. Nought(r) \in Columns(r)
    BY ColumnsAre
  <2> DEFINE I == Images(wb, P)
  <2> HIDE DEF I, r, x, y
  <2> QED BY <1>1, <1>5, <1>7, <2>1, InsertBasis DEF I, x, y
<1>9. x <= y /\ (x = y <=> ~ Meet(r, V, P))
  BY <1>4 DEF Ranked
<1> HIDE DEF x, y, r
<1>10. (~ mt /\ x >= y) <=> ~ Meet(r, V, P)
  BY <1>4, <1>8, <1>9
<1>11. ~ Meet(r, V, P) <=> P \cap V = {Nought(r)}
  BY <1>6 DEF Meet
<1> QED BY <1>10, <1>11 DEF Decides, x, y, r, V, P

\* Columns without a common row meet in zero alone.
LEMMA DisjointDecides ==
    ASSUME NEW c \in Circuits, NEW mx \in {"a", "b", "c"}, DisjointIn(c, mx)
    PROVE  SpanOf(c[mx], Public(c)) \cap SpanOf(c[mx], Witness(c)) = {Nought(c.rows)}
<1> DEFINE m == c[mx]
           r == c.rows
           V == SpanOf(m, Witness(c))
           P == SpanOf(m, Public(c))
<1>1. m \in Matrices(c) /\ r \in Nat /\ c.cols \in Nat /\ c.inputs \in 1 .. c.cols
  BY SharedColumns
<1>2. c.cols \in 1 .. c.cols
  BY <1>1
<1>3. IsSpace(r, V) /\ IsSpace(r, P)
  BY <1>2, DoneSpaces
<1>4. ASSUME NEW x \in P \cap V PROVE x = Nought(r)
  <2>1. x \in Columns(r)
    BY <1>3, SpaceLaws
  <2>2. ASSUME NEW k \in 0 .. r - 1 PROVE x[k] = Zero
    <3>1. k \in Rows(c)
      BY DEF Rows
    <3>2. CASE k \notin SupportOf(m, Public(c))
      <4>1. \A j \in 1 .. c.inputs - 1 : m[k][j] = Zero
        BY <1>1, <3>1, <3>2, CoefficientAt DEF Public
      <4>2. 1 \in Nat /\ c.inputs \in Nat /\ 1 <= c.inputs /\ c.inputs <= c.cols
        BY <1>1
      <4> DEFINE one == 1
      <4> HIDE DEF one
      <4>3. \A z \in SpanOf(m, one .. c.inputs - 1) : z[k] = Zero
        <5>1. one \in Nat /\ one <= c.inputs /\ \A j \in one .. c.inputs - 1 : m[k][j] = Zero
          BY <4>1, <4>2 DEF one
        <5> HIDE DEF m
        <5> QED BY <1>1, <4>2, <5>1, SpanSpace
      <4> USE DEF one
      <4> QED BY <4>3 DEF Public
    <3>3. CASE k \notin SupportOf(m, Witness(c))
      <4>1. \A j \in c.inputs .. c.cols - 1 : m[k][j] = Zero
        BY <1>1, <3>1, <3>3, CoefficientAt DEF Witness
      <4>2. c.inputs \in Nat /\ c.cols \in Nat /\ c.inputs <= c.cols /\ c.cols <= c.cols
        BY <1>1
      <4>3. \A z \in SpanOf(m, c.inputs .. c.cols - 1) : z[k] = Zero
        BY <1>1, <4>1, <4>2, SpanSpace
      <4> QED BY <4>3 DEF Witness
    <3> QED BY <3>2, <3>3 DEF DisjointIn
  <2> QED BY <2>1, <2>2, ColumnsAre
<1>5. Nought(r) \in P \cap V
  BY <1>3, SpaceLaws
<1> HIDE DEF P, V
<1>6. P \cap V = {Nought(r)}
  BY <1>4, <1>5
<1> QED BY <1>6 DEF P, V

--------------------------------------------------------------------------------
\* In the span phase the bases are those of the columns done so far, and their ranks tell
\* whether the spans met.
RankInv == pc = "span" => RankAt(circuit, matrix, col, witBasis, pubBasis, imgBasis, met)

LEMMA RankInit == Init => RankInv
<1> SUFFICES ASSUME Init PROVE RankInv
  OBVIOUS
<1>1. circuit \in Circuits /\ matrix \in {"a", "b", "c"}
  BY DEF Init
<1>2. RankAt(circuit, matrix, circuit.inputs, NoVectors, NoVectors, NoVectors, FALSE)
  BY <1>1, RankBegins
<1> QED BY <1>2 DEF Init, RankInv

LEMMA RankVerdictKeeps ==
    ASSUME AuditInv, NEW verdict, SpanVerdict(verdict), pc = "span"
    PROVE  RankInv'
<1>1. CASE matrix = "c"
  BY <1>1 DEF SpanVerdict, RankInv
<1>2. CASE matrix # "c"
  <2>1. /\ circuit' \in Circuits /\ matrix' \in {"a", "b", "c"} /\ col' = circuit'.inputs
        /\ witBasis' = NoVectors /\ pubBasis' = NoVectors /\ imgBasis' = NoVectors
        /\ met' = FALSE
    BY <1>2 DEF AuditInv, ControlInv, SpanVerdict
  <2>2. RankAt(circuit', matrix', circuit'.inputs, NoVectors, NoVectors, NoVectors, FALSE)
    BY <2>1, RankBegins
  <2> QED BY <2>1, <2>2 DEF RankInv
<1> QED BY <1>1, <1>2

LEMMA RankNext == AuditInv /\ RankInv /\ [Next]_vars => RankInv'
<1> SUFFICES ASSUME AuditInv, RankInv, [Next]_vars PROVE RankInv'
  OBVIOUS
<1>0. circuit \in Circuits /\ matrix \in {"a", "b", "c"}
  BY DEF AuditInv, ControlInv
<1>1. ASSUME TriviallySeparated PROVE RankInv'
  BY <1>1, RankVerdictKeeps DEF TriviallySeparated
<1>2. ASSUME InsertWitness PROVE RankInv'
  <2> DEFINE n == IF col + 1 \in Witness(circuit) THEN col + 1 ELSE 1
             b == RowInsert(witBasis, Column(circuit[matrix], col))
  <2>1. ~ DisjointIn(circuit, matrix) /\ col \in Witness(circuit)
        /\ RankAt(circuit, matrix, col, witBasis, pubBasis, imgBasis, met)
    BY <1>2 DEF InsertWitness, Disjoint, DisjointIn, Current, RankInv
  <2>2. RankAt(circuit, matrix, n, b, pubBasis, imgBasis, met)
    BY <1>0, <2>1, RankWitness
  <2> HIDE DEF n, b
  <2>3. /\ circuit' = circuit /\ matrix' = matrix /\ col' = n /\ witBasis' = b
        /\ pubBasis' = pubBasis /\ imgBasis' = imgBasis /\ met' = met
    BY <1>2 DEF InsertWitness, Current, n, b
  <2> QED BY <2>2, <2>3 DEF RankInv
<1>3. ASSUME ReducePublic PROVE RankInv'
  <2> DEFINE n == IF col + 1 \in Public(circuit) THEN col + 1 ELSE circuit.cols
             v == Column(circuit[matrix], col)
             u == Reduce(witBasis, v)
             more == met \/ (Support(v) # {} /\ Support(u) = {})
             pb == RowInsert(pubBasis, v)
             ib == RowInsert(imgBasis, u)
  <2>1. ~ DisjointIn(circuit, matrix) /\ col \in Public(circuit)
        /\ RankAt(circuit, matrix, col, witBasis, pubBasis, imgBasis, met)
    BY <1>3 DEF ReducePublic, Disjoint, DisjointIn, Current, RankInv
  <2>2. more => met \/ (Support(v) # {} /\ Support(u) = {})
    OBVIOUS
  <2> HIDE DEF more
  <2>3. RankAt(circuit, matrix, n, witBasis, pb, ib, more)
    BY <1>0, <2>1, <2>2, RankPublic
  <2>4. /\ circuit' = circuit /\ matrix' = matrix /\ col' = n /\ witBasis' = witBasis
        /\ pubBasis' = pb /\ imgBasis' = ib /\ met' = more
    BY <1>3 DEF ReducePublic, Current, more
  <2> HIDE DEF n, pb, ib
  <2> QED BY <2>3, <2>4 DEF RankInv
<1>4. ASSUME CompareRanks PROVE RankInv'
  BY <1>4, RankVerdictKeeps DEF CompareRanks
<1>5. ASSUME NEW e \in Points, StartCheck(e) PROVE RankInv'
  BY <1>5 DEF StartCheck, RankInv
<1>6. ASSUME AddHandles PROVE RankInv'
  BY <1>6 DEF AddHandles, RankInv
<1>7. ASSUME FinishCheck PROVE RankInv'
  BY <1>7 DEF FinishCheck, RankInv
<1>8. ASSUME UNCHANGED vars PROVE RankInv'
  BY <1>8 DEF vars, RankInv
<1> QED BY <1>1, <1>2, <1>3, <1>4, <1>5, <1>6, <1>7, <1>8 DEF Next

\* SpanVerdictExact: a matrix is found separated exactly when no combination of its public
\* columns other than zero is one of its witness columns, for every field, matrix and size.
\* check_span_separation_matrix decides this by pivots and a comparison of ranks.
THEOREM VerdictsExact == Spec => SpanVerdictExact
<1> DEFINE Exact(m) ==
             separated'[m] <=>
                SpanOf(circuit[m], Public(circuit)) \cap SpanOf(circuit[m], Witness(circuit))
                   = {[k \in Rows(circuit) |-> Zero]}
<1>1. ASSUME AuditInv, RankInv, [Next]_vars, NEW m \in DOMAIN separated' \ DOMAIN separated
      PROVE  Exact(m)
  <2> DEFINE Meets == SpanOf(circuit[matrix], Public(circuit))
                         \cap SpanOf(circuit[matrix], Witness(circuit))
                        = {Nought(circuit.rows)}
  <2>0. circuit \in Circuits /\ matrix \in {"a", "b", "c"}
    BY <1>1 DEF AuditInv, ControlInv
  <2>1. \E verdict : SpanVerdict(verdict) /\ (verdict <=> Meets)
    <3>1. CASE TriviallySeparated
      <4>1. Meets
        BY <2>0, <3>1, DisjointDecides DEF TriviallySeparated, Disjoint, DisjointIn, Current
      <4> HIDE DEF Meets
      <4> QED BY <3>1, <4>1 DEF TriviallySeparated
    <3>2. CASE CompareRanks
      <4>1. /\ ~ DisjointIn(circuit, matrix)
            /\ RankAt(circuit, matrix, circuit.cols, witBasis, pubBasis, imgBasis, met)
        BY <1>1, <3>2 DEF CompareRanks, Disjoint, DisjointIn, Current, RankInv
      <4>2. (~ met /\ RankKept) <=> Meets
        <5>1. Decides(circuit, matrix, pubBasis, imgBasis, met)
          BY <2>0, <4>1, RankDecides, Zenon
        <5> QED BY <5>1 DEF Decides, RankKept
      <4> HIDE DEF Meets
      <4> QED BY <3>2, <4>2 DEF CompareRanks
    <3>3. CASE InsertWitness \/ ReducePublic \/ AddHandles \/ FinishCheck \/ UNCHANGED vars
               \/ \E e \in Points : StartCheck(e)
      <4>1. separated' = separated
        BY <3>3 DEF InsertWitness, ReducePublic, AddHandles, FinishCheck, StartCheck, vars
      <4> QED BY <1>1, <4>1
    <3> QED BY <1>1, <3>1, <3>2, <3>3 DEF Next
  <2>2. PICK verdict : SpanVerdict(verdict) /\ (verdict <=> Meets)
    BY <2>1
  <2> HIDE DEF Meets
  <2>3. m = matrix /\ separated'[m] = verdict
    BY <1>1, <2>2 DEF SpanVerdict
  <2>4. [k \in Rows(circuit) |-> Zero] = Nought(circuit.rows)
    BY DEF Rows, Nought
  <2> QED BY <2>2, <2>3, <2>4 DEF Meets
<1>2. AuditInv /\ RankInv /\ [Next]_vars =>
         [\A m \in DOMAIN separated' \ DOMAIN separated : Exact(m)]_vars
  BY <1>1
<1> QED BY <1>2, AuditInit, AuditStep, RankInit, RankNext, PTL DEF Spec, SpanVerdictExact

================================================================================
