--------------------------- MODULE OneSidedPpe_proofs --------------------------
(***************************************************************************)
(* Theorems about OneSidedPpe for every field, every key and every number  *)
(* of public inputs and witness columns.  The heart is ProductScale: the   *)
(* product over the armed bases is the product over the plain bases,       *)
(* raised to rho.                                                          *)
(***************************************************************************)
EXTENDS OneSidedPpe, FieldSums, SequenceTheorems

\* A function on 1 .. n is a sequence of length n.
LEMMA FunSeq ==
    ASSUME NEW S, NEW n \in Nat, NEW f \in [1 .. n -> S]
    PROVE  f \in Seq(S) /\ Len(f) = n
<1>1. f \in Seq(S)
  BY SeqDef
<1>2. Len(f) \in Nat /\ DOMAIN f = 1 .. Len(f)
  BY <1>1, LenProperties
<1> QED BY <1>1, <1>2

LEMMA VectorFun ==
    ASSUME NEW v \in Vectors
    PROVE  Len(v) \in Nat /\ v \in [1 .. Len(v) -> Scalars]
BY LenProperties DEF Vectors

LEMMA LimbsType ==
    ASSUME NEW c \in Limb, NEW y \in Scalars
    PROVE  Limbs(c, y) \in Scalars
<1>1. c[1] \in Scalars /\ c[2] \in Scalars
  BY DEF Limb
<1> QED BY <1>1, Closure DEF Limbs

LEMMA LimbsScale ==
    ASSUME NEW c \in Limb, NEW y \in Scalars, NEW rho \in Scalars
    PROVE  Limbs(c, Times(y, rho)) = Times(Limbs(c, y), rho)
<1>1. c[1] \in Scalars /\ c[2] \in Scalars
  BY DEF Limb
<1>2. \A l \in Scalars : Times(l, Times(y, rho)) = Times(Times(l, y), rho)
  BY TimesLaws
<1>3. Times(c[1], y) \in Scalars /\ Times(c[2], y) \in Scalars
  BY <1>1, Closure
<1> QED BY <1>1, <1>2, <1>3, Distributes DEF Limbs

--------------------------------------------------------------------------------
\* The three parts of the pairing schedule.
ColumnTerms(com, ys) == [j \in 1 .. Len(ys) |-> Limbs(com.cols[j], ys[j])]
ThetaTerms(com, d) == [j \in 1 .. Len(com.theta) |-> Limbs(com.theta[j], d)]

LEMMA TermsType ==
    ASSUME NEW com \in Commitments, NEW ys \in Vectors, NEW d \in Scalars,
           Len(com.cols) = Len(ys)
    PROVE  /\ Len(ys) \in Nat /\ Len(com.theta) \in Nat
           /\ ColumnTerms(com, ys) \in [1 .. Len(ys) -> Scalars]
           /\ ThetaTerms(com, d) \in [1 .. Len(com.theta) -> Scalars]
           /\ Limbs(com.cancel, d) \in Scalars
<1>1. /\ com.cols \in Seq(Limb) /\ com.theta \in Seq(Limb) /\ com.cancel \in Limb
  BY DEF Commitments
<1>2. /\ Len(ys) \in Nat /\ Len(com.theta) \in Nat
      /\ \A j \in 1 .. Len(ys) : com.cols[j] \in Limb /\ ys[j] \in Scalars
      /\ \A j \in 1 .. Len(com.theta) : com.theta[j] \in Limb
  BY <1>1, VectorFun, LenProperties
<1> QED BY <1>1, <1>2, LimbsType DEF ColumnTerms, ThetaTerms

LEMMA ProductType ==
    ASSUME NEW com \in Commitments, NEW ys \in Vectors, NEW d \in Scalars,
           Len(com.cols) = Len(ys)
    PROVE  PairingProduct(com, ys, d) \in Scalars
<1>1. /\ Sum(ColumnTerms(com, ys), Len(ys)) \in Scalars
      /\ Sum(ThetaTerms(com, d), Len(com.theta)) \in Scalars
      /\ Limbs(com.cancel, d) \in Scalars
  BY TermsType, SumType
<1> QED BY <1>1, Closure DEF PairingProduct, ColumnTerms, ThetaTerms

LEMMA ArmColumnType ==
    ASSUME NEW ys \in Vectors, NEW rho \in Scalars
    PROVE  /\ ArmColumn(ys, rho) \in Vectors
           /\ Len(ArmColumn(ys, rho)) = Len(ys)
           /\ \A j \in 1 .. Len(ys) : ArmColumn(ys, rho)[j] = Times(ys[j], rho)
<1>1. Len(ys) \in Nat /\ ys \in [1 .. Len(ys) -> Scalars]
  BY VectorFun
<1>2. ArmColumn(ys, rho) \in [1 .. Len(ys) -> Scalars]
  BY <1>1, Closure DEF ArmColumn
<1>3. \A j \in 1 .. Len(ys) : ArmColumn(ys, rho)[j] = Times(ys[j], rho)
  BY <1>1 DEF ArmColumn
<1> QED BY <1>1, <1>2, <1>3, FunSeq DEF Vectors

\* Decapsulation is verification raised to rho: over the armed bases the
\* schedule yields the power of what it yields over the plain ones, whatever
\* the commitments are.
LEMMA ProductScale ==
    ASSUME NEW com \in Commitments, NEW ys \in Vectors, NEW d \in Scalars,
           NEW rho \in Scalars, Len(com.cols) = Len(ys)
    PROVE  PairingProduct(com, ArmColumn(ys, rho), Times(d, rho))
             = Times(PairingProduct(com, ys, d), rho)
<1> DEFINE zs == ArmColumn(ys, rho)
           e == Times(d, rho)
<1>1. /\ zs \in Vectors /\ Len(zs) = Len(ys)
      /\ \A j \in 1 .. Len(ys) : zs[j] = Times(ys[j], rho)
  BY ArmColumnType
<1>2. e \in Scalars
  BY Closure
<1>3. /\ Len(ys) \in Nat /\ Len(com.theta) \in Nat
      /\ ColumnTerms(com, ys) \in [1 .. Len(ys) -> Scalars]
      /\ ThetaTerms(com, d) \in [1 .. Len(com.theta) -> Scalars]
      /\ Limbs(com.cancel, d) \in Scalars
  BY TermsType
<1>4. /\ ColumnTerms(com, zs) \in [1 .. Len(ys) -> Scalars]
      /\ ThetaTerms(com, e) \in [1 .. Len(com.theta) -> Scalars]
  <2> HIDE DEF zs, e
  <2> QED BY <1>1, <1>2, TermsType
<1>5. /\ com.cancel \in Limb
      /\ \A j \in 1 .. Len(ys) : com.cols[j] \in Limb /\ ys[j] \in Scalars
      /\ \A j \in 1 .. Len(com.theta) : com.theta[j] \in Limb
  BY VectorFun, LenProperties DEF Commitments
<1>6. \A j \in 1 .. Len(ys) :
         ColumnTerms(com, zs)[j] = Times(ColumnTerms(com, ys)[j], rho)
  <2> HIDE DEF zs, e
  <2> QED BY <1>1, <1>5, LimbsScale DEF ColumnTerms
<1>7. \A j \in 1 .. Len(com.theta) :
         ThetaTerms(com, e)[j] = Times(ThetaTerms(com, d)[j], rho)
  BY <1>5, LimbsScale DEF ThetaTerms
<1>8. Limbs(com.cancel, e) = Times(Limbs(com.cancel, d), rho)
  BY <1>5, LimbsScale
<1> DEFINE C == Sum(ColumnTerms(com, ys), Len(ys))
           T == Sum(ThetaTerms(com, d), Len(com.theta))
           L == Limbs(com.cancel, d)
<1>9. /\ Sum(ColumnTerms(com, zs), Len(ys)) = Times(C, rho)
      /\ Sum(ThetaTerms(com, e), Len(com.theta)) = Times(T, rho)
  BY <1>3, <1>4, <1>6, <1>7, SumScale
<1>10. C \in Scalars /\ T \in Scalars /\ L \in Scalars /\ Plus(C, T) \in Scalars
  BY <1>3, SumType, Closure
<1>11. PairingProduct(com, zs, e)
         = Plus(Plus(Times(C, rho), Times(T, rho)), Times(L, rho))
  <2>1. PairingProduct(com, zs, e)
          = Plus(Plus(Sum(ColumnTerms(com, zs), Len(zs)),
                      Sum(ThetaTerms(com, e), Len(com.theta))), Limbs(com.cancel, e))
    BY DEF PairingProduct, ColumnTerms, ThetaTerms
  <2> QED BY <2>1, <1>1, <1>8, <1>9
<1>12. PairingProduct(com, ys, d) = Plus(Plus(C, T), L)
  BY DEF PairingProduct, ColumnTerms, ThetaTerms
<1>13. Plus(Plus(Times(C, rho), Times(T, rho)), Times(L, rho))
         = Times(Plus(Plus(C, T), L), rho)
  <2> HIDE DEF C, T, L
  <2> QED BY <1>10, Distributes
<1> QED BY <1>11, <1>12, <1>13

--------------------------------------------------------------------------------
LEMMA AffineType ==
    ASSUME NEW points \in Vectors, NEW x \in Vectors, Len(points) >= Len(x) + 1
    PROVE  Affine(points, x) \in Scalars
<1>1. Len(x) \in Nat /\ points \in [1 .. Len(points) -> Scalars]
      /\ x \in [1 .. Len(x) -> Scalars] /\ Len(points) \in Nat
  BY VectorFun
<1> DEFINE f == [i \in 1 .. Len(x) |-> Times(points[i + 1], x[i])]
<1>2. f \in [1 .. Len(x) -> Scalars]
  BY <1>1, Closure
<1>3. points[1] \in Scalars
  BY <1>1
<1>4. Sum(f, Len(x)) \in Scalars
  BY <1>1, <1>2, SumType
<1> QED BY <1>3, <1>4, Closure DEF Affine

LEMMA KeyType ==
    ASSUME NEW k \in Keys
    PROVE  /\ k.vk.alpha \in Scalars /\ k.vk.beta \in Scalars
           /\ k.vk.gamma \in Scalars /\ k.vk.delta \in Scalars
           /\ k.vk.ic \in Vectors /\ Len(k.vk.ic) \in Nat
           /\ k.pvk.beta \in Scalars /\ k.pvk.delta \in Scalars
           /\ k.pvk.b \in Vectors /\ Len(k.pvk.b) \in Nat
           /\ k.pvk.t \in Vectors
BY KeysAssumption, VectorFun DEF VerifyingKeys, PvugcVks

LEMMA ColumnsType ==
    ASSUME NEW k \in Keys, NEW x \in Inputs, SplitDefined(k, x)
    PROVE  /\ PublicLeg(k, x) \in Scalars
           /\ NumColumns(k) \in Nat
           /\ Columns(k, x) \in Vectors
           /\ Len(Columns(k, x)) = NumColumns(k)
           /\ DOMAIN Columns(k, x) = 1 .. NumColumns(k)
<1>1. x \in Vectors /\ Len(x) \in Nat
  BY InputsAssumption, VectorFun
<1>2. Len(k.pvk.b) >= Len(x) + 1 /\ NumColumns(k) \in Nat
  BY <1>1, KeyType DEF SplitDefined, NumColumns
<1>3. PublicLeg(k, x) \in Scalars
  BY <1>1, <1>2, AffineType, KeyType, Closure DEF PublicLeg
<1>4. ASSUME NEW j \in 1 .. NumColumns(k), j # 1
      PROVE  k.pvk.b[Len(k.vk.ic) + j - 1] \in Scalars
  <2>1. Len(k.vk.ic) + j - 1 \in 1 .. Len(k.pvk.b)
    <3>1. /\ Len(k.vk.ic) \in Nat /\ Len(k.pvk.b) \in Nat
          /\ j \in 1 .. 1 + (Len(k.pvk.b) - Len(k.vk.ic))
      BY KeyType DEF NumColumns
    <3> DEFINE m == Len(k.vk.ic)
               n == Len(k.pvk.b)
    <3> HIDE DEF m, n
    <3>2. m \in Nat /\ n \in Nat /\ j \in 1 .. 1 + (n - m) /\ j # 1
      BY <1>4, <3>1 DEF m, n
    <3>3. m + j - 1 \in 1 .. n
      BY <3>2
    <3> QED BY <3>3 DEF m, n
  <2>2. k.pvk.b \in Vectors
    BY KeyType
  <2>3. k.pvk.b \in [1 .. Len(k.pvk.b) -> Scalars]
    BY <2>2, VectorFun
  <2> QED BY <2>1, <2>3
<1>5. Columns(k, x) \in [1 .. NumColumns(k) -> Scalars]
  BY <1>3, <1>4 DEF Columns
<1>6. Columns(k, x) \in Vectors /\ Len(Columns(k, x)) = NumColumns(k)
  BY <1>2, <1>5, FunSeq DEF Vectors
<1> QED BY <1>2, <1>3, <1>5, <1>6

LEMMA TargetType ==
    ASSUME NEW k \in Keys, NEW x \in Inputs, TargetDefined(k, x)
    PROVE  /\ RawTarget(k.vk, x) \in Scalars
           /\ Affine(k.pvk.t, x) \in Scalars
           /\ BakedTarget(k, x) \in Scalars
<1>1. x \in Vectors /\ Len(x) \in Nat
  BY InputsAssumption, VectorFun
<1>2. Affine(k.vk.ic, x) \in Scalars /\ Affine(k.pvk.t, x) \in Scalars
  BY <1>1, AffineType, KeyType, VectorFun DEF TargetDefined
<1> QED BY <1>2, KeyType, Closure DEF RawTarget, BakedTarget

--------------------------------------------------------------------------------
\* The witness part of the prover's B.
WitnessSum(k, w) ==
    Sum([j \in 1 .. Len(w) |-> Times(k.pvk.b[Len(k.vk.ic) + j], w[j])], Len(w))

WitnessFits(k, w) == w \in Vectors /\ Len(w) = Len(k.pvk.b) - Len(k.vk.ic)

LEMMA WitnessTerms ==
    ASSUME NEW k \in Keys, NEW w, WitnessFits(k, w)
    PROVE  /\ Len(w) \in Nat
           /\ \A j \in 1 .. Len(w) : /\ w[j] \in Scalars
                                     /\ k.pvk.b[Len(k.vk.ic) + j] \in Scalars
           /\ [j \in 1 .. Len(w) |-> Times(k.pvk.b[Len(k.vk.ic) + j], w[j])]
                \in [1 .. Len(w) -> Scalars]
           /\ WitnessSum(k, w) \in Scalars
<1>1. Len(w) \in Nat /\ w \in [1 .. Len(w) -> Scalars]
  BY VectorFun DEF WitnessFits
<1>2. ASSUME NEW j \in 1 .. Len(w)
      PROVE  k.pvk.b[Len(k.vk.ic) + j] \in Scalars
  <2>1. Len(k.vk.ic) + j \in 1 .. Len(k.pvk.b)
    BY <1>1, KeyType DEF WitnessFits
  <2> QED BY <2>1, KeyType, VectorFun
<1>3. [j \in 1 .. Len(w) |-> Times(k.pvk.b[Len(k.vk.ic) + j], w[j])]
        \in [1 .. Len(w) -> Scalars]
  BY <1>1, <1>2, Closure
<1>4. WitnessSum(k, w) \in Scalars
  BY <1>1, <1>3, SumType DEF WitnessSum
<1> QED BY <1>1, <1>2, <1>3, <1>4

\* The multi-scalar multiplication over [1, x, w] is the public leg (less beta)
\* plus the witness part.
LEMMA AssignmentSplits ==
    ASSUME NEW k \in Keys, NEW x \in Inputs, NEW w, WitnessFits(k, w),
           Len(x) + 1 = Len(k.vk.ic)
    PROVE  AssignmentSum(k, x, w) = Plus(Affine(k.pvk.b, x), WitnessSum(k, w))
<1> DEFINE n == Len(x)
           m == Len(w)
           b == k.pvk.b
           h == [j \in 1 .. Len(b) |-> Times(b[j], FullAssignment(x, w)[j])]
           f == [j \in 1 .. 1 + n |-> h[j]]
           g == [j \in 1 .. m |-> Times(b[Len(k.vk.ic) + j], w[j])]
           one == [j \in 1 .. 1 |-> h[1]]
           p == [i \in 1 .. n |-> Times(b[i + 1], x[i])]
<1>1. /\ n \in Nat /\ m \in Nat /\ Len(b) = (1 + n) + m
      /\ x \in [1 .. n -> Scalars] /\ w \in [1 .. m -> Scalars]
      /\ b \in [1 .. Len(b) -> Scalars] /\ Len(k.vk.ic) = 1 + n
  <2>1. x \in Vectors /\ w \in Vectors /\ b \in Vectors
    BY InputsAssumption, KeyType DEF WitnessFits
  <2>2. /\ n \in Nat /\ m \in Nat /\ Len(b) \in Nat
        /\ x \in [1 .. n -> Scalars] /\ w \in [1 .. m -> Scalars]
        /\ b \in [1 .. Len(b) -> Scalars]
    BY <2>1, VectorFun
  <2>3. Len(k.vk.ic) = 1 + n /\ m = Len(b) - Len(k.vk.ic)
    BY <2>2, KeyType DEF WitnessFits
  <2> HIDE DEF n, m, b
  <2> QED BY <2>2, <2>3
<1>2. \A j \in 1 .. Len(b) :
         h[j] = Times(b[j], IF j = 1 THEN One
                            ELSE IF j <= 1 + n THEN x[j - 1] ELSE w[j - 1 - n])
  BY <1>1 DEF FullAssignment
<1>a. 1 + n \in Nat /\ Len(b) \in Nat
  BY <1>1
<1>b. \A j \in 1 .. m : g[j] = Times(b[(1 + n) + j], w[j])
  BY <1>1
<1> HIDE DEF n, m, b
<1>3. h \in [1 .. (1 + n) + m -> Scalars]
  <2>1. ASSUME NEW j \in 1 .. Len(b)
        PROVE  /\ b[j] \in Scalars
               /\ (IF j = 1 THEN One
                   ELSE IF j <= 1 + n THEN x[j - 1] ELSE w[j - 1 - n]) \in Scalars
    <3>1. CASE j = 1 BY <3>1, <1>1, Closure
    <3>2. CASE j # 1 /\ j <= 1 + n BY <3>2, <1>1
    <3>3. CASE ~ (j <= 1 + n) BY <3>3, <1>1
    <3> QED BY <3>1, <3>2, <3>3, <1>1
  <2>2. \A j \in 1 .. Len(b) : h[j] \in Scalars
    <3> HIDE DEF h
    <3> QED BY <1>2, <2>1, Closure
  <2> QED BY <1>1, <2>2
<1>4. /\ f \in [1 .. 1 + n -> Scalars]
      /\ one \in [1 .. 1 -> Scalars]
  <2>1. \A j \in 1 .. 1 + n : h[j] \in Scalars
    <3> HIDE DEF h
    <3> QED BY <1>1, <1>3
  <2>2. h[1] \in Scalars
    <3> HIDE DEF h
    <3> QED BY <1>1, <2>1
  <2> HIDE DEF h
  <2> QED BY <2>1, <2>2
<1>5. g \in [1 .. m -> Scalars] /\ p \in [1 .. n -> Scalars]
  <2>1. g \in [1 .. m -> Scalars]
    BY WitnessTerms DEF m, b
  <2>2. \A i \in 1 .. n : Times(b[i + 1], x[i]) \in Scalars
    BY <1>1, Closure
  <2> QED BY <2>1, <2>2
<1>6. \A j \in 1 .. m : g[j] = h[(1 + n) + j]
  <2>1. ASSUME NEW j \in 1 .. m PROVE g[j] = h[(1 + n) + j]
    <3>1. /\ (1 + n) + j \in 1 .. Len(b) /\ ~ ((1 + n) + j <= 1 + n)
          /\ (1 + n) + j # 1 /\ ((1 + n) + j) - 1 - n = j
      BY <1>1
    <3> HIDE DEF h, g
    <3>2. h[(1 + n) + j] = Times(b[(1 + n) + j], w[j])
      BY <1>2, <3>1
    <3> QED BY <1>b, <3>2
  <2> QED BY <2>1
<1>7. \A j \in 1 .. n : p[j] = f[1 + j]
  <2>1. ASSUME NEW j \in 1 .. n PROVE p[j] = f[1 + j]
    <3>1. /\ 1 + j \in 1 .. Len(b) /\ 1 + j <= 1 + n /\ 1 + j # 1
          /\ (1 + j) - 1 = j /\ 1 + j \in 1 .. 1 + n /\ j + 1 = 1 + j
      BY <1>1
    <3>2. h[1 + j] = Times(b[1 + j], x[j])
      <4> HIDE DEF h
      <4> QED BY <1>2, <3>1
    <3>3. f[1 + j] = h[1 + j]
      <4> HIDE DEF h
      <4> QED BY <3>1
    <3> QED BY <3>1, <3>2, <3>3
  <2> QED BY <2>1
<1>8. one[1] = b[1] /\ one[1] = f[1]
  <2>1. 1 \in 1 .. Len(b) /\ b[1] \in Scalars /\ 1 \in 1 .. 1 + n
    BY <1>1
  <2>2. h[1] = Times(b[1], One)
    <3> HIDE DEF h
    <3> QED BY <1>2, <2>1
  <2>3. one[1] = h[1] /\ f[1] = h[1]
    <3> HIDE DEF h
    <3> QED BY <2>1
  <2> QED BY <2>1, <2>2, <2>3, TimesLaws
<1>9. Sum(h, (1 + n) + m) = Plus(Sum(f, 1 + n), Sum(g, m))
  <2>1. \A j \in 1 .. 1 + n : f[j] = h[j]
    <3> HIDE DEF h
    <3> QED OBVIOUS
  <2> HIDE DEF f, g, h
  <2> QED BY <1>1, <1>a, <1>3, <1>4, <1>5, <1>6, <2>1, SumCut
<1>10. Sum(f, 1 + n) = Plus(Sum(one, 1), Sum(p, n))
  <2>1. \A j \in 1 .. 1 : one[j] = f[j]
    BY <1>8
  <2> HIDE DEF f, one, p
  <2> QED BY <1>1, <1>4, <1>5, <1>7, <2>1, SumCut
<1>11. Sum(one, 1) = b[1]
  BY <1>4, <1>8, SumOne
<1>12. AssignmentSum(k, x, w) = Sum(h, (1 + n) + m)
  BY <1>1 DEF AssignmentSum, b
<1>13. Affine(k.pvk.b, x) = Plus(b[1], Sum(p, n)) /\ WitnessSum(k, w) = Sum(g, m)
  BY DEF Affine, WitnessSum, b, n, m
<1> QED BY <1>9, <1>10, <1>11, <1>12, <1>13

--------------------------------------------------------------------------------
LEMMA BuildType ==
    ASSUME NEW a \in Scalars, NEW c \in Scalars, NEW s \in Scalars,
           NEW r \in Scalars, NEW w \in Vectors
    PROVE  /\ BuildCommitments(a, c, s, r, w) \in Commitments
           /\ Len(BuildCommitments(a, c, s, r, w).cols) = 1 + Len(w)
           /\ Len(BuildCommitments(a, c, s, r, w).theta) = 1
<1>1. Len(w) \in Nat /\ w \in [1 .. Len(w) -> Scalars] /\ 1 + Len(w) \in Nat
  BY VectorFun
<1>2. \A j \in 1 .. 1 + Len(w) : ColumnCommitments(a, w)[j] \in Limb
  BY <1>1, Closure DEF ColumnCommitments, Limb
<1>3. ColumnCommitments(a, w) \in [1 .. 1 + Len(w) -> Limb]
  BY <1>2 DEF ColumnCommitments
<1>4. ColumnCommitments(a, w) \in Seq(Limb) /\ Len(ColumnCommitments(a, w)) = 1 + Len(w)
  BY <1>1, <1>3, FunSeq
<1>5. /\ Times(a, r) \in Scalars /\ Minus(Times(a, r)) \in Scalars
      /\ Plus(Times(a, s), Minus(c)) \in Scalars /\ Zero \in Scalars
  BY Closure
<1> QED BY <1>4, <1>5 DEF BuildCommitments, Commitments, Limb

LEMMA TimesSwap ==
    ASSUME NEW a \in Scalars, NEW b \in Scalars, NEW c \in Scalars
    PROVE  Times(Times(a, b), c) = Times(Times(c, b), a)
<1>1. Times(Times(a, b), c) = Times(a, Times(b, c))
  BY TimesLaws
<1>2. Times(a, Times(b, c)) = Times(Times(b, c), a)
  BY Closure, TimesLaws
<1>3. Times(b, c) = Times(c, b)
  BY TimesLaws
<1> QED BY <1>1, <1>2, <1>3

\* The blinding row and its canceller add nothing.
LEMMA BlindingCancels ==
    ASSUME NEW cs \in Scalars, NEW th \in Scalars, NEW u \in Scalars, NEW d \in Scalars
    PROVE  Plus(Plus(cs, Plus(Times(th, d), Times(u, d))),
                Plus(Times(Minus(u), d), Times(Zero, d)))
             = Plus(cs, Times(th, d))
<1> DEFINE t == Times(th, d)
           p == Times(u, d)
           q == Times(Minus(u), d)
<1>1. t \in Scalars /\ p \in Scalars /\ q \in Scalars
  BY Closure
<1>2. Plus(p, q) = Zero
  <2>1. Plus(p, q) = Times(Plus(u, Minus(u)), d)
    BY Closure, Distributes
  <2> QED BY <2>1, PlusZero, TimesZero
<1>3. Times(Zero, d) = Zero
  BY TimesZero
<1> HIDE DEF t, p, q
<1>4. Plus(Plus(cs, Plus(t, p)), q) = Plus(cs, Plus(t, Plus(p, q)))
  BY <1>1, Closure, PlusLaws
<1>5. Plus(q, Zero) = q /\ Plus(t, Zero) = t
  BY <1>1, PlusZero
<1> QED BY <1>2, <1>3, <1>4, <1>5 DEF t, p, q

\* The product of the honest commitments over the columns of any statement y:
\* A (leg(y) + sum w_j b_j) + (sA - C) delta.
LEMMA HonestProduct ==
    ASSUME NEW k \in Keys, NEW y \in Inputs, SplitDefined(k, y),
           NEW w, WitnessFits(k, w), NEW a \in Scalars, NEW c \in Scalars,
           NEW s \in Scalars, NEW r \in Scalars
    PROVE  PairingProduct(BuildCommitments(a, c, s, r, w), Columns(k, y), k.pvk.delta)
             = Plus(Times(Plus(PublicLeg(k, y), WitnessSum(k, w)), a),
                    Times(Plus(Times(a, s), Minus(c)), k.pvk.delta))
<1> DEFINE com == BuildCommitments(a, c, s, r, w)
           ys == Columns(k, y)
           d == k.pvk.delta
           th == Plus(Times(a, s), Minus(c))
           u == Times(a, r)
           m == Len(w)
           h == ColumnTerms(com, ys)
           one == [j \in 1 .. 1 |-> h[1]]
           f == [j \in 1 .. m |-> Times(k.pvk.b[Len(k.vk.ic) + j], w[j])]
           g == [j \in 1 .. m |-> Times(f[j], a)]
           tt == ThetaTerms(com, d)
<1>1. /\ m \in Nat /\ w \in [1 .. m -> Scalars] /\ 1 + m \in Nat
      /\ f \in [1 .. m -> Scalars]
      /\ \A j \in 1 .. m : w[j] \in Scalars /\ k.pvk.b[Len(k.vk.ic) + j] \in Scalars
  <2>1. w \in Vectors
    BY DEF WitnessFits
  <2>2. m \in Nat /\ w \in [1 .. m -> Scalars]
    BY <2>1, VectorFun
  <2> QED BY <2>2, WitnessTerms
<1>2. NumColumns(k) = 1 + m
  BY KeyType DEF NumColumns, WitnessFits
<1>3. /\ ys \in Vectors /\ Len(ys) = 1 + m /\ DOMAIN ys = 1 .. 1 + m
      /\ PublicLeg(k, y) \in Scalars
  BY <1>2, ColumnsType
<1>4. /\ com \in Commitments /\ Len(com.cols) = 1 + m /\ Len(com.theta) = 1
  <2>1. w \in Vectors
    BY DEF WitnessFits
  <2> QED BY <2>1, BuildType
<1>5. d \in Scalars /\ th \in Scalars /\ u \in Scalars
  BY KeyType, Closure
<1>6. /\ h \in [1 .. 1 + m -> Scalars] /\ tt \in [1 .. 1 -> Scalars]
  <2> HIDE DEF com, ys, d
  <2> QED BY <1>3, <1>4, <1>5, TermsType
<1>7. h[1] = Times(PublicLeg(k, y), a)
  <2>1. 1 \in 1 .. 1 + m
    BY <1>1
  <2>2. com.cols[1] = <<a, Zero>> /\ ys[1] = PublicLeg(k, y)
    BY <1>2, <2>1 DEF BuildCommitments, ColumnCommitments, Columns
  <2>3. h[1] = Limbs(com.cols[1], ys[1])
    <3> HIDE DEF com, ys
    <3> QED BY <1>3, <2>1 DEF ColumnTerms
  <2>4. h[1] = Plus(Times(a, PublicLeg(k, y)), Times(Zero, PublicLeg(k, y)))
    <3> HIDE DEF com, ys, h
    <3> QED BY <2>2, <2>3 DEF Limbs
  <2> HIDE DEF h
  <2> QED BY <1>3, <2>4, TimesZero, PlusZero, TimesLaws, Closure
<1>8. ASSUME NEW j \in 1 .. m
      PROVE  h[1 + j] = Times(f[j], a)
  <2>1. 1 + j \in 1 .. 1 + m /\ 1 + j # 1 /\ (1 + j) - 1 = j
    BY <1>1
  <2>2. com.cols[1 + j] = <<Times(a, w[j]), Zero>>
    BY <2>1 DEF BuildCommitments, ColumnCommitments
  <2> DEFINE b == k.pvk.b[Len(k.vk.ic) + j]
  <2>3. ys[1 + j] = b
    <3>1. Len(k.vk.ic) + (1 + j) - 1 = Len(k.vk.ic) + j
      BY KeyType
    <3> QED BY <1>2, <2>1, <3>1 DEF Columns
  <2>4. h[1 + j] = Limbs(com.cols[1 + j], ys[1 + j])
    <3> HIDE DEF com, ys
    <3> QED BY <1>3, <2>1 DEF ColumnTerms
  <2>5. h[1 + j] = Plus(Times(Times(a, w[j]), b), Times(Zero, b))
    <3> HIDE DEF com, ys, h, b
    <3> QED BY <2>2, <2>3, <2>4 DEF Limbs
  <2>6. w[j] \in Scalars /\ b \in Scalars /\ f[j] = Times(b, w[j])
    BY <1>1
  <2>7. h[1 + j] = Times(Times(a, w[j]), b)
    <3> HIDE DEF h, b, f
    <3> QED BY <2>5, <2>6, TimesZero, PlusZero, Closure
  <2>8. Times(Times(a, w[j]), b) = Times(Times(b, w[j]), a)
    <3> HIDE DEF b, f
    <3> QED BY <2>6, TimesSwap
  <2> QED BY <2>6, <2>7, <2>8
<1>9. Sum(h, 1 + m) = Plus(Sum(one, 1), Sum(g, m))
  <2>1. one \in [1 .. 1 -> Scalars] /\ one[1] = h[1]
    <3> HIDE DEF h
    <3> QED BY <1>1, <1>6
  <2>2. g \in [1 .. m -> Scalars] /\ \A j \in 1 .. m : g[j] = Times(f[j], a)
    <3> HIDE DEF f
    <3> QED BY <1>1, Closure
  <2> HIDE DEF h, g, one, f
  <2>3. \A j \in 1 .. m : g[j] = h[1 + j]
    BY <1>8, <2>2
  <2>4. \A j \in 1 .. 1 : one[j] = h[j]
    BY <2>1
  <2> QED BY <1>1, <1>6, <2>1, <2>2, <2>3, <2>4, SumCut
<1>10. Sum(one, 1) = Times(PublicLeg(k, y), a)
  <2> HIDE DEF h
  <2>1. one \in [1 .. 1 -> Scalars] /\ one[1] = h[1]
    BY <1>1, <1>6
  <2> HIDE DEF one
  <2> QED BY <1>7, <2>1, SumOne
<1>11. Sum(g, m) = Times(WitnessSum(k, w), a)
  <2>1. g \in [1 .. m -> Scalars] /\ \A j \in 1 .. m : g[j] = Times(f[j], a)
    <3> HIDE DEF f
    <3> QED BY <1>1, Closure
  <2>2. WitnessSum(k, w) = Sum(f, m)
    BY DEF WitnessSum
  <2>3. m \in Nat /\ f \in [1 .. m -> Scalars]
    BY <1>1
  <2> HIDE DEF g, f, m
  <2>4. Sum(g, m) = Times(Sum(f, m), a)
    BY <2>1, <2>3, SumScale
  <2> QED BY <2>2, <2>4
<1>12. Sum(h, 1 + m) = Times(Plus(PublicLeg(k, y), WitnessSum(k, w)), a)
  <2>1. WitnessSum(k, w) \in Scalars
    BY WitnessTerms
  <2> HIDE DEF h, g, one, m
  <2> QED BY <1>3, <1>9, <1>10, <1>11, <2>1, Distributes
<1>13. Sum(tt, 1) = Plus(Times(th, d), Times(u, d))
  <2>1. tt[1] = Limbs(com.theta[1], d)
    <3> HIDE DEF com, d
    <3> QED BY <1>4 DEF ThetaTerms
  <2>2. com.theta[1] = <<th, u>>
    BY DEF BuildCommitments
  <2>3. tt[1] = Plus(Times(th, d), Times(u, d))
    <3> HIDE DEF com, d, th, u, tt
    <3> QED BY <2>1, <2>2 DEF Limbs
  <2> HIDE DEF tt
  <2> QED BY <1>6, <2>3, SumOne
<1>14. Limbs(com.cancel, d) = Plus(Times(Minus(u), d), Times(Zero, d))
  BY DEF BuildCommitments, Limbs
<1>15. PairingProduct(com, ys, d)
         = Plus(Plus(Sum(h, 1 + m), Sum(tt, 1)), Limbs(com.cancel, d))
  <2> HIDE DEF com, ys, d, m
  <2> QED BY <1>3, <1>4 DEF PairingProduct, ColumnTerms, ThetaTerms
<1>16. Sum(h, 1 + m) \in Scalars
  <2> HIDE DEF h, m
  <2> QED BY <1>1, <1>6, SumType
<1> DEFINE cs == Sum(h, 1 + m)
<1>17. PairingProduct(com, ys, d) = Plus(cs, Times(th, d))
  <2> HIDE DEF com, ys, d, th, u, cs, tt, h
  <2>1. PairingProduct(com, ys, d)
          = Plus(Plus(cs, Plus(Times(th, d), Times(u, d))),
                 Plus(Times(Minus(u), d), Times(Zero, d)))
    BY <1>13, <1>14, <1>15 DEF cs
  <2>2. cs \in Scalars
    BY <1>16 DEF cs
  <2> QED BY <1>5, <2>1, <2>2, BlindingCancels
<1> QED BY <1>12, <1>17

\* The honest commitments satisfy the product equation of the target their C
\* was made for, over the columns of every statement with the same public leg.
LEMMA HonestLhs ==
    ASSUME NEW k \in Keys, Consistent(k), NEW x \in Inputs, NEW y \in Inputs,
           SplitDefined(k, y), Len(x) + 1 = Len(k.vk.ic),
           PublicLeg(k, x) = PublicLeg(k, y),
           NEW w, WitnessFits(k, w), NEW a \in Scalars, NEW c \in Scalars,
           NEW s \in Scalars, NEW r \in Scalars, NEW target \in Scalars,
           Groth16Equation(k.vk, target, [a |-> a, b |-> ProverB(k, x, w, s), c |-> c])
    PROVE  PairingProduct(BuildCommitments(a, c, s, r, w), Columns(k, y), k.pvk.delta)
             = target
<1> DEFINE W == WitnessSum(k, w)
           L == Plus(PublicLeg(k, y), W)
           d == k.pvk.delta
           b == ProverB(k, x, w, s)
           as == Times(a, s)
           prod == Plus(Times(L, a), Times(Plus(as, Minus(c)), d))
<1>1. W \in Scalars /\ PublicLeg(k, y) \in Scalars /\ d \in Scalars
  BY WitnessTerms, ColumnsType, KeyType
<1>2. L \in Scalars /\ as \in Scalars
  <2> HIDE DEF W
  <2> QED BY <1>1, Closure
<1>3. b = Plus(L, Times(d, s))
  <2> DEFINE af == Affine(k.pvk.b, x)
  <2>1. AssignmentSum(k, x, w) = Plus(af, W)
    BY AssignmentSplits
  <2>2. af \in Scalars /\ k.pvk.beta \in Scalars
    <3>1. x \in Vectors /\ Len(x) \in Nat
      BY InputsAssumption, VectorFun
    <3>2. Len(k.pvk.b) >= Len(x) + 1
      BY KeyType, <3>1 DEF SplitDefined
    <3> QED BY <3>1, <3>2, KeyType, AffineType
  <2>3. PublicLeg(k, y) = Plus(k.pvk.beta, af)
    BY DEF PublicLeg
  <2>4. b = Plus(Plus(k.pvk.beta, Plus(af, W)), Times(d, s))
    BY <2>1 DEF ProverB, Consistent
  <2> HIDE DEF af, W
  <2>5. Plus(k.pvk.beta, Plus(af, W)) = Plus(Plus(k.pvk.beta, af), W)
    BY <1>1, <2>2, PlusLaws
  <2> QED BY <2>3, <2>4, <2>5
<1>4. Times(a, b) = Plus(target, Times(c, d))
  BY DEF Groth16Equation, Consistent
<1>5. Times(a, b) = Plus(Times(L, a), Times(as, d))
  <2> HIDE DEF L, d, b
  <2>1. Times(d, s) \in Scalars /\ Plus(L, Times(d, s)) \in Scalars
    BY <1>1, <1>2, Closure
  <2>2. Times(a, b) = Times(Plus(L, Times(d, s)), a)
    BY <1>3, <2>1, TimesLaws
  <2>3. Times(Plus(L, Times(d, s)), a) = Plus(Times(L, a), Times(Times(d, s), a))
    BY <1>2, <2>1, Distributes
  <2>4. Times(Times(d, s), a) = Times(as, d)
    BY <1>1, TimesSwap
  <2> QED BY <2>2, <2>3, <2>4
<1>6. Plus(prod, Times(c, d)) = Plus(Times(L, a), Times(as, d))
  <2> HIDE DEF L, d, as
  <2> DEFINE th == Plus(as, Minus(c))
             la == Times(L, a)
             td == Times(th, d)
             cd == Times(c, d)
  <2>1. /\ th \in Scalars /\ la \in Scalars /\ td \in Scalars /\ cd \in Scalars
        /\ Minus(c) \in Scalars
    BY <1>1, <1>2, Closure
  <2>2. Plus(th, c) = as
    BY <1>2, MinusPlus
  <2>3. Plus(td, cd) = Times(as, d)
    <3>1. Plus(td, cd) = Times(Plus(th, c), d)
      <4> HIDE DEF th
      <4> QED BY <1>1, <2>1, Distributes
    <3> QED BY <2>2, <3>1
  <2>4. Plus(Plus(la, td), cd) = Plus(la, Plus(td, cd))
    <3> HIDE DEF la, td, cd
    <3> QED BY <2>1, PlusLaws
  <2> QED BY <2>3, <2>4
<1>7. prod \in Scalars /\ Times(c, d) \in Scalars
  <2> HIDE DEF L, d, as
  <2> QED BY <1>1, <1>2, Closure
<1>8. prod = target
  <2> DEFINE cd == Times(c, d)
             ab == Times(a, b)
             rhs == Plus(Times(L, a), Times(as, d))
  <2>1. ab = Plus(target, cd) /\ ab = rhs /\ Plus(prod, cd) = rhs
    BY <1>4, <1>5, <1>6
  <2>2. prod \in Scalars /\ cd \in Scalars
    BY <1>7
  <2> HIDE DEF prod, cd, ab, rhs
  <2>3. Plus(prod, cd) = Plus(target, cd)
    BY <2>1
  <2> QED BY <2>2, <2>3, Cancel
<1> QED BY <1>8, HonestProduct

--------------------------------------------------------------------------------
(***************************************************************************)
(* The inductive invariant: every stored record still says how it came     *)
(* about.  TypeOK alone is not inductive enough: which key a decapsulation *)
(* yields depends on how the arms and the commitments were made.           *)
(***************************************************************************)
ArmedHonestly(k, arm) ==
    /\ arm \in Armings
    /\ ArmingAllowed(k, arm.x, arm.rho)
    /\ arm.ys = ArmColumn(Columns(k, arm.x), arm.rho)
    /\ arm.delta = Times(k.pvk.delta, arm.rho)
    /\ arm.key = Times(BakedTarget(k, arm.x), arm.rho)

\* The elements an unaltered bundle was built from.
BuiltFrom(k, bun, w, a, s, r, cStd, cLean) ==
    LET b == ProverB(k, bun.x, w, s)
    IN  /\ WitnessFits(k, w)
        /\ a \in Scalars /\ s \in Scalars /\ r \in Scalars
        /\ cStd \in Scalars /\ cLean \in Scalars
        /\ Len(bun.x) + 1 = Len(k.vk.ic) /\ Len(k.pvk.t) = Len(k.vk.ic)
        /\ Groth16Equation(k.vk, RawTarget(k.vk, bun.x), [a |-> a, b |-> b, c |-> cStd])
        /\ Groth16Equation(k.vk, BakedTarget(k, bun.x), [a |-> a, b |-> b, c |-> cLean])
        /\ bun.proof = [a |-> a, b |-> b, c |-> IF bun.kind = "lean" THEN cLean ELSE cStd]
        /\ bun.com = BuildCommitments(a, IF bun.kind = "standard" THEN cStd ELSE cLean,
                                      s, r, w)

Built(k, bun) ==
    /\ bun \in Bundles
    /\ bun.kind # "altered" =>
          \E w, a, s, r, cStd, cLean : BuiltFrom(k, bun, w, a, s, r, cStd, cLean)

Decap(arm, bun) ==
    IF Len(bun.com.cols) # Len(arm.ys) THEN None
    ELSE PairingProduct(bun.com, arm.ys, arm.delta)

IInv ==
    /\ key \in Keys
    /\ arming # None => ArmedHonestly(key, arming)
    /\ bundle # None => Built(key, bundle)
    /\ verdict # None =>
          /\ verdict \in Verdicts
          /\ Built(key, verdict.bundle)
          /\ verdict.ok = VerifyBundle(key, verdict.x, verdict.bundle)
    /\ derived # None =>
          /\ derived \in Derivations
          /\ ArmedHonestly(key, derived.arming)
          /\ Built(key, derived.bundle)
          /\ derived.k = Decap(derived.arming, derived.bundle)

LEMMA IInvTypeOK == IInv => TypeOK
BY DEF IInv, TypeOK, ArmedHonestly, Built

LEMMA IInvInit == Init => IInv
BY DEF Init, IInv

LEMMA ArmStep ==
    ASSUME IInv, NEW x \in Inputs, NEW rho \in Rhos, SetupAndArm(x, rho)
    PROVE  IInv'
<1>1. key \in Keys /\ SplitDefined(key, x) /\ TargetDefined(key, x) /\ rho \in Scalars
  BY InputsAssumption DEF IInv, SetupAndArm, ArmingAllowed
<1>2. Columns(key, x) \in Vectors /\ BakedTarget(key, x) \in Scalars
      /\ key.pvk.delta \in Scalars
  BY <1>1, ColumnsType, TargetType, KeyType
<1>3. ArmColumn(Columns(key, x), rho) \in Vectors
  BY <1>1, <1>2, ArmColumnType
<1>4. arming' \in Armings
  BY <1>1, <1>2, <1>3, Closure DEF SetupAndArm, Armings
<1>5. ArmedHonestly(key, arming')
  BY <1>4 DEF ArmedHonestly, SetupAndArm
<1> QED BY <1>5 DEF IInv, SetupAndArm

LEMMA ProveStep ==
    ASSUME IInv, NEW x \in Inputs, NEW w \in Witnesses, NEW a \in Points,
           NEW s \in Randomizers, NEW r \in Randomizers, NEW cStd \in Scalars,
           NEW cLean \in Scalars, NEW kind \in Kinds,
           ProveAndBuild(x, w, a, s, r, cStd, cLean, kind)
    PROVE  IInv'
<1> DEFINE b == ProverB(key, x, w, s)
           c == IF kind = "lean" THEN cLean ELSE cStd
           cc == IF kind = "standard" THEN cStd ELSE cLean
<1>1. /\ key \in Keys /\ w \in Vectors /\ a \in Scalars /\ s \in Scalars
      /\ r \in Scalars /\ c \in Scalars /\ cc \in Scalars
  BY InputsAssumption DEF IInv
<1>2. x \in Vectors /\ Len(x) \in Nat /\ Len(w) \in Nat
  BY <1>1, InputsAssumption, VectorFun
<1>3. WitnessFits(key, w)
  BY <1>1, <1>2, KeyType DEF ProveAndBuild, WitnessFits
<1>4. b \in Scalars
  <2>1. Len(key.pvk.b) >= Len(x) + 1
    BY <1>1, <1>2, KeyType DEF ProveAndBuild
  <2>2. Affine(key.pvk.b, x) \in Scalars /\ WitnessSum(key, w) \in Scalars
    BY <1>1, <1>2, <1>3, <2>1, AffineType, WitnessTerms, KeyType
  <2>3. AssignmentSum(key, x, w) \in Scalars
    BY <1>1, <1>3, <2>2, AssignmentSplits, Closure DEF ProveAndBuild
  <2> QED BY <1>1, <2>3, KeyType, Closure DEF ProverB
<1>5. BuildCommitments(a, cc, s, r, w) \in Commitments
  BY <1>1, BuildType
<1>6. bundle' = [x |-> x, kind |-> kind, proof |-> [a |-> a, b |-> b, c |-> c],
                 com |-> BuildCommitments(a, cc, s, r, w)]
  BY DEF ProveAndBuild
<1>7. bundle' \in Bundles
  <2> HIDE DEF b, c, cc
  <2> QED BY <1>1, <1>4, <1>5, <1>6 DEF Bundles, Groth16Proofs
<1>8. BuiltFrom(key, bundle', w, a, s, r, cStd, cLean)
  BY <1>1, <1>3, <1>6 DEF ProveAndBuild, BuiltFrom
<1>9. Built(key, bundle')
  <2>1. \E w1, a1, s1, r1, c1, c2 : BuiltFrom(key, bundle', w1, a1, s1, r1, c1, c2)
    BY <1>8
  <2> QED BY <1>7, <2>1 DEF Built
<1> QED BY <1>9 DEF IInv, ProveAndBuild

LEMMA AlterStep == ASSUME IInv, Alter PROVE IInv'
<1>1. PICK com \in AlteredCommitments(bundle.com) :
        bundle' = [bundle EXCEPT !.kind = "altered", !.com = com]
  BY DEF Alter
<1>2. bundle \in Bundles /\ bundle.kind # "altered"
  BY DEF IInv, Alter, Built
<1> DEFINE old == bundle.com
<1>3. old \in Commitments /\ Len(old.cols) \in Nat /\ Len(old.cols) >= 1
  <2>1. PICK w, a, s, r, c1, c2 : BuiltFrom(key, bundle, w, a, s, r, c1, c2)
    BY <1>2 DEF IInv, Alter, Built
  <2> DEFINE c == IF bundle.kind = "standard" THEN c1 ELSE c2
  <2>2. /\ w \in Vectors /\ a \in Scalars /\ s \in Scalars /\ r \in Scalars
        /\ c \in Scalars
    BY <2>1 DEF BuiltFrom, WitnessFits
  <2>3. old = BuildCommitments(a, c, s, r, w)
    BY <2>1 DEF BuiltFrom
  <2> HIDE DEF c, old
  <2>4. Len(old.cols) = 1 + Len(w) /\ old \in Commitments
    BY <2>2, <2>3, BuildType
  <2> QED BY <2>2, <2>4, VectorFun
<1> HIDE DEF old
<1>4. /\ old.cols \in Seq(Limb) /\ old.theta \in Seq(Limb) /\ old.cancel \in Limb
      /\ old = [cols |-> old.cols, theta |-> old.theta, cancel |-> old.cancel]
  BY <1>3 DEF Commitments
<1>5. \A l \in Limb : l[1] \in Scalars /\ l[2] \in Scalars
  BY DEF Limb
<1>6. \A p, q \in Scalars : <<p, q>> \in Limb
  BY DEF Limb
<1>7. com \in Commitments
  <2>1. CASE com = [old EXCEPT !.cancel =
                      <<Plus(old.cancel[1], One), Plus(old.cancel[2], Minus(One))>>]
    <3>1. <<Plus(old.cancel[1], One), Plus(old.cancel[2], Minus(One))>> \in Limb
      BY <1>4, <1>5, <1>6, Closure
    <3> QED BY <1>4, <2>1, <3>1 DEF Commitments
  <2>2. CASE com = [old EXCEPT !.cols = [old.cols EXCEPT ![1] =
                      <<old.cols[1][1], Plus(old.cols[1][2], One)>>]]
    <3>1. 1 \in 1 .. Len(old.cols) /\ old.cols[1] \in Limb
      BY <1>3, <1>4, LenProperties
    <3>2. <<old.cols[1][1], Plus(old.cols[1][2], One)>> \in Limb
      BY <3>1, <1>5, <1>6, Closure
    <3>3. [old.cols EXCEPT ![1] = <<old.cols[1][1], Plus(old.cols[1][2], One)>>]
            \in Seq(Limb)
      BY <1>4, <3>1, <3>2, ExceptSeq
    <3> QED BY <1>4, <2>2, <3>3 DEF Commitments
  <2>3. CASE com = [old EXCEPT !.theta = old.theta \o << <<One, Minus(One)>> >>]
    <3>1. << <<One, Minus(One)>> >> \in Seq(Limb)
      <4>1. <<One, Minus(One)>> \in Limb
        BY <1>6, Closure
      <4> QED BY <4>1
    <3>2. old.theta \o << <<One, Minus(One)>> >> \in Seq(Limb)
      BY <1>4, <3>1, ConcatProperties
    <3> QED BY <1>4, <2>3, <3>2 DEF Commitments
  <2>4. CASE com = [old EXCEPT !.theta = << >>]
    <3>1. << >> \in Seq(Limb)
      OBVIOUS
    <3> QED BY <1>4, <2>4, <3>1 DEF Commitments
  <2>5. CASE com = [old EXCEPT !.cols = SubSeq(old.cols, 1, Len(old.cols) - 1)]
    <3>1. \A i \in 1 .. Len(old.cols) - 1 : old.cols[i] \in Limb
      BY <1>3, <1>4, LenProperties
    <3>2. SubSeq(old.cols, 1, Len(old.cols) - 1) \in Seq(Limb)
      BY <1>3, <3>1, SubSeqProperties
    <3> QED BY <1>4, <2>5, <3>2 DEF Commitments
  <2> QED BY <1>1, <2>1, <2>2, <2>3, <2>4, <2>5 DEF AlteredCommitments, old
<1>8. bundle' \in Bundles /\ bundle'.kind = "altered"
  BY <1>1, <1>2, <1>7 DEF Bundles
<1> QED BY <1>8 DEF IInv, Alter, Built

LEMMA VerifyStep ==
    ASSUME IInv, NEW x \in Inputs, Verify(x)
    PROVE  IInv'
<1>1. Built(key, bundle) /\ bundle \in Bundles
  BY DEF IInv, Verify, Built
<1>2. VerifyBundle(key, x, bundle) \in BOOLEAN
  BY DEF VerifyBundle
<1>3. verdict' \in Verdicts
  BY <1>1, <1>2 DEF Verify, Verdicts
<1> QED BY <1>1, <1>3 DEF IInv, Verify

LEMMA DecapStep == ASSUME IInv, Decapsulate PROVE IInv'
<1>1. /\ Built(key, bundle) /\ bundle \in Bundles
      /\ ArmedHonestly(key, arming) /\ arming \in Armings
  BY DEF IInv, Decapsulate, Built, ArmedHonestly
<1>2. Decap(arming, bundle) \in Scalars \cup {None}
  <2>1. bundle.com \in Commitments /\ arming.ys \in Vectors /\ arming.delta \in Scalars
    BY <1>1 DEF Bundles, Armings
  <2> QED BY <2>1, ProductType DEF Decap
<1>3. derived' = [arming |-> arming, bundle |-> bundle, k |-> Decap(arming, bundle)]
  BY DEF Decapsulate, Decap
<1>4. derived' \in Derivations
  BY <1>1, <1>2, <1>3 DEF Derivations
<1> QED BY <1>1, <1>3, <1>4 DEF IInv, Decapsulate

LEMMA IInvStep == IInv /\ [Next]_vars => IInv'
<1> SUFFICES ASSUME IInv, [Next]_vars PROVE IInv'
  OBVIOUS
<1>1. CASE \E x \in Inputs, rho \in Rhos : SetupAndArm(x, rho)
  BY <1>1, ArmStep
<1>2. CASE \E x \in Inputs, w \in Witnesses, a \in Points, s, rTheta \in Randomizers,
              cStd, cLean \in Scalars, kind \in Kinds :
                 ProveAndBuild(x, w, a, s, rTheta, cStd, cLean, kind)
  BY <1>2, ProveStep
<1>3. CASE Alter
  BY <1>3, AlterStep
<1>4. CASE \E x \in Inputs : Verify(x)
  BY <1>4, VerifyStep
<1>5. CASE Decapsulate
  BY <1>5, DecapStep
<1>6. CASE UNCHANGED vars
  BY <1>6 DEF IInv, vars
<1> QED BY <1>1, <1>2, <1>3, <1>4, <1>5, <1>6 DEF Next

\* Every reachable state satisfies the inductive invariant.
THEOREM Invariance == Spec => []IInv
BY IInvInit, IInvStep, PTL DEF Spec

\* Type correctness, for every field, key and length.
THEOREM TypeCorrect == Spec => []TypeOK
BY Invariance, IInvTypeOK, PTL

--------------------------------------------------------------------------------
\* What an arming of x holds, with the facts its checks established.
LEMMA ArmingFacts ==
    ASSUME NEW k \in Keys, NEW arm, ArmedHonestly(k, arm)
    PROVE  /\ arm.x \in Inputs /\ arm.rho \in Scalars /\ arm.rho # Zero
           /\ SplitDefined(k, arm.x)
           /\ Columns(k, arm.x) \in Vectors
           /\ Len(Columns(k, arm.x)) = NumColumns(k)
           /\ DOMAIN Columns(k, arm.x) = 1 .. NumColumns(k)
           /\ Len(arm.ys) = NumColumns(k)
           /\ BakedTarget(k, arm.x) \in Scalars /\ BakedTarget(k, arm.x) # Zero
           /\ k.pvk.delta \in Scalars /\ k.pvk.delta # Zero
<1>1. arm.x \in Inputs /\ arm.rho \in Scalars
  BY InputsAssumption DEF ArmedHonestly, Armings
<1>2. /\ arm.rho # Zero /\ SplitDefined(k, arm.x) /\ TargetDefined(k, arm.x)
      /\ BakedTarget(k, arm.x) # Zero /\ k.pvk.delta # Zero
  BY DEF ArmedHonestly, ArmingAllowed, GoodPvugcVk
<1>3. /\ Columns(k, arm.x) \in Vectors
      /\ Len(Columns(k, arm.x)) = NumColumns(k)
      /\ DOMAIN Columns(k, arm.x) = 1 .. NumColumns(k)
  BY <1>1, <1>2, ColumnsType
<1>4. Len(arm.ys) = NumColumns(k)
  BY <1>1, <1>3, ArmColumnType DEF ArmedHonestly
<1> QED BY <1>1, <1>2, <1>3, <1>4, TargetType, KeyType

\* decapsulate over the arms of x is the verifier's product for x, raised to rho.
LEMMA DecapScale ==
    ASSUME NEW k \in Keys, NEW arm, ArmedHonestly(k, arm), NEW bun \in Bundles,
           Len(bun.com.cols) = NumColumns(k)
    PROVE  Decap(arm, bun)
             = Times(PairingProduct(bun.com, Columns(k, arm.x), k.pvk.delta), arm.rho)
<1> DEFINE ys == Columns(k, arm.x)
<1>1. /\ bun.com \in Commitments /\ ys \in Vectors /\ Len(ys) = NumColumns(k)
      /\ Len(arm.ys) = NumColumns(k) /\ k.pvk.delta \in Scalars /\ arm.rho \in Scalars
  BY ArmingFacts DEF Bundles
<1>2. Decap(arm, bun)
        = PairingProduct(bun.com, ArmColumn(ys, arm.rho), Times(k.pvk.delta, arm.rho))
  BY <1>1 DEF Decap, ArmedHonestly
<1> HIDE DEF ys
<1> QED BY <1>1, <1>2, ProductScale DEF ys

LEMMA IInvVerifiedKey == IInv => VerifiedKey
<1> SUFFICES ASSUME IInv, verdict # None, verdict.ok, derived # None,
                    derived.bundle.com = verdict.bundle.com,
                    derived.arming.x = verdict.x
             PROVE  derived.k = derived.arming.key
  BY DEF VerifiedKey
<1> DEFINE com == derived.bundle.com
           arm == derived.arming
<1>1. /\ key \in Keys /\ ArmedHonestly(key, arm) /\ derived.bundle \in Bundles
      /\ VerifyBundle(key, verdict.x, verdict.bundle)
      /\ derived.k = Decap(arm, derived.bundle)
  BY DEF IInv, Built
<1>2. /\ Len(com.cols) = NumColumns(key)
      /\ PairingProduct(com, Columns(key, arm.x), key.pvk.delta)
           = BakedTarget(key, arm.x)
  BY <1>1 DEF VerifyBundle, PpeHolds
<1>3. arm.key = Times(BakedTarget(key, arm.x), arm.rho)
  BY <1>1 DEF ArmedHonestly
<1> QED BY <1>1, <1>2, <1>3, DecapScale

LEMMA BuildLength ==
    ASSUME NEW k \in Keys, NEW w, WitnessFits(k, w), NEW a \in Scalars,
           NEW c \in Scalars, NEW s \in Scalars, NEW r \in Scalars
    PROVE  Len(BuildCommitments(a, c, s, r, w).cols) = NumColumns(k)
<1>1. w \in Vectors
  BY DEF WitnessFits
<1>2. Len(BuildCommitments(a, c, s, r, w).cols) = 1 + Len(w)
  BY <1>1, BuildType
<1>3. Len(w) = Len(k.pvk.b) - Len(k.vk.ic)
  BY DEF WitnessFits
<1> QED BY <1>2, <1>3, KeyType DEF NumColumns

\* A bundle whose C solved the equation of target opens target^rho on the arms
\* of every statement with the same public leg.
LEMMA HonestDecap ==
    ASSUME NEW k \in Keys, Consistent(k), NEW arm, ArmedHonestly(k, arm),
           NEW bun \in Bundles, NEW w, WitnessFits(k, w), NEW a \in Scalars,
           NEW c \in Scalars, NEW s \in Scalars, NEW r \in Scalars,
           Len(bun.x) + 1 = Len(k.vk.ic),
           PublicLeg(k, bun.x) = PublicLeg(k, arm.x),
           NEW target \in Scalars,
           Groth16Equation(k.vk, target,
                           [a |-> a, b |-> ProverB(k, bun.x, w, s), c |-> c]),
           bun.com = BuildCommitments(a, c, s, r, w)
    PROVE  Decap(arm, bun) = Times(target, arm.rho)
<1>1. bun.x \in Inputs /\ arm.x \in Inputs /\ SplitDefined(k, arm.x)
  BY ArmingFacts DEF Bundles
<1>2. PairingProduct(bun.com, Columns(k, arm.x), k.pvk.delta) = target
  BY <1>1, HonestLhs
<1>3. Len(bun.com.cols) = NumColumns(k)
  BY BuildLength
<1> QED BY <1>2, <1>3, DecapScale

\* An unaltered bundle made with the lean C, or with the standard C where
\* T_const(x) is the identity, solves the equation of the baked target.
LEMMA BakedWitness ==
    ASSUME NEW k \in Keys, NEW bun, Built(k, bun), TargetDefined(k, bun.x),
           \/ bun.kind \in {"lean", "paired"}
           \/ bun.kind = "standard" /\ Affine(k.pvk.t, bun.x) = Zero
    PROVE  \E w, a, c, s, r :
              /\ WitnessFits(k, w)
              /\ a \in Scalars /\ c \in Scalars /\ s \in Scalars /\ r \in Scalars
              /\ Len(bun.x) + 1 = Len(k.vk.ic)
              /\ Groth16Equation(k.vk, BakedTarget(k, bun.x),
                    [a |-> a, b |-> ProverB(k, bun.x, w, s), c |-> c])
              /\ bun.com = BuildCommitments(a, c, s, r, w)
<1>1. bun.kind # "altered" /\ bun.x \in Inputs
  BY DEF Built, Bundles
<1>2. PICK w, a, s, r, cStd, cLean : BuiltFrom(k, bun, w, a, s, r, cStd, cLean)
  BY <1>1 DEF Built
<1>3. CASE bun.kind = "standard" /\ Affine(k.pvk.t, bun.x) = Zero
  <2>1. BakedTarget(k, bun.x) = RawTarget(k.vk, bun.x)
    BY <1>1, <1>3, TargetType, PlusZero DEF BakedTarget
  <2> QED BY <1>2, <1>3, <2>1 DEF BuiltFrom
<1>4. CASE bun.kind \in {"lean", "paired"}
  BY <1>2, <1>4 DEF BuiltFrom
<1> QED BY <1>3, <1>4

LEMMA IInvHonestKey == IInv => HonestKey
<1> DEFINE bun == derived.bundle
           arm == derived.arming
<1> SUFFICES ASSUME IInv, derived # None, Consistent(key), bun.x = arm.x,
                    \/ bun.kind \in {"lean", "paired"}
                    \/ bun.kind = "standard" /\ Affine(key.pvk.t, bun.x) = Zero
             PROVE  derived.k = arm.key
  BY DEF HonestKey
<1>1. /\ key \in Keys /\ ArmedHonestly(key, arm) /\ Built(key, bun)
      /\ bun \in Bundles /\ derived.k = Decap(arm, bun)
  BY DEF IInv, Built
<1>2. TargetDefined(key, bun.x) /\ BakedTarget(key, bun.x) \in Scalars
      /\ arm.key = Times(BakedTarget(key, bun.x), arm.rho)
  BY <1>1, ArmingFacts DEF ArmedHonestly, ArmingAllowed
<1>3. PICK w, a, c, s, r :
        /\ WitnessFits(key, w)
        /\ a \in Scalars /\ c \in Scalars /\ s \in Scalars /\ r \in Scalars
        /\ Len(bun.x) + 1 = Len(key.vk.ic)
        /\ Groth16Equation(key.vk, BakedTarget(key, bun.x),
              [a |-> a, b |-> ProverB(key, bun.x, w, s), c |-> c])
        /\ bun.com = BuildCommitments(a, c, s, r, w)
  BY <1>1, <1>2, BakedWitness
<1> HIDE DEF bun, arm
<1>4. Decap(arm, bun) = Times(BakedTarget(key, bun.x), arm.rho)
  BY <1>1, <1>2, <1>3, HonestDecap DEF bun, arm
<1> QED BY <1>1, <1>2, <1>4

LEMMA IInvStatementBinding == IInv => StatementBinding
<1> DEFINE bun == derived.bundle
           arm == derived.arming
<1> SUFFICES ASSUME IInv, derived # None, Consistent(key),
                    bun.kind \in {"lean", "paired"},
                    PublicLeg(key, bun.x) = PublicLeg(key, arm.x),
                    BakedTarget(key, bun.x) # BakedTarget(key, arm.x)
             PROVE  derived.k # arm.key
  BY DEF StatementBinding
<1>1. /\ key \in Keys /\ ArmedHonestly(key, arm) /\ Built(key, bun)
      /\ bun \in Bundles /\ derived.k = Decap(arm, bun)
  BY DEF IInv, Built
<1>2. /\ bun.x \in Inputs /\ BakedTarget(key, arm.x) \in Scalars
      /\ arm.rho \in Scalars /\ arm.rho # Zero
      /\ arm.key = Times(BakedTarget(key, arm.x), arm.rho)
  BY <1>1, ArmingFacts DEF ArmedHonestly, Bundles
<1>3. PICK w, a, s, r, cStd, c : BuiltFrom(key, bun, w, a, s, r, cStd, c)
  BY <1>1 DEF Built
<1>4. /\ WitnessFits(key, w)
      /\ a \in Scalars /\ c \in Scalars /\ s \in Scalars /\ r \in Scalars
      /\ Len(bun.x) + 1 = Len(key.vk.ic) /\ Len(key.pvk.t) = Len(key.vk.ic)
      /\ Groth16Equation(key.vk, BakedTarget(key, bun.x),
            [a |-> a, b |-> ProverB(key, bun.x, w, s), c |-> c])
      /\ bun.com = BuildCommitments(a, c, s, r, w)
  BY <1>3 DEF BuiltFrom
<1>5. BakedTarget(key, bun.x) \in Scalars
  <2>1. bun.x \in Vectors /\ Len(bun.x) \in Nat
    BY <1>2, InputsAssumption, VectorFun
  <2>2. Affine(key.vk.ic, bun.x) \in Scalars /\ Affine(key.pvk.t, bun.x) \in Scalars
    <3> HIDE DEF bun
    <3> QED BY <1>1, <1>4, <2>1, AffineType, KeyType
  <2> QED BY <1>1, <2>2, KeyType, Closure DEF RawTarget, BakedTarget
<1> HIDE DEF bun, arm
<1>6. Decap(arm, bun) = Times(BakedTarget(key, bun.x), arm.rho)
  BY <1>1, <1>2, <1>4, <1>5, HonestDecap DEF bun, arm
<1> QED BY <1>1, <1>2, <1>5, <1>6, TimesCancel DEF bun, arm

LEMMA IInvArmsWellFormed == IInv => ArmsWellFormed
<1> SUFFICES ASSUME IInv, arming # None
             PROVE  /\ arming.key # Zero /\ arming.delta # Zero
                    /\ Len(arming.ys) = NumColumns(key)
                    /\ \A j \in 1 .. NumColumns(key) :
                          arming.ys[j] = Zero <=> Columns(key, arming.x)[j] = Zero
  BY DEF ArmsWellFormed
<1> DEFINE ys == Columns(key, arming.x)
<1>1. key \in Keys /\ ArmedHonestly(key, arming)
  BY DEF IInv
<1>2. /\ arming.rho \in Scalars /\ arming.rho # Zero
      /\ ys \in Vectors /\ Len(ys) = NumColumns(key)
      /\ Len(arming.ys) = NumColumns(key)
      /\ BakedTarget(key, arming.x) \in Scalars /\ BakedTarget(key, arming.x) # Zero
      /\ key.pvk.delta \in Scalars /\ key.pvk.delta # Zero
  BY <1>1, ArmingFacts
<1>3. arming.key # Zero /\ arming.delta # Zero
  BY <1>1, <1>2, TimesNonZero DEF ArmedHonestly
<1>4. ASSUME NEW j \in 1 .. NumColumns(key)
      PROVE  arming.ys[j] = Zero <=> ys[j] = Zero
  <2> HIDE DEF ys
  <2>1. ys[j] \in Scalars
    BY <1>2, VectorFun
  <2>2. arming.ys[j] = Times(ys[j], arming.rho)
    BY <1>1, <1>2, ArmColumnType DEF ArmedHonestly, ys
  <2>3. Times(ys[j], arming.rho) = Zero <=> ys[j] = Zero
    BY <1>2, <2>1, TimesNonZero, TimesZero
  <2> QED BY <2>2, <2>3
<1> QED BY <1>2, <1>3, <1>4

--------------------------------------------------------------------------------
\* A proof satisfies the Groth16 equation of one target at most.
LEMMA OneTarget ==
    ASSUME NEW k \in Keys, NEW t \in Scalars, NEW u \in Scalars, NEW proof,
           proof.c \in Scalars, Groth16Equation(k.vk, t, proof)
    PROVE  Groth16Equation(k.vk, u, proof) <=> t = u
<1> DEFINE cd == Times(proof.c, k.vk.delta)
<1>1. cd \in Scalars
  BY KeyType, Closure
<1>2. Groth16Equation(k.vk, u, proof) <=> Plus(t, cd) = Plus(u, cd)
  BY DEF Groth16Equation
<1> HIDE DEF cd
<1> QED BY <1>1, <1>2, Cancel

\* The baked and the raw target of a statement agree exactly when T_const is the identity.
LEMMA TargetsAgree ==
    ASSUME NEW k \in Keys, NEW x \in Inputs, TargetDefined(k, x)
    PROVE  /\ RawTarget(k.vk, x) = BakedTarget(k, x) <=> Affine(k.pvk.t, x) = Zero
           /\ RawTarget(k.vk, x) \in Scalars /\ BakedTarget(k, x) \in Scalars
           /\ RawTarget(k.vk, x) # Zero
<1> DEFINE r == RawTarget(k.vk, x)
           t == Affine(k.pvk.t, x)
<1>1. r \in Scalars /\ t \in Scalars /\ BakedTarget(k, x) \in Scalars
  BY TargetType
<1>2. BakedTarget(k, x) = Plus(r, t) /\ r # Zero
  BY DEF BakedTarget, TargetDefined
<1> HIDE DEF r, t
<1>3. r = Plus(r, t) <=> t = Zero
  <2>1. Plus(t, r) = Plus(r, t) /\ Plus(Zero, r) = r /\ Zero \in Scalars
    BY <1>1, PlusLaws, PlusZero, Closure
  <2> QED BY <1>1, <2>1, Cancel
<1> QED BY <1>1, <1>2, <1>3 DEF r, t

\* The equation verify checks of an honest bundle's proof: the one its C was solved for,
\* unless T_const(x) is the identity.
LEMMA HonestGroth16 ==
    ASSUME NEW k \in Keys, NEW bun, NEW w, NEW a, NEW s, NEW r, NEW cStd, NEW cLean,
           BuiltFrom(k, bun, w, a, s, r, cStd, cLean), bun.kind \in Kinds,
           bun.x \in Inputs, TargetDefined(k, bun.x)
    PROVE  Groth16Verify(k.vk, bun.x, bun.proof) <=>
               bun.kind # "lean" \/ Affine(k.pvk.t, bun.x) = Zero
<1> DEFINE raw == RawTarget(k.vk, bun.x)
           baked == BakedTarget(k, bun.x)
<1>1. Len(bun.x) + 1 = Len(k.vk.ic)
  BY DEF BuiltFrom
<1>2. Groth16Verify(k.vk, bun.x, bun.proof) <=> Groth16Equation(k.vk, raw, bun.proof)
  BY <1>1 DEF Groth16Verify
<1>3. CASE bun.kind # "lean"
  BY <1>2, <1>3 DEF BuiltFrom
<1>4. CASE bun.kind = "lean"
  <2>1. Groth16Equation(k.vk, baked, bun.proof) /\ bun.proof.c \in Scalars
    BY <1>4 DEF BuiltFrom
  <2>2. raw \in Scalars /\ baked \in Scalars
        /\ (raw = baked <=> Affine(k.pvk.t, bun.x) = Zero)
    BY TargetsAgree
  <2> HIDE DEF raw, baked
  <2>3. Groth16Equation(k.vk, raw, bun.proof) <=> baked = raw
    BY <2>1, <2>2, OneTarget
  <2> QED BY <1>2, <1>4, <2>2, <2>3
<1> QED BY <1>3, <1>4

\* The product equation of the honest commitments: the baked target, unless they carry the
\* standard C and T_const(x) is not the identity.
LEMMA HonestPpe ==
    ASSUME NEW k \in Keys, Consistent(k), NEW bun, NEW w, NEW a, NEW s, NEW r,
           NEW cStd, NEW cLean, BuiltFrom(k, bun, w, a, s, r, cStd, cLean),
           bun.kind \in Kinds, bun.x \in Inputs, TargetDefined(k, bun.x),
           BakedTarget(k, bun.x) # Zero, SplitDefined(k, bun.x)
    PROVE  PpeHolds(k, bun.x, bun.com) <=>
               bun.kind # "standard" \/ Affine(k.pvk.t, bun.x) = Zero
<1> DEFINE raw == RawTarget(k.vk, bun.x)
           baked == BakedTarget(k, bun.x)
           lhs == PairingProduct(bun.com, Columns(k, bun.x), k.pvk.delta)
<1>1. /\ raw \in Scalars /\ baked \in Scalars /\ raw # Zero /\ baked # Zero
      /\ (raw = baked <=> Affine(k.pvk.t, bun.x) = Zero)
  BY TargetsAgree
<1>2. PpeHolds(k, bun.x, bun.com) <=> lhs # Zero /\ lhs = baked
  BY DEF PpeHolds
<1>3. /\ Len(bun.x) + 1 = Len(k.vk.ic) /\ WitnessFits(k, w)
      /\ a \in Scalars /\ s \in Scalars /\ r \in Scalars
      /\ cStd \in Scalars /\ cLean \in Scalars
  BY DEF BuiltFrom
<1>4. CASE bun.kind = "standard"
  <2>1. Groth16Equation(k.vk, raw,
                        [a |-> a, b |-> ProverB(k, bun.x, w, s), c |-> cStd])
    BY DEF BuiltFrom
  <2>2. bun.com = BuildCommitments(a, cStd, s, r, w)
    BY <1>4 DEF BuiltFrom
  <2> DEFINE x == bun.x
  <2>3. x \in Inputs /\ SplitDefined(k, x) /\ Len(x) + 1 = Len(k.vk.ic)
    BY <1>3
  <2> HIDE DEF raw, x
  <2>4. lhs = raw
    BY <1>1, <1>3, <2>1, <2>2, <2>3, HonestLhs DEF x
  <2> HIDE DEF baked, lhs
  <2> QED BY <1>1, <1>2, <1>4, <2>4
<1>5. CASE bun.kind # "standard"
  <2>1. Groth16Equation(k.vk, baked,
                        [a |-> a, b |-> ProverB(k, bun.x, w, s), c |-> cLean])
    BY DEF BuiltFrom
  <2>2. bun.com = BuildCommitments(a, cLean, s, r, w)
    BY <1>5 DEF BuiltFrom
  <2> DEFINE x == bun.x
  <2>3. x \in Inputs /\ SplitDefined(k, x) /\ Len(x) + 1 = Len(k.vk.ic)
    BY <1>3
  <2> HIDE DEF baked, x
  <2>4. lhs = baked
    BY <1>1, <1>3, <2>1, <2>2, <2>3, HonestLhs DEF x
  <2> HIDE DEF lhs
  <2> QED BY <1>1, <1>2, <1>5, <2>4
<1> QED BY <1>4, <1>5

\* What verify answers to any unaltered bundle: the proof has to be on the side of the baked
\* term that the Groth16 equation wants, the commitments on the other side.
JudgedExactly ==
    /\ verdict # None /\ Consistent(key)
    /\ verdict.bundle.kind \in Kinds /\ verdict.bundle.x = verdict.x
    /\ arming # None /\ arming.x = verdict.x
    => (verdict.ok <=>
          /\ WithinLimits(key, verdict.bundle.com)
          /\ GammaExcluded(key, verdict.x)
          /\ \/ verdict.bundle.kind = "paired"
             \/ Affine(key.pvk.t, verdict.x) = Zero)

LEMMA IInvJudgedExactly == IInv => JudgedExactly
<1> DEFINE bun == verdict.bundle
           x == verdict.x
<1> SUFFICES ASSUME IInv, verdict # None, Consistent(key), bun.kind \in Kinds,
                    bun.x = x, arming # None, arming.x = x
             PROVE  verdict.ok <=>
                      /\ WithinLimits(key, bun.com)
                      /\ GammaExcluded(key, x)
                      /\ bun.kind = "paired" \/ Affine(key.pvk.t, x) = Zero
  BY DEF JudgedExactly
<1>1. /\ key \in Keys /\ Built(key, bun) /\ bun \in Bundles /\ bun.x \in Inputs
      /\ verdict.ok = VerifyBundle(key, bun.x, bun)
      /\ ArmingAllowed(key, bun.x, arming.rho)
  BY DEF IInv, Built, Bundles, ArmedHonestly
<1>2. bun.kind # "altered"
  BY DEF Kinds
<1>3. PICK w, a, s, r, cStd, cLean : BuiltFrom(key, bun, w, a, s, r, cStd, cLean)
  BY <1>1, <1>2 DEF Built
<1> HIDE DEF bun, x
<1>4. /\ GoodPvugcVk(key.pvk) /\ GoodVk(key.vk)
      /\ TargetDefined(key, bun.x) /\ BakedTarget(key, bun.x) # Zero
      /\ SplitDefined(key, bun.x)
  BY <1>1 DEF ArmingAllowed
<1>5. Len(bun.com.cols) = NumColumns(key) /\ bun.com.theta # << >>
  <2> DEFINE c == IF bun.kind = "standard" THEN cStd ELSE cLean
  <2>1. /\ WitnessFits(key, w) /\ w \in Vectors
        /\ a \in Scalars /\ c \in Scalars /\ s \in Scalars /\ r \in Scalars
    BY <1>3 DEF BuiltFrom, WitnessFits
  <2>2. bun.com = BuildCommitments(a, c, s, r, w)
    BY <1>3 DEF BuiltFrom
  <2> HIDE DEF c
  <2>3. Len(bun.com.cols) = NumColumns(key)
    BY <1>1, <2>1, <2>2, BuildLength
  <2>4. Len(bun.com.theta) = 1
    BY <2>1, <2>2, BuildType
  <2>5. Len(<< >>) # 1
    OBVIOUS
  <2>6. bun.com.theta # << >>
    BY <2>4, <2>5, Zenon
  <2> QED BY <2>3, <2>6
<1>6. Groth16Verify(key.vk, bun.x, bun.proof) <=>
          bun.kind # "lean" \/ Affine(key.pvk.t, bun.x) = Zero
  BY <1>1, <1>3, <1>4, HonestGroth16
<1>7. PpeHolds(key, bun.x, bun.com) <=>
          bun.kind # "standard" \/ Affine(key.pvk.t, bun.x) = Zero
  BY <1>1, <1>3, <1>4, HonestPpe
<1>8. bun.kind = "paired" <=> bun.kind # "lean" /\ bun.kind # "standard"
  BY DEF Kinds
<1>9. VerifyBundle(key, bun.x, bun) <=>
          /\ Groth16Verify(key.vk, bun.x, bun.proof)
          /\ WithinLimits(key, bun.com)
          /\ GammaExcluded(key, bun.x)
          /\ PpeHolds(key, bun.x, bun.com)
  BY <1>4, <1>5 DEF VerifyBundle
<1>10. bun.x = x
  BY DEF bun, x
<1> QED BY <1>1, <1>6, <1>7, <1>8, <1>9, <1>10

LEMMA IInvHonestVerdict == IInv => HonestVerdict
BY IInvJudgedExactly DEF JudgedExactly, HonestVerdict

--------------------------------------------------------------------------------
\* Verified commitments open the armed key: for every field, every key pair,
\* consistent or not, and every way of altering the commitments.
THEOREM VerifiedOpens == Spec => []VerifiedKey
BY Invariance, IInvVerifiedKey, PTL

\* Every honest proof of the armed statement opens the armed key, whatever its
\* randomness and its witness.
THEOREM HonestOpens == Spec => []HonestKey
BY Invariance, IInvHonestKey, PTL

\* An honest proof of another statement does not open the key.
THEOREM OtherStatementLocked == Spec => []StatementBinding
BY Invariance, IInvStatementBinding, PTL

\* What verify answers to an honest bundle of an armed statement, lean proofs over a
\* T_const(x) that is not the identity apart: Accepted exactly within the limits, with gamma
\* no column, and with the commitments on the side of the baked term that their equation wants.
THEOREM HonestBundlesJudged == Spec => []HonestVerdict
BY Invariance, IInvHonestVerdict, PTL

\* The armed key is never the identity and the arms have the attested shape.
THEOREM ArmsShaped == Spec => []ArmsWellFormed
BY Invariance, IInvArmsWellFormed, PTL

================================================================================
