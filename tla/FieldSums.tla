-------------------------------- MODULE FieldSums ------------------------------
(***************************************************************************)
(* Facts the proof modules share: about the accumulation loop Sum of       *)
(* PairingRing, for every ring and every length; about the sums Total of   *)
(* EvaluationDomain over finite sets; about powers, roots of unity,        *)
(* transforms and interpolation on a domain of them; and about inner       *)
(* products and the polynomial division behind a QAP, for every field; and *)
(* about powers of two.                                                    *)
(***************************************************************************)
EXTENDS EvaluationDomain, Positional, TLAPS, WellFoundedInduction, FiniteSetTheorems

\* The ring laws, grouped so that a step cites the ones it needs.
LEMMA Closure ==
    /\ Zero \in Scalars /\ One \in Scalars
    /\ \A a \in Scalars : Minus(a) \in Scalars
    /\ \A a, b \in Scalars : Plus(a, b) \in Scalars
    /\ \A a, b \in Scalars : Times(a, b) \in Scalars
BY RingAssumption DEF IsCommutativeRing

LEMMA PlusLaws ==
    /\ \A a, b \in Scalars : Plus(a, b) = Plus(b, a)
    /\ \A a, b, c \in Scalars : Plus(Plus(a, b), c) = Plus(a, Plus(b, c))
BY RingAssumption DEF IsCommutativeRing

LEMMA PlusZero ==
    /\ \A a \in Scalars : Plus(a, Zero) = a /\ Plus(Zero, a) = a
    /\ \A a \in Scalars : Plus(a, Minus(a)) = Zero
BY RingAssumption DEF IsCommutativeRing

LEMMA TimesLaws ==
    /\ \A a, b \in Scalars : Times(a, b) = Times(b, a)
    /\ \A a, b, c \in Scalars : Times(Times(a, b), c) = Times(a, Times(b, c))
    /\ \A a \in Scalars : Times(a, One) = a
BY RingAssumption DEF IsCommutativeRing

LEMMA Distributes ==
    \A a, b, c \in Scalars : Times(Plus(a, b), c) = Plus(Times(a, c), Times(b, c))
BY RingAssumption DEF IsCommutativeRing

\* The difference of two elements is the identity only when they are equal.
LEMMA Cancel ==
    ASSUME NEW a \in Scalars, NEW b \in Scalars, NEW c \in Scalars,
           Plus(a, c) = Plus(b, c)
    PROVE  a = b
<1>1. Plus(Plus(a, c), Minus(c)) = Plus(Plus(b, c), Minus(c))
  OBVIOUS
<1>2. Plus(a, Plus(c, Minus(c))) = Plus(b, Plus(c, Minus(c)))
  BY <1>1, Closure, PlusLaws
<1> QED BY <1>2, PlusZero

LEMMA MinusPlus ==
    ASSUME NEW a \in Scalars, NEW b \in Scalars
    PROVE  Plus(Plus(a, Minus(b)), b) = a
<1>1. Minus(b) \in Scalars
  BY Closure
<1>2. Plus(Plus(a, Minus(b)), b) = Plus(a, Plus(Minus(b), b))
  BY <1>1, PlusLaws
<1>3. Plus(Minus(b), b) = Zero
  BY <1>1, PlusLaws, PlusZero
<1> QED BY <1>2, <1>3, PlusZero

LEMMA TimesZero == \A c \in Scalars : Times(Zero, c) = Zero /\ Times(c, Zero) = Zero
<1> SUFFICES ASSUME NEW c \in Scalars
             PROVE  Times(Zero, c) = Zero /\ Times(c, Zero) = Zero
  OBVIOUS
<1>1. Plus(Times(Zero, c), Times(Zero, c)) = Times(Zero, c)
  <2>1. Plus(Zero, Zero) = Zero
    BY Closure, PlusZero
  <2> QED BY <2>1, Closure, Distributes
<1>2. Plus(Zero, Times(Zero, c)) = Times(Zero, c)
  BY Closure, PlusZero
<1>3. Times(Zero, c) = Zero
  BY <1>1, <1>2, Closure, Cancel
<1> QED BY <1>3, Closure, TimesLaws

\* Products of non-identities are non-identities, and a non-zero exponent can
\* be cancelled.
LEMMA TimesNonZero ==
    ASSUME NEW a \in Scalars, NEW b \in Scalars, a # Zero, b # Zero
    PROVE  Times(a, b) # Zero
BY DomainAssumption DEF NoZeroDivisors

LEMMA TimesCancel ==
    ASSUME NEW a \in Scalars, NEW b \in Scalars, NEW c \in Scalars, c # Zero,
           Times(a, c) = Times(b, c)
    PROVE  a = b
<1> DEFINE m == Minus(b)
<1>1. m \in Scalars /\ Plus(a, m) \in Scalars /\ Plus(b, m) = Zero
  BY Closure, PlusZero
<1> HIDE DEF m
<1>2. Times(Plus(a, m), c) = Plus(Times(a, c), Times(m, c))
  BY <1>1, Distributes
<1>3. Times(Plus(b, m), c) = Plus(Times(b, c), Times(m, c))
  BY <1>1, Distributes
<1>4. Times(Plus(a, m), c) = Times(Zero, c)
  BY <1>1, <1>2, <1>3
<1>5. Plus(a, m) = Zero
  <2>1. Times(Plus(a, m), c) = Zero
    BY <1>4, TimesZero
  <2> QED BY <2>1, <1>1, TimesNonZero
<1> QED BY <1>1, <1>5, Cancel

\* The order of the naturals, as a relation WFMin can be applied to.
LEMMA LessThanRelation ==
    \E L : IsWellFoundedOn(L, Nat) /\ \A a, b \in Nat : <<a, b>> \in L <=> a < b
<1>1. \A a, b \in Nat : <<a, b>> \in OpToRel(<, Nat) <=> a < b
  BY DEF OpToRel
<1> QED BY <1>1, NatLessThanWellFounded

\* Every non-empty set of naturals has a least element.
LEMMA LeastNatural ==
    ASSUME NEW T \in SUBSET Nat, T # {}
    PROVE  \E k \in T : \A j \in T : ~ (j < k)
<1>1. PICK L : /\ IsWellFoundedOn(L, Nat)
               /\ \A a, b \in Nat : <<a, b>> \in L <=> a < b
  BY LessThanRelation
<1>2. \E k \in T : \A j \in T : ~ (<<j, k>> \in L)
  <2>1. T \subseteq Nat OBVIOUS
  <2>2. IsWellFoundedOn(L, Nat) BY <1>1
  <2> QED BY <2>1, <2>2, WFMin
<1> QED BY <1>1, <1>2

\* Induction over the naturals, with the predicate given by the set P of the
\* numbers that satisfy it.
LEMMA SetInduction ==
    ASSUME NEW P, 0 \in P, \A k \in Nat : k \in P => k + 1 \in P
    PROVE  Nat \subseteq P
<1>1. SUFFICES ASSUME Nat \ P # {} PROVE FALSE
  OBVIOUS
<1>2. PICK k \in Nat \ P : \A j \in Nat \ P : ~ (j < k)
  BY <1>1, LeastNatural
<1>3. k # 0 /\ k - 1 \in Nat
  OBVIOUS
<1>4. k - 1 \in P
  BY <1>2, <1>3
<1>5. (k - 1) + 1 = k
  OBVIOUS
<1> QED BY <1>3, <1>4, <1>5

\* What it means for g to list the partial sums of f up to n.
IsPartial(g, f, n) ==
    g = [k \in 0 .. n |-> IF k = 0 THEN Zero ELSE Plus(g[k - 1], f[k])]

\* The partial sums exist for every length, so the recursive definition of
\* Partial defines them.
LEMMA PartialExists ==
    ASSUME NEW n \in Nat, NEW f \in [1 .. n -> Scalars]
    PROVE  \E g : IsPartial(g, f, n) /\ g \in [0 .. n -> Scalars]
<1> DEFINE Good == {k \in Nat : k <= n =>
                      \E g : IsPartial(g, f, k) /\ g \in [0 .. k -> Scalars]}
<1>1. 0 \in Good
  <2> DEFINE g == [k \in 0 .. 0 |-> Zero]
  <2>1. IsPartial(g, f, 0)
    BY DEF IsPartial
  <2>2. g \in [0 .. 0 -> Scalars]
    BY Closure
  <2> QED BY <2>1, <2>2
<1>2. ASSUME NEW k \in Nat, k \in Good
      PROVE  k + 1 \in Good
  <2>1. SUFFICES ASSUME k + 1 <= n
                 PROVE  \E g : IsPartial(g, f, k + 1) /\ g \in [0 .. k + 1 -> Scalars]
    OBVIOUS
  <2>2. PICK h : IsPartial(h, f, k) /\ h \in [0 .. k -> Scalars]
    BY <1>2, <2>1
  <2> DEFINE g == [j \in 0 .. k + 1 |->
                     IF j = k + 1 THEN Plus(h[k], f[k + 1]) ELSE h[j]]
  <2>3. g \in [0 .. k + 1 -> Scalars]
    <3>1. Plus(h[k], f[k + 1]) \in Scalars
      BY <2>1, <2>2, Closure
    <3> QED BY <2>2, <3>1
  <2>4. IsPartial(g, f, k + 1)
    <3>1. \A j \in 0 .. k + 1 :
            g[j] = IF j = 0 THEN Zero ELSE Plus(g[j - 1], f[j])
      <4>1. \A j \in 0 .. k : h[j] = IF j = 0 THEN Zero ELSE Plus(h[j - 1], f[j])
        BY <2>2 DEF IsPartial
      <4> QED BY <4>1
    <3> QED BY <3>1 DEF IsPartial
  <2> QED BY <2>3, <2>4
<1>3. n \in Good
  <2> HIDE DEF Good
  <2> QED BY <1>1, <1>2, SetInduction
<1> QED BY <1>3

LEMMA PartialIs ==
    ASSUME NEW n \in Nat, NEW f \in [1 .. n -> Scalars]
    PROVE  IsPartial(Partial(f, n), f, n)
<1> DEFINE D(g) == g = [k \in 0 .. n |-> IF k = 0 THEN Zero ELSE Plus(g[k - 1], f[k])]
<1>1. PICK g : D(g)
  BY PartialExists DEF IsPartial
<1>2. Partial(f, n) = CHOOSE h : D(h)
  BY DEF Partial
<1> HIDE DEF D
<1>3. D(CHOOSE h : D(h))
  BY <1>1
<1> USE DEF D
<1> QED BY <1>2, <1>3 DEF IsPartial

LEMMA PartialRec ==
    ASSUME NEW n \in Nat, NEW f \in [1 .. n -> Scalars]
    PROVE  /\ Partial(f, n)[0] = Zero
           /\ \A k \in 1 .. n : Partial(f, n)[k] = Plus(Partial(f, n)[k - 1], f[k])
<1> DEFINE g == Partial(f, n)
<1> HIDE DEF g
<1>1. g = [k \in 0 .. n |-> IF k = 0 THEN Zero ELSE Plus(g[k - 1], f[k])]
  BY PartialIs DEF IsPartial, g
<1>2. g[0] = Zero /\ \A k \in 1 .. n : g[k] = Plus(g[k - 1], f[k])
  BY <1>1
<1> QED BY <1>2 DEF g

LEMMA PartialType ==
    ASSUME NEW n \in Nat, NEW f \in [1 .. n -> Scalars]
    PROVE  Partial(f, n) \in [0 .. n -> Scalars]
<1> DEFINE g == Partial(f, n)
           Good == {k \in Nat : k <= n => g[k] \in Scalars}
<1>1. g[0] = Zero /\ \A k \in 1 .. n : g[k] = Plus(g[k - 1], f[k])
  BY PartialRec
<1>2. \E body : g = [k \in 0 .. n |-> body[k]]
  <2> DEFINE body == [k \in 0 .. n |-> IF k = 0 THEN Zero ELSE Plus(g[k - 1], f[k])]
  <2> HIDE DEF g
  <2>1. g = body
    BY PartialIs DEF IsPartial, g
  <2>2. body = [k \in 0 .. n |-> body[k]]
    OBVIOUS
  <2> QED BY <2>1, <2>2
<1> HIDE DEF g
<1>3. 0 \in Good
  BY <1>1, Closure
<1>4. ASSUME NEW k \in Nat, k \in Good
      PROVE  k + 1 \in Good
  <2>1. SUFFICES ASSUME k + 1 <= n PROVE g[k + 1] \in Scalars
    OBVIOUS
  <2>2. g[k] \in Scalars /\ f[k + 1] \in Scalars
    BY <1>4, <2>1
  <2>3. g[k + 1] = Plus(g[k], f[k + 1])
    BY <1>1, <2>1
  <2> QED BY <2>2, <2>3, Closure
<1>5. Nat \subseteq Good
  <2> HIDE DEF Good
  <2> QED BY <1>3, <1>4, SetInduction
<1>6. \A k \in 0 .. n : g[k] \in Scalars
  BY <1>5
<1>7. g \in [0 .. n -> Scalars]
  BY <1>2, <1>6
<1> QED BY <1>7 DEF g

\* A sum of group elements is a group element.
LEMMA SumType ==
    ASSUME NEW n \in Nat, NEW f \in [1 .. n -> Scalars]
    PROVE  Sum(f, n) \in Scalars
BY PartialType DEF Sum

\* Raising every factor of a product to the same power raises the product:
\* a sum commutes with the multiplication by a constant.
LEMMA SumScale ==
    ASSUME NEW n \in Nat, NEW f \in [1 .. n -> Scalars], NEW c \in Scalars,
           NEW g \in [1 .. n -> Scalars],
           \A k \in 1 .. n : g[k] = Times(f[k], c)
    PROVE  Sum(g, n) = Times(Sum(f, n), c)
<1> DEFINE F == Partial(f, n)
           G == Partial(g, n)
           Good == {k \in Nat : k <= n => G[k] = Times(F[k], c)}
<1>1. F \in [0 .. n -> Scalars] /\ G \in [0 .. n -> Scalars]
  BY PartialType
<1>2. /\ F[0] = Zero /\ G[0] = Zero
      /\ \A k \in 1 .. n : F[k] = Plus(F[k - 1], f[k])
      /\ \A k \in 1 .. n : G[k] = Plus(G[k - 1], g[k])
  BY PartialRec
<1> HIDE DEF F, G
<1>3. Times(Zero, c) = Zero
  BY TimesZero
<1>4. 0 \in Good
  BY <1>2, <1>3
<1>5. ASSUME NEW k \in Nat, k \in Good
      PROVE  k + 1 \in Good
  <2>1. SUFFICES ASSUME k + 1 <= n PROVE G[k + 1] = Times(F[k + 1], c)
    OBVIOUS
  <2>2. G[k] = Times(F[k], c)
    BY <1>5, <2>1
  <2>3. /\ G[k + 1] = Plus(G[k], g[k + 1])
        /\ F[k + 1] = Plus(F[k], f[k + 1])
        /\ g[k + 1] = Times(f[k + 1], c)
    BY <1>2, <2>1
  <2>4. F[k] \in Scalars /\ f[k + 1] \in Scalars
    BY <1>1, <2>1
  <2> QED BY <2>2, <2>3, <2>4, Distributes
<1>6. Nat \subseteq Good
  <2> HIDE DEF Good
  <2> QED BY <1>4, <1>5, SetInduction
<1>7. G[n] = Times(F[n], c)
  BY <1>6
<1> QED BY <1>7 DEF F, G, Sum

\* A sum of n + m terms is the sum of the first n and of the last m.
LEMMA SumCut ==
    ASSUME NEW n \in Nat, NEW m \in Nat, NEW h \in [1 .. n + m -> Scalars],
           NEW f \in [1 .. n -> Scalars], NEW g \in [1 .. m -> Scalars],
           \A k \in 1 .. n : f[k] = h[k],
           \A k \in 1 .. m : g[k] = h[n + k]
    PROVE  Sum(h, n + m) = Plus(Sum(f, n), Sum(g, m))
<1> DEFINE F == Partial(f, n)
           G == Partial(g, m)
           H == Partial(h, n + m)
           Low == {k \in Nat : k <= n => H[k] = F[k]}
           High == {k \in Nat : k <= m => H[n + k] = Plus(F[n], G[k])}
<1>0. n + m \in Nat
  OBVIOUS
<1>1. /\ F \in [0 .. n -> Scalars]
      /\ G \in [0 .. m -> Scalars]
      /\ H \in [0 .. n + m -> Scalars]
  BY <1>0, PartialType
<1>2. /\ F[0] = Zero /\ G[0] = Zero /\ H[0] = Zero
      /\ \A k \in 1 .. n : F[k] = Plus(F[k - 1], f[k])
      /\ \A k \in 1 .. m : G[k] = Plus(G[k - 1], g[k])
      /\ \A k \in 1 .. n + m : H[k] = Plus(H[k - 1], h[k])
  BY <1>0, PartialRec
<1> HIDE DEF F, G, H
<1>3. Nat \subseteq Low
  <2>1. 0 \in Low
    BY <1>2
  <2>2. ASSUME NEW k \in Nat, k \in Low PROVE k + 1 \in Low
    BY <1>2, <2>2
  <2> HIDE DEF Low
  <2> QED BY <2>1, <2>2, SetInduction
<1>4. H[n] = F[n]
  BY <1>3
<1>5. 0 \in High
  BY <1>1, <1>2, <1>4, PlusZero
<1>6. ASSUME NEW k \in Nat, k \in High PROVE k + 1 \in High
  <2>1. SUFFICES ASSUME k + 1 <= m
                 PROVE  H[n + (k + 1)] = Plus(F[n], G[k + 1])
    OBVIOUS
  <2>2. H[n + k] = Plus(F[n], G[k])
    BY <1>6, <2>1
  <2>3. /\ (n + (k + 1)) - 1 = n + k
        /\ n + (k + 1) \in 1 .. n + m
        /\ k + 1 \in 1 .. m
    BY <2>1
  <2>4. H[n + (k + 1)] = Plus(H[n + k], h[n + (k + 1)])
    BY <1>2, <2>3
  <2>5. G[k + 1] = Plus(G[k], g[k + 1]) /\ g[k + 1] = h[n + (k + 1)]
    BY <1>2, <2>3
  <2>6. F[n] \in Scalars /\ G[k] \in Scalars /\ g[k + 1] \in Scalars
    BY <1>1, <2>3
  <2> QED BY <2>2, <2>4, <2>5, <2>6, PlusLaws
<1>7. Nat \subseteq High
  <2> HIDE DEF High
  <2> QED BY <1>5, <1>6, SetInduction
<1>8. H[n + m] = Plus(F[n], G[m])
  BY <1>7
<1> QED BY <1>8 DEF F, G, H, Sum

\* The sum of a single term.
LEMMA SumOne ==
    ASSUME NEW f \in [1 .. 1 -> Scalars]
    PROVE  Sum(f, 1) = f[1]
<1> DEFINE F == Partial(f, 1)
<1>1. F[0] = Zero /\ \A k \in 1 .. 1 : F[k] = Plus(F[k - 1], f[k])
  BY PartialRec
<1> HIDE DEF F
<1>2. F[1] = f[1]
  BY <1>1, PlusZero
<1> QED BY <1>2 DEF F, Sum

\* (a + b) + (c + d) regrouped.
LEMMA PlusSwap ==
    ASSUME NEW a \in Scalars, NEW b \in Scalars, NEW c \in Scalars, NEW d \in Scalars
    PROVE  Plus(Plus(a, b), Plus(c, d)) = Plus(Plus(a, c), Plus(b, d))
<1>1. Plus(b, Plus(c, d)) = Plus(c, Plus(b, d))
  <2>1. Plus(b, Plus(c, d)) = Plus(Plus(b, c), d)
    BY PlusLaws
  <2>2. Plus(c, Plus(b, d)) = Plus(Plus(c, b), d)
    BY PlusLaws
  <2>3. Plus(b, c) = Plus(c, b)
    BY PlusLaws
  <2> QED BY <2>1, <2>2, <2>3
<1>2. Plus(c, d) \in Scalars /\ Plus(b, d) \in Scalars
  BY Closure
<1>3. Plus(Plus(a, b), Plus(c, d)) = Plus(a, Plus(b, Plus(c, d)))
  BY <1>2, PlusLaws
<1>4. Plus(Plus(a, c), Plus(b, d)) = Plus(a, Plus(c, Plus(b, d)))
  BY <1>2, PlusLaws
<1> QED BY <1>1, <1>3, <1>4

\* Inverses: of a sum, of a product, and of an inverse.
LEMMA MinusUnique ==
    ASSUME NEW a \in Scalars, NEW b \in Scalars, Plus(a, b) = Zero
    PROVE  b = Minus(a)
<1>1. Minus(a) \in Scalars
  BY Closure
<1>2. Plus(b, a) = Plus(Minus(a), a)
  <2>1. Plus(b, a) = Zero
    BY PlusLaws
  <2>2. Plus(Minus(a), a) = Zero
    BY <1>1, PlusLaws, PlusZero
  <2> QED BY <2>1, <2>2
<1> QED BY <1>1, <1>2, Cancel

LEMMA MinusMinus == \A a \in Scalars : Minus(Minus(a)) = a
<1> SUFFICES ASSUME NEW a \in Scalars PROVE Minus(Minus(a)) = a
  OBVIOUS
<1>1. Minus(a) \in Scalars
  BY Closure
<1>2. Plus(Minus(a), a) = Zero
  BY <1>1, PlusLaws, PlusZero
<1> QED BY <1>1, <1>2, MinusUnique

LEMMA TimesMinus ==
    \A a, b \in Scalars : Times(a, Minus(b)) = Minus(Times(a, b))
<1> SUFFICES ASSUME NEW a \in Scalars, NEW b \in Scalars
             PROVE  Times(a, Minus(b)) = Minus(Times(a, b))
  OBVIOUS
<1>1. Minus(b) \in Scalars /\ Times(a, b) \in Scalars /\ Times(a, Minus(b)) \in Scalars
  BY Closure
<1>2. Times(Plus(b, Minus(b)), a) = Plus(Times(b, a), Times(Minus(b), a))
  BY <1>1, Distributes
<1>3. Times(Plus(b, Minus(b)), a) = Zero
  BY PlusZero, TimesZero
<1>4. Times(b, a) = Times(a, b) /\ Times(Minus(b), a) = Times(a, Minus(b))
  BY <1>1, TimesLaws
<1>5. Plus(Times(a, b), Times(a, Minus(b))) = Zero
  BY <1>2, <1>3, <1>4
<1> QED BY <1>1, <1>5, MinusUnique

\* Sums add termwise.
LEMMA SumPlus ==
    ASSUME NEW n \in Nat, NEW f \in [1 .. n -> Scalars],
           NEW g \in [1 .. n -> Scalars], NEW h \in [1 .. n -> Scalars],
           \A k \in 1 .. n : h[k] = Plus(f[k], g[k])
    PROVE  Sum(h, n) = Plus(Sum(f, n), Sum(g, n))
<1> DEFINE F == Partial(f, n)
           G == Partial(g, n)
           H == Partial(h, n)
           Good == {k \in Nat : k <= n => H[k] = Plus(F[k], G[k])}
<1>1. F \in [0 .. n -> Scalars] /\ G \in [0 .. n -> Scalars]
  BY PartialType
<1>2. /\ F[0] = Zero /\ G[0] = Zero /\ H[0] = Zero
      /\ \A k \in 1 .. n : F[k] = Plus(F[k - 1], f[k])
      /\ \A k \in 1 .. n : G[k] = Plus(G[k - 1], g[k])
      /\ \A k \in 1 .. n : H[k] = Plus(H[k - 1], h[k])
  BY PartialRec
<1> HIDE DEF F, G, H
<1>3. 0 \in Good
  BY <1>2, Closure, PlusZero
<1>4. ASSUME NEW k \in Nat, k \in Good
      PROVE  k + 1 \in Good
  <2>1. SUFFICES ASSUME k + 1 <= n PROVE H[k + 1] = Plus(F[k + 1], G[k + 1])
    OBVIOUS
  <2>2. H[k] = Plus(F[k], G[k])
    BY <1>4, <2>1
  <2>3. /\ H[k + 1] = Plus(H[k], h[k + 1])
        /\ F[k + 1] = Plus(F[k], f[k + 1])
        /\ G[k + 1] = Plus(G[k], g[k + 1])
        /\ h[k + 1] = Plus(f[k + 1], g[k + 1])
    BY <1>2, <2>1
  <2>4. /\ F[k] \in Scalars /\ G[k] \in Scalars
        /\ f[k + 1] \in Scalars /\ g[k + 1] \in Scalars
    BY <1>1, <2>1
  <2>5. Plus(Plus(F[k], G[k]), Plus(f[k + 1], g[k + 1]))
          = Plus(Plus(F[k], f[k + 1]), Plus(G[k], g[k + 1]))
    BY <2>4, PlusSwap
  <2> HIDE DEF Good
  <2> QED BY <2>2, <2>3, <2>5, Zenon
<1>5. Nat \subseteq Good
  <2> HIDE DEF Good
  <2> QED BY <1>3, <1>4, SetInduction
<1>6. H[n] = Plus(F[n], G[n])
  BY <1>5
<1> QED BY <1>6 DEF F, G, H, Sum

\* Negating every term negates the sum.
LEMMA SumMinus ==
    ASSUME NEW n \in Nat, NEW f \in [1 .. n -> Scalars],
           NEW g \in [1 .. n -> Scalars],
           \A k \in 1 .. n : g[k] = Minus(f[k])
    PROVE  Sum(g, n) = Minus(Sum(f, n))
<1>1. Minus(One) \in Scalars /\ Sum(f, n) \in Scalars
  BY Closure, SumType
<1>2. \A a \in Scalars : Times(a, Minus(One)) = Minus(a)
  <2>1. \A a \in Scalars : Times(a, Minus(One)) = Minus(Times(a, One))
    BY Closure, TimesMinus
  <2> QED BY <2>1, TimesLaws
<1>3. \A k \in 1 .. n : g[k] = Times(f[k], Minus(One))
  BY <1>2
<1>4. Sum(g, n) = Times(Sum(f, n), Minus(One))
  BY <1>1, <1>3, SumScale
<1> QED BY <1>1, <1>2, <1>4

--------------------------------------------------------------------------------
(***************************************************************************)
(* The field operators of EvaluationDomain.                                *)
(***************************************************************************)
LEMMA MinusType ==
    ASSUME NEW x \in Scalars, NEW y \in Scalars
    PROVE  x \ominus y \in Scalars /\ x \otimes y \in Scalars /\ x \oplus y \in Scalars
BY Closure DEF \ominus, \otimes, \oplus

LEMMA ZeroLaws ==
    ASSUME NEW x \in Scalars
    PROVE  /\ x \otimes Zero = Zero /\ Zero \otimes x = Zero
           /\ x \ominus Zero = x /\ x \ominus x = Zero
           /\ x \otimes One = x /\ One \otimes x = x
<1>1. Minus(Zero) = Zero
  BY Closure, PlusZero, PlusLaws
<1>2. Times(x, One) = x /\ Times(One, x) = x
  BY Closure, TimesLaws
<1>3. Plus(x, Zero) = x /\ Plus(x, Minus(x)) = Zero
  BY PlusZero
<1> QED BY <1>1, <1>2, <1>3, TimesZero DEF \otimes, \ominus

(***************************************************************************)
(* Differences.                                                            *)
(***************************************************************************)
LEMMA MinusPlusLaw ==
    ASSUME NEW a \in Scalars, NEW b \in Scalars
    PROVE  Minus(Plus(a, b)) = Plus(Minus(a), Minus(b))
<1> DEFINE x == Minus(a)
           y == Minus(b)
<1>1. x \in Scalars /\ y \in Scalars /\ Plus(a, x) = Zero /\ Plus(b, y) = Zero
  BY Closure, PlusZero
<1> HIDE DEF x, y
<1>2. Plus(Plus(a, b), Plus(x, y)) = Plus(Plus(a, x), Plus(b, y))
  BY <1>1, PlusSwap
<1>3. Plus(Plus(a, b), Plus(x, y)) = Zero
  BY <1>1, <1>2, Closure, PlusZero
<1>4. Plus(a, b) \in Scalars /\ Plus(x, y) \in Scalars
  BY <1>1, Closure
<1>5. Plus(x, y) = Minus(Plus(a, b))
  BY <1>3, <1>4, MinusUnique
<1> QED BY <1>5 DEF x, y

\* (a - b) - (c - d) regrouped.
LEMMA SubSwap ==
    ASSUME NEW a \in Scalars, NEW b \in Scalars, NEW c \in Scalars, NEW d \in Scalars
    PROVE  (a \ominus b) \ominus (c \ominus d) = (a \ominus c) \ominus (b \ominus d)
<1> DEFINE x == Minus(b)
           y == Minus(c)
           z == Minus(d)
           e == Minus(z)
<1>1. x \in Scalars /\ y \in Scalars /\ z \in Scalars /\ e \in Scalars
  BY Closure
<1>2. Minus(Plus(c, z)) = Plus(y, e) /\ Minus(Plus(b, z)) = Plus(x, e)
  <2> HIDE DEF z
  <2> QED BY <1>1, MinusPlusLaw
<1> HIDE DEF x, y, z, e
<1>3. Plus(Plus(a, x), Plus(y, e)) = Plus(Plus(a, y), Plus(x, e))
  BY <1>1, PlusSwap
<1> QED BY <1>2, <1>3 DEF \ominus, x, y, z

\* a product with a difference
LEMMA TimesSub ==
    ASSUME NEW a \in Scalars, NEW b \in Scalars, NEW c \in Scalars
    PROVE  /\ c \otimes (a \ominus b) = (c \otimes a) \ominus (c \otimes b)
           /\ (a \ominus b) \otimes c = (a \otimes c) \ominus (b \otimes c)
<1> DEFINE x == Minus(b)
<1>1. x \in Scalars
  BY Closure
<1>2. Times(c, x) = Minus(Times(c, b)) /\ Times(b, c) = Times(c, b)
  BY TimesMinus, TimesLaws
<1> HIDE DEF x
<1>3. Times(Plus(a, x), c) = Plus(Times(a, c), Times(x, c))
  BY <1>1, Distributes
<1>4. Times(x, c) = Times(c, x) /\ Times(a, c) = Times(c, a)
      /\ Times(Plus(a, x), c) = Times(c, Plus(a, x))
  BY <1>1, Closure, TimesLaws
<1>5. Times(Plus(a, x), c) = Plus(Times(a, c), Minus(Times(b, c)))
  BY <1>2, <1>3, <1>4
<1>6. Times(c, Plus(a, x)) = Plus(Times(c, a), Minus(Times(c, b)))
  BY <1>2, <1>3, <1>4
<1> QED BY <1>5, <1>6 DEF \ominus, \otimes, x

\* Equal when their difference vanishes.
LEMMA SubZero ==
    ASSUME NEW a \in Scalars, NEW b \in Scalars, a \ominus b = Zero
    PROVE  a = b
<1>1. Plus(a \ominus b, b) = a
  BY MinusPlus DEF \ominus
<1>2. Plus(Zero, b) = b
  BY PlusZero
<1> QED BY <1>1, <1>2

--------------------------------------------------------------------------------
(***************************************************************************)
(* Loops: functions on 0 .. n given by a first value and a step.           *)
(***************************************************************************)
IsCourse(g, n, T, first, step) ==
    /\ g \in [0 .. n -> T] /\ g[0] = first
    /\ \A k \in 1 .. n : g[k] = step[k][g[k - 1]]

\* A loop whose step stays in T has a course, so that its recursive definition defines it.
LEMMA LoopExists ==
    ASSUME NEW T, NEW n \in Nat, NEW first \in T, NEW step \in [1 .. n -> [T -> T]]
    PROVE  \E g : IsCourse(g, n, T, first, step)
<1> DEFINE Course(g, m) == /\ g \in [0 .. m -> T] /\ g[0] = first
                           /\ \A k \in 1 .. m : g[k] = step[k][g[k - 1]]
           Good == {m \in Nat : m <= n => \E g : Course(g, m)}
<1>1. 0 \in Good
  <2> DEFINE g == [k \in 0 .. 0 |-> first]
  <2>1. Course(g, 0)
    OBVIOUS
  <2> QED BY <2>1
<1>2. ASSUME NEW m \in Nat, m \in Good PROVE m + 1 \in Good
  <2> SUFFICES ASSUME m + 1 <= n PROVE \E g : Course(g, m + 1)
    OBVIOUS
  <2>1. PICK h : Course(h, m)
    BY <1>2
  <2> DEFINE g == [k \in 0 .. m + 1 |-> IF k = m + 1 THEN step[m + 1][h[m]] ELSE h[k]]
  <2>2. step[m + 1][h[m]] \in T
    <3>1. m + 1 \in 1 .. n /\ h[m] \in T
      BY <2>1
    <3> QED BY <3>1
  <2>3. g \in [0 .. m + 1 -> T] /\ g[0] = first
    BY <2>1, <2>2
  <2>4. \A k \in 1 .. m + 1 : g[k] = step[k][g[k - 1]]
    <3> TAKE k \in 1 .. m + 1
    <3>1. g[k - 1] = h[k - 1]
      OBVIOUS
    <3>2. CASE k = m + 1
      <4>1. g[k] = step[m + 1][h[m]] /\ k - 1 = m
        BY <3>2
      <4> HIDE DEF g
      <4> QED BY <3>1, <3>2, <4>1
    <3>3. CASE k # m + 1
      <4>1. k \in 1 .. m /\ g[k] = h[k]
        BY <3>3
      <4> HIDE DEF g
      <4> QED BY <2>1, <3>1, <4>1
    <3> QED BY <3>2, <3>3
  <2>5. Course(g, m + 1)
    BY <2>3, <2>4
  <2> QED BY <2>5
<1>3. n \in Good
  <2> HIDE DEF Good
  <2> QED BY <1>1, <1>2, SetInduction
<1> QED BY <1>3 DEF IsCourse

\* What a step preserves holds at every turn.
LEMMA LoopKeeps ==
    ASSUME NEW T, NEW n \in Nat, NEW g, g[0] \in T,
           \A k \in 1 .. n : g[k - 1] \in T => g[k] \in T
    PROVE  \A k \in 0 .. n : g[k] \in T
<1> DEFINE Good == {k \in Nat : k <= n => g[k] \in T}
<1>1. 0 \in Good
  OBVIOUS
<1>2. ASSUME NEW k \in Nat, k \in Good PROVE k + 1 \in Good
  <2> SUFFICES ASSUME k + 1 <= n PROVE g[k + 1] \in T
    OBVIOUS
  <2>1. k + 1 \in 1 .. n /\ (k + 1) - 1 = k /\ g[k] \in T
    BY <1>2
  <2> QED BY <2>1
<1>3. Nat \subseteq Good
  <2> HIDE DEF Good
  <2> QED BY <1>1, <1>2, SetInduction
<1> QED BY <1>3

--------------------------------------------------------------------------------
(***************************************************************************)
(* Total, the sum over a finite set in an order CHOOSE picks.              *)
(***************************************************************************)
Pick(s) == CHOOSE e \in s : TRUE
IsFold(it, v, sets) ==
    it = [s \in sets |-> IF s = {} THEN Zero ELSE Plus(v[Pick(s)], it[s \ {Pick(s)}])]

LEMMA PickMember ==
    ASSUME NEW s, s # {}
    PROVE  Pick(s) \in s
BY DEF Pick

\* Subsets of at most k elements lose one when one is picked.
LEMMA PickSmaller ==
    ASSUME NEW D, IsFiniteSet(D), NEW s \in SUBSET D, s # {}
    PROVE  /\ Cardinality(s) \in Nat /\ IsFiniteSet(s) /\ Cardinality(s) # 0
           /\ s \ {Pick(s)} \in SUBSET D
           /\ Cardinality(s \ {Pick(s)}) = Cardinality(s) - 1
<1>1. IsFiniteSet(s)
  BY FS_Subset
<1>2. Cardinality(s) \in Nat
  BY <1>1, FS_CardinalityType
<1>3. Cardinality(s) # 0
  BY <1>1, FS_EmptySet
<1>4. Pick(s) \in s
  BY PickMember
<1>5. Cardinality(s \ {Pick(s)}) = Cardinality(s) - 1
  BY <1>1, <1>4, FS_RemoveElement
<1> QED BY <1>1, <1>2, <1>3, <1>5

LEMMA FoldExists ==
    ASSUME NEW v, IsFiniteSet(DOMAIN v)
    PROVE  \E it : IsFold(it, v, SUBSET DOMAIN v)
<1> DEFINE D == DOMAIN v
           Small(k) == {s \in SUBSET D : Cardinality(s) <= k}
           Good == {k \in Nat : \E it : IsFold(it, v, Small(k))}
<1>1. 0 \in Good
  <2> DEFINE it == [s \in Small(0) |-> Zero]
  <2>1. \A s \in Small(0) : s = {}
    <3> TAKE s \in Small(0)
    <3>1. s # {} => Cardinality(s) \in Nat /\ Cardinality(s) # 0
      BY PickSmaller
    <3> QED BY <3>1
  <2>2. IsFold(it, v, Small(0))
    BY <2>1 DEF IsFold
  <2> QED BY <2>2
<1>2. ASSUME NEW k \in Nat, k \in Good PROVE k + 1 \in Good
  <2>1. PICK h : IsFold(h, v, Small(k))
    BY <1>2
  <2> DEFINE Value(s) == IF s = {} THEN Zero ELSE Plus(v[Pick(s)], h[s \ {Pick(s)}])
             it == [s \in Small(k + 1) |-> Value(s)]
  <2>2. \A s \in Small(k) : h[s] = Value(s)
    BY <2>1 DEF IsFold
  <2>3. \A s \in Small(k + 1) : s # {} => s \ {Pick(s)} \in Small(k)
    <3> TAKE s \in Small(k + 1)
    <3> HAVE s # {}
    <3>1. s \in SUBSET D /\ Cardinality(s) <= k + 1
      OBVIOUS
    <3>2. /\ Cardinality(s) \in Nat
          /\ s \ {Pick(s)} \in SUBSET D
          /\ Cardinality(s \ {Pick(s)}) = Cardinality(s) - 1
      BY <3>1, PickSmaller
    <3> QED BY <3>1, <3>2
  <2>4. \A s \in Small(k) : s \in Small(k + 1)
    <3> TAKE s \in Small(k)
    <3>1. IsFiniteSet(s)
      BY FS_Subset
    <3>2. Cardinality(s) \in Nat /\ Cardinality(s) <= k /\ s \in SUBSET D
      BY <3>1, FS_CardinalityType
    <3> QED BY <3>2
  <2> HIDE DEF Small, Value
  <2>5. \A s \in Small(k + 1) : s # {} => it[s \ {Pick(s)}] = h[s \ {Pick(s)}]
    BY <2>2, <2>3, <2>4
  <2>6. \A s \in Small(k + 1) :
           it[s] = IF s = {} THEN Zero ELSE Plus(v[Pick(s)], it[s \ {Pick(s)}])
    <3> HIDE DEF it
    <3>1. \A s \in Small(k + 1) : it[s] = Value(s)
      BY DEF it
    <3> QED BY <2>5, <3>1 DEF Value
  <2>7. IsFold(it, v, Small(k + 1))
    BY <2>6 DEF IsFold
  <2> QED BY <2>7
<1>3. Cardinality(D) \in Nat
  BY FS_CardinalityType
<1>4. Cardinality(D) \in Good
  <2> HIDE DEF Good
  <2> QED BY <1>1, <1>2, <1>3, SetInduction
<1>5. Small(Cardinality(D)) = SUBSET D
  <2>1. \A s \in SUBSET D : Cardinality(s) <= Cardinality(D)
    BY FS_Subset
  <2> QED BY <2>1
<1> QED BY <1>4, <1>5

\* Total is the value on the whole domain of a fold.
LEMMA TotalIs ==
    ASSUME NEW v, IsFiniteSet(DOMAIN v)
    PROVE  \E it : IsFold(it, v, SUBSET DOMAIN v) /\ Total(v) = it[DOMAIN v]
<1> DEFINE D(it) == it = [s \in SUBSET DOMAIN v |->
                            IF s = {} THEN Zero
                            ELSE Plus(v[CHOOSE e \in s : TRUE],
                                      it[s \ {CHOOSE e \in s : TRUE}])]
<1>1. PICK it : D(it)
  BY FoldExists DEF IsFold, Pick
<1>2. Total(v) = (CHOOSE g : D(g))[DOMAIN v]
  BY DEF Total, MapThenFoldSet
<1> HIDE DEF D
<1>3. D(CHOOSE g : D(g))
  BY <1>1
<1> USE DEF D
<1> QED BY <1>2, <1>3 DEF IsFold, Pick

\* A total of field elements is one.
LEMMA TotalType ==
    ASSUME NEW D, IsFiniteSet(D), NEW v \in [D -> Scalars]
    PROVE  Total(v) \in Scalars
<1>1. PICK it : IsFold(it, v, SUBSET D) /\ Total(v) = it[D]
  BY TotalIs
<1>2. it[{}] = Zero /\ \A s \in SUBSET D : s # {} => it[s] = Plus(v[Pick(s)], it[s \ {Pick(s)}])
  BY <1>1 DEF IsFold
<1> DEFINE Good == {k \in Nat : \A s \in SUBSET D : Cardinality(s) = k => it[s] \in Scalars}
<1>3. 0 \in Good
  <2>1. \A s \in SUBSET D : Cardinality(s) = 0 => s = {}
    BY PickSmaller
  <2> QED BY <1>2, <2>1, Closure
<1>4. ASSUME NEW k \in Nat, k \in Good PROVE k + 1 \in Good
  <2> SUFFICES ASSUME NEW s \in SUBSET D, Cardinality(s) = k + 1 PROVE it[s] \in Scalars
    OBVIOUS
  <2>1. s # {}
    <3>1. Cardinality({}) = 0
      BY FS_EmptySet
    <3> QED BY <3>1
  <2>2. /\ s \ {Pick(s)} \in SUBSET D
        /\ Cardinality(s \ {Pick(s)}) = k
    <3>1. Cardinality(s \ {Pick(s)}) = Cardinality(s) - 1
      BY <2>1, PickSmaller
    <3> QED BY <3>1
  <2>3. it[s \ {Pick(s)}] \in Scalars
    BY <1>4, <2>2
  <2>4. v[Pick(s)] \in Scalars
    BY <2>1, PickMember
  <2> QED BY <1>2, <2>1, <2>3, <2>4, Closure
<1>5. Cardinality(D) \in Nat
  BY FS_CardinalityType
<1>6. Cardinality(D) \in Good
  <2> HIDE DEF Good
  <2> QED BY <1>3, <1>4, <1>5, SetInduction
<1> QED BY <1>1, <1>6

--------------------------------------------------------------------------------
(***************************************************************************)
(* Values of polynomials are field elements.                               *)
(***************************************************************************)
\* The powers of t up to the k-th.
IsPowers(h, t, k) ==
    /\ h[0] = One /\ \A i \in 1 .. k : h[i] = Times(h[i - 1], t)
    /\ Power(t, k) = h[k]

LEMMA PowersExist ==
    ASSUME NEW t \in Scalars, NEW k \in Nat
    PROVE  \E h : IsPowers(h, t, k)
<1> DEFINE D(p) == p = [i \in 0 .. k |-> IF i = 0 THEN One ELSE p[i - 1] \otimes t]
           step == [i \in 1 .. k |-> [x \in Scalars |-> x \otimes t]]
<1>1. Power(t, k) = (CHOOSE p : D(p))[k]
  BY DEF Power
<1>2. step \in [1 .. k -> [Scalars -> Scalars]]
  BY Closure DEF \otimes
<1>3. \A i \in 1 .. k, x \in Scalars : step[i][x] = x \otimes t
  OBVIOUS
<1> HIDE DEF step
<1>4. One \in Scalars
  BY Closure
<1>5. PICK g : IsCourse(g, k, Scalars, One, step)
  BY <1>2, <1>4, LoopExists
<1>6. /\ g \in [0 .. k -> Scalars] /\ g[0] = One
      /\ \A i \in 1 .. k : g[i] = step[i][g[i - 1]]
  BY <1>5 DEF IsCourse
<1>7. D(g)
  <2>1. \A i \in 0 .. k : g[i] = IF i = 0 THEN One ELSE g[i - 1] \otimes t
    <3> TAKE i \in 0 .. k
    <3>1. i # 0 => i \in 1 .. k /\ g[i - 1] \in Scalars
      BY <1>6
    <3> QED BY <1>3, <1>6, <3>1
  <2>2. g = [i \in 0 .. k |-> g[i]]
    BY <1>6
  <2> QED BY <2>1, <2>2
<1> HIDE DEF D
<1>8. D(CHOOSE p : D(p))
  BY <1>7
<1> DEFINE h == CHOOSE p : D(p)
<1>9. h[0] = One /\ \A i \in 1 .. k : h[i] = h[i - 1] \otimes t
  <2>1. D(h)
    BY <1>8
  <2> HIDE DEF h
  <2> USE DEF D
  <2>2. \A i \in 0 .. k : h[i] = IF i = 0 THEN One ELSE h[i - 1] \otimes t
    BY <2>1
  <2> HIDE DEF D
  <2> QED BY <2>2
<1>10. IsPowers(h, t, k)
  BY <1>1, <1>9 DEF IsPowers, \otimes
<1> QED BY <1>10

LEMMA PowerType ==
    ASSUME NEW t \in Scalars, NEW k \in Nat
    PROVE  Power(t, k) \in Scalars
<1>1. PICK h : IsPowers(h, t, k)
  BY PowersExist
<1>2. h[0] \in Scalars
  BY <1>1, Closure DEF IsPowers
<1>3. \A i \in 1 .. k : h[i - 1] \in Scalars => h[i] \in Scalars
  BY <1>1, Closure DEF IsPowers
<1>4. \A i \in 0 .. k : h[i] \in Scalars
  BY <1>2, <1>3, LoopKeeps
<1> QED BY <1>1, <1>4 DEF IsPowers

LEMMA OfNatType ==
    ASSUME NEW n \in DomainSizes
    PROVE  OfNat(n) \in Scalars /\ OfNat(n) # Zero
<1> DEFINE f == [k \in 0 .. 2 * n |-> OfNat(k)]
           g == [k \in 0 .. n |-> <<OfNat(k), OfNat(n + k)>>]
<1>1. /\ n \in Nat \ {0} /\ OfNat(0) = Zero /\ OfNat(2 * n) # Zero
      /\ \A k \in 1 .. 2 * n : OfNat(k) = OfNat(k - 1) \oplus One
  BY RootsAssumption
<1>2. \A k \in 0 .. 2 * n : OfNat(k) \in Scalars
  <2>1. f[0] \in Scalars
    BY <1>1, Closure
  <2>2. \A k \in 1 .. 2 * n : f[k - 1] \in Scalars => f[k] \in Scalars
    BY <1>1, Closure DEF \oplus
  <2>3. 2 * n \in Nat
    BY <1>1
  <2> HIDE DEF f
  <2>4. \A k \in 0 .. 2 * n : f[k] \in Scalars
    BY <2>1, <2>2, <2>3, LoopKeeps
  <2> QED BY <2>4 DEF f
<1>3. ASSUME OfNat(n) = Zero PROVE FALSE
  <2> DEFINE T == {x \in Scalars \X Scalars : x[1] = x[2]}
  <2>1. g[0] \in T
    <3>1. g[0] = <<Zero, Zero>>
      BY <1>1, <1>3
    <3> HIDE DEF g
    <3> QED BY <3>1, Closure
  <2>2. ASSUME NEW k \in 1 .. n, g[k - 1] \in T PROVE g[k] \in T
    <3>1. k \in 1 .. 2 * n /\ n + k \in 1 .. 2 * n /\ (n + k) - 1 = n + (k - 1)
      BY <1>1
    <3>2. OfNat(k - 1) = OfNat(n + (k - 1))
      BY <1>1, <2>2
    <3>3. OfNat(k) = OfNat(n + k)
      BY <1>1, <3>1, <3>2
    <3>4. OfNat(k) \in Scalars /\ OfNat(n + k) \in Scalars
      BY <1>1, <1>2, <3>1
    <3> QED BY <3>3, <3>4
  <2> HIDE DEF g, T
  <2>3. \A k \in 0 .. n : g[k] \in T
    BY <1>1, <2>1, <2>2, LoopKeeps
  <2>4. n \in 0 .. n /\ n + n = 2 * n
    BY <1>1
  <2>5. g[n] \in T /\ g[n] = <<OfNat(n), OfNat(n + n)>>
    BY <2>3, <2>4 DEF g
  <2> QED BY <1>1, <1>3, <2>4, <2>5 DEF T
<1> QED BY <1>1, <1>2, <1>3

LEMMA ElementType ==
    ASSUME NEW n \in DomainSizes, NEW k \in 0 .. n * n
    PROVE  Element(n, k) \in Scalars
<1>1. n \in Nat /\ Element(n, 1) \in Scalars /\ Element(n, k) = Power(Element(n, 1), k)
  BY RootsAssumption
<1> QED BY <1>1, PowerType

LEMMA ReciprocalType ==
    ASSUME NEW x \in Scalars, x # Zero
    PROVE  Reciprocal(x) \in Scalars /\ x \otimes Reciprocal(x) = One
BY FieldAssumption DEF NonZero

LEMMA LagrangeType ==
    ASSUME NEW n \in DomainSizes, NEW k \in Domain(n), NEW t \in Scalars, t # Element(n, k)
    PROVE  Lagrange(n, k, t) \in Scalars
<1> DEFINE e == Element(n, k)
           d == t \ominus e
<1>1. n \in Nat \ {0} /\ k \in 0 .. n * n
  <2>1. n \in Nat /\ n # 0 /\ k \in Nat /\ k < n
    BY RootsAssumption DEF Domain
  <2>2. n <= n * n
    BY <2>1
  <2> QED BY <2>1, <2>2
<1>2. e \in Scalars
  BY <1>1, ElementType
<1> HIDE DEF e
<1>3. d \in Scalars /\ d # Zero
  <2>1. Plus(d, e) = t
    BY <1>2, MinusPlus DEF \ominus
  <2>2. Plus(Zero, e) = e
    BY <1>2, PlusZero
  <2> QED BY <1>2, <2>1, <2>2, MinusType DEF e
<1> HIDE DEF d
<1>4. OfNat(n) \otimes d \in Scalars /\ OfNat(n) \otimes d # Zero
  BY <1>3, OfNatType, MinusType, TimesNonZero DEF \otimes
<1>5. Reciprocal(OfNat(n) \otimes d) \in Scalars
  BY <1>4, ReciprocalType
<1>6. Vanishing(n, t) \in Scalars
  BY <1>1, PowerType, MinusType, Closure DEF Vanishing
<1> QED BY <1>2, <1>5, <1>6, MinusType DEF Lagrange, d, e

LEMMA CoefficientType ==
    ASSUME NEW n \in DomainSizes, NEW v \in [Domain(n) -> Scalars], NEW i \in Domain(n)
    PROVE  Coefficient(n, v, i) \in Scalars
<1>1. n \in Nat \ {0} /\ i \in 0 .. n - 1
  BY RootsAssumption DEF Domain
<1>2. \A k \in Domain(n) : (n - i) * k \in 0 .. n * n
  <2> TAKE k \in Domain(n)
  <2>1. k \in Nat /\ k <= n /\ n - i \in Nat /\ n - i <= n
    BY <1>1 DEF Domain
  <2> DEFINE j == n - i
  <2> HIDE DEF j
  <2>2. j \in Nat /\ j <= n
    BY <2>1 DEF j
  <2>3. j * k \in Nat /\ j * k <= n * k /\ n * k <= n * n
    BY <1>1, <2>1, <2>2
  <2>4. j * k \in 0 .. n * n
    BY <1>1, <2>1, <2>3
  <2> QED BY <2>4 DEF j
<1> DEFINE f == [k \in Domain(n) |-> v[k] \otimes Element(n, (n - i) * k)]
<1>3. f \in [Domain(n) -> Scalars]
  BY <1>2, ElementType, MinusType
<1>4. IsFiniteSet(Domain(n))
  BY <1>1, FS_Interval DEF Domain
<1> HIDE DEF f
<1>5. Total(f) \in Scalars
  BY <1>3, <1>4, TotalType
<1>6. Reciprocal(OfNat(n)) \in Scalars
  BY OfNatType, ReciprocalType
<1> QED BY <1>5, <1>6, MinusType DEF Coefficient, f

LEMMA UnitReciprocal == Reciprocal(One) = One
<1>1. One \in Scalars /\ One # Zero
  BY Closure, FieldAssumption
<1>2. Reciprocal(One) \in Scalars /\ One \otimes Reciprocal(One) = One
  BY <1>1, ReciprocalType
<1> QED BY <1>2, ZeroLaws

--------------------------------------------------------------------------------
(***************************************************************************)
(* Total adds the elements of its domain in any order.                     *)
(***************************************************************************)
IsAdditive(it, v, sets) ==
    \A s \in sets : it[s] \in Scalars /\ \A e \in s : it[s] = Plus(v[e], it[s \ {e}])
Agree(v, w, s) == \A k \in s : v[k] = w[k]
Same(it, jt, s) == it[s] = jt[s]

\* The fold over a set does not depend on which element is taken first.
LEMMA FoldStep ==
    ASSUME NEW D, IsFiniteSet(D), NEW v \in [D -> Scalars],
           NEW it, IsFold(it, v, SUBSET D)
    PROVE  IsAdditive(it, v, SUBSET D)
<1>1. it[{}] = Zero /\ \A s \in SUBSET D : s # {} => it[s] = Plus(v[Pick(s)], it[s \ {Pick(s)}])
  BY DEF IsFold
<1> DEFINE Right(s) == it[s] \in Scalars /\ \A e \in s : it[s] = Plus(v[e], it[s \ {e}])
           Good == {k \in Nat : \A s \in SUBSET D : Cardinality(s) <= k => Right(s)}
<1>2. 0 \in Good
  <2>1. \A s \in SUBSET D : Cardinality(s) <= 0 => s = {}
    <3> TAKE s \in SUBSET D
    <3>1. s # {} => Cardinality(s) \in Nat /\ Cardinality(s) # 0
      BY PickSmaller
    <3> QED BY <3>1
  <2>2. Right({})
    BY <1>1, Closure
  <2> QED BY <2>1, <2>2
<1>3. ASSUME NEW k \in Nat, k \in Good PROVE k + 1 \in Good
  <2> SUFFICES ASSUME NEW s \in SUBSET D, Cardinality(s) = k + 1 PROVE Right(s)
    <3>1. \A s \in SUBSET D : Cardinality(s) \in Nat
      BY FS_Subset, FS_CardinalityType
    <3> QED BY <1>3, <3>1
  <2>0. \A t \in SUBSET D : Cardinality(t) <= k => Right(t)
    BY <1>3
  <2> DEFINE p == Pick(s)
  <2>1. s # {} /\ IsFiniteSet(s)
    <3>1. Cardinality({}) = 0
      BY FS_EmptySet
    <3> QED BY <3>1, FS_Subset
  <2>2. p \in s
    BY <2>1, PickMember
  <2> HIDE DEF p
  <2>3. \A e \in s : Cardinality(s \ {e}) = k /\ s \ {e} \in SUBSET D
    <3> TAKE e \in s
    <3>1. Cardinality(s \ {e}) = Cardinality(s) - 1
      BY <2>1, FS_RemoveElement
    <3> QED BY <3>1
  <2>4. \A e \in s : Right(s \ {e})
    BY <1>3, <2>3
  <2>5. it[s] = Plus(v[p], it[s \ {p}])
    BY <1>1, <2>1 DEF p
  <2>6. it[s] \in Scalars
    <3>1. v[p] \in Scalars /\ it[s \ {p}] \in Scalars
      BY <2>2, <2>4
    <3> QED BY <2>5, <3>1, Closure
  <2>7. ASSUME NEW e \in s, e # p PROVE it[s] = Plus(v[e], it[s \ {e}])
    <3> DEFINE x == it[(s \ {p}) \ {e}]
    <3>1. it[s \ {p}] = Plus(v[e], x)
      BY <2>2, <2>4, <2>7
    <3>2. (s \ {e}) \ {p} = (s \ {p}) \ {e}
      OBVIOUS
    <3>3. it[s \ {e}] = Plus(v[p], x)
      BY <2>2, <2>4, <2>7, <3>2
    <3>4. x \in Scalars
      <4>1. s \ {p} \in SUBSET D /\ (s \ {p}) \ {e} \in SUBSET D /\ e \in s \ {p}
        BY <2>7
      <4>2. IsFiniteSet(s \ {p}) /\ Cardinality(s \ {p}) = k
        BY <2>1, <2>2, <2>3, FS_Subset
      <4>3. Cardinality((s \ {p}) \ {e}) = k - 1
        BY <4>1, <4>2, FS_RemoveElement
      <4>4. Right((s \ {p}) \ {e})
        <5> HIDE DEF Right
        <5>1. k - 1 <= k
          OBVIOUS
        <5> QED BY <2>0, <4>1, <4>3, <5>1
      <4> QED BY <4>4
    <3>5. v[e] \in Scalars /\ v[p] \in Scalars
      BY <2>2
    <3> HIDE DEF x
    <3>6. Plus(v[p], Plus(v[e], x)) = Plus(v[e], Plus(v[p], x))
      <4>1. Plus(Plus(v[p], v[e]), x) = Plus(v[p], Plus(v[e], x))
        BY <3>4, <3>5, PlusLaws
      <4>2. Plus(Plus(v[e], v[p]), x) = Plus(v[e], Plus(v[p], x))
        BY <3>4, <3>5, PlusLaws
      <4>3. Plus(v[p], v[e]) = Plus(v[e], v[p])
        BY <3>5, PlusLaws
      <4> QED BY <4>1, <4>2, <4>3
    <3> QED BY <2>5, <3>1, <3>3, <3>6
  <2> QED BY <2>5, <2>6, <2>7
<1>4. Nat \subseteq Good
  <2> HIDE DEF Good
  <2> QED BY <1>2, <1>3, SetInduction
<1>5. \A s \in SUBSET D : Cardinality(s) \in Nat
  BY FS_Subset, FS_CardinalityType
<1> QED BY <1>4, <1>5 DEF IsAdditive

\* Folds of functions that agree on a set agree on it.
LEMMA FoldAgree ==
    ASSUME NEW D, IsFiniteSet(D), NEW E \in SUBSET D, NEW v, NEW w,
           Agree(v, w, E),
           NEW it, IsFold(it, v, SUBSET D), NEW jt, IsFold(jt, w, SUBSET E)
    PROVE  Same(it, jt, E)
<1>1. /\ it[{}] = Zero /\ jt[{}] = Zero
      /\ \A s \in SUBSET E : s # {} => /\ it[s] = Plus(v[Pick(s)], it[s \ {Pick(s)}])
                                       /\ jt[s] = Plus(w[Pick(s)], jt[s \ {Pick(s)}])
  BY DEF IsFold
<1> DEFINE Good == {k \in Nat : \A s \in SUBSET E : Cardinality(s) = k => it[s] = jt[s]}
<1>2. IsFiniteSet(E)
  BY FS_Subset
<1>3. 0 \in Good
  <2>1. \A s \in SUBSET E : Cardinality(s) = 0 => s = {}
    BY <1>2, PickSmaller
  <2> QED BY <1>1, <2>1
<1>4. ASSUME NEW k \in Nat, k \in Good PROVE k + 1 \in Good
  <2> SUFFICES ASSUME NEW s \in SUBSET E, Cardinality(s) = k + 1 PROVE it[s] = jt[s]
    OBVIOUS
  <2>1. s # {}
    <3>1. Cardinality({}) = 0
      BY FS_EmptySet
    <3>2. Cardinality(s) # 0
      OBVIOUS
    <3> HIDE DEF Good
    <3> QED BY <3>1, <3>2
  <2>2. s \ {Pick(s)} \in SUBSET E /\ Cardinality(s \ {Pick(s)}) = k
    <3>1. Cardinality(s \ {Pick(s)}) = Cardinality(s) - 1
      BY <1>2, <2>1, PickSmaller
    <3> QED BY <3>1
  <2>3. Pick(s) \in E
    BY <2>1, PickMember
  <2> QED BY <1>1, <1>4, <2>1, <2>2, <2>3 DEF Agree
<1>5. Nat \subseteq Good
  <2> HIDE DEF Good
  <2> QED BY <1>3, <1>4, SetInduction
<1>6. Cardinality(E) \in Nat
  BY <1>2, FS_CardinalityType
<1> QED BY <1>5, <1>6 DEF Same

\* The part of a total that a set contributes.
Part(v, s) == Total([k \in s |-> v[k]])

LEMMA PartIs ==
    ASSUME NEW D, IsFiniteSet(D), NEW v \in [D -> Scalars], NEW it, IsFold(it, v, SUBSET D)
    PROVE  \A s \in SUBSET D : Part(v, s) = it[s]
<1> TAKE s \in SUBSET D
<1> DEFINE w == [k \in s |-> v[k]]
<1>1. DOMAIN w = s /\ IsFiniteSet(s) /\ Agree(v, w, s)
  BY FS_Subset DEF Agree
<1> HIDE DEF w
<1>2. PICK jt : IsFold(jt, w, SUBSET s) /\ Total(w) = jt[s]
  BY <1>1, TotalIs
<1>3. it[s] = jt[s]
  <2>1. IsFold(jt, w, SUBSET s) /\ Agree(v, w, s) /\ s \in SUBSET D
    BY <1>1, <1>2
  <2>2. Same(it, jt, s)
    BY <2>1, FoldAgree, Zenon
  <2> QED BY <2>2 DEF Same
<1> QED BY <1>2, <1>3 DEF Part, w

LEMMA PartLaws ==
    ASSUME NEW D, IsFiniteSet(D), NEW v \in [D -> Scalars]
    PROVE  /\ Part(v, {}) = Zero
           /\ Part(v, D) = Total(v)
           /\ \A s \in SUBSET D : Part(v, s) \in Scalars
           /\ \A s \in SUBSET D : \A e \in D \ s : Part(v, s \cup {e}) = Plus(Part(v, s), v[e])
<1>1. PICK it : IsFold(it, v, SUBSET D) /\ Total(v) = it[D]
  BY TotalIs
<1>2. \A s \in SUBSET D : Part(v, s) = it[s]
  BY <1>1, PartIs
<1>3. \A s \in SUBSET D :
         it[s] \in Scalars /\ \A e \in s : it[s] = Plus(v[e], it[s \ {e}])
  <2>1. IsAdditive(it, v, SUBSET D)
    BY <1>1, FoldStep, Zenon
  <2> QED BY <2>1 DEF IsAdditive
<1>4. it[{}] = Zero
  BY <1>1 DEF IsFold
<1>5. ASSUME NEW s \in SUBSET D, NEW e \in D \ s
      PROVE  Part(v, s \cup {e}) = Plus(Part(v, s), v[e])
  <2>1. s \cup {e} \in SUBSET D /\ (s \cup {e}) \ {e} = s /\ e \in s \cup {e}
    OBVIOUS
  <2>2. it[s \cup {e}] = Plus(v[e], it[s])
    BY <1>3, <2>1
  <2>3. v[e] \in Scalars /\ it[s] \in Scalars
    BY <1>3
  <2>4. Plus(v[e], it[s]) = Plus(it[s], v[e])
    BY <2>3, PlusLaws
  <2> QED BY <1>2, <2>1, <2>2, <2>4
<1> QED BY <1>1, <1>2, <1>3, <1>4, <1>5

--------------------------------------------------------------------------------
(***************************************************************************)
(* Totals over a domain.                                                   *)
(***************************************************************************)
\* The first k values of v, added up.
First(v, k) == Part(v, 0 .. k - 1)

LEMMA DomainFinite ==
    ASSUME NEW n \in Nat
    PROVE  IsFiniteSet(Domain(n))
BY FS_Interval DEF Domain

LEMMA FirstLaws ==
    ASSUME NEW n \in Nat, NEW v \in [Domain(n) -> Scalars]
    PROVE  /\ First(v, 0) = Zero /\ First(v, n) = Total(v) /\ Total(v) \in Scalars
           /\ \A k \in 0 .. n : First(v, k) \in Scalars
           /\ \A k \in Domain(n) : First(v, k + 1) = Plus(First(v, k), v[k])
<1>1. IsFiniteSet(Domain(n))
  BY DomainFinite
<1>2. /\ Part(v, {}) = Zero
      /\ Part(v, Domain(n)) = Total(v)
      /\ \A s \in SUBSET Domain(n) : Part(v, s) \in Scalars
      /\ \A s \in SUBSET Domain(n) : \A e \in Domain(n) \ s :
            Part(v, s \cup {e}) = Plus(Part(v, s), v[e])
  BY <1>1, PartLaws, Zenon
<1>3. 0 .. 0 - 1 = {}
  OBVIOUS
<1>4. \A k \in 0 .. n : 0 .. k - 1 \in SUBSET Domain(n)
  BY DEF Domain
<1>5. ASSUME NEW k \in Domain(n) PROVE First(v, k + 1) = Plus(First(v, k), v[k])
  <2>1. /\ 0 .. k - 1 \in SUBSET Domain(n) /\ k \in Domain(n) \ (0 .. k - 1)
        /\ (0 .. k - 1) \cup {k} = 0 .. (k + 1) - 1
    BY DEF Domain
  <2> QED BY <1>2, <2>1 DEF First
<1> QED BY <1>2, <1>3, <1>4, <1>5 DEF First, Domain

\* Functions of n that start alike and grow alike agree.
LEMMA SameGrowth ==
    ASSUME NEW n \in Nat, NEW f, NEW g, f[0] = g[0],
           \A k \in Domain(n) : f[k] = g[k] => f[k + 1] = g[k + 1]
    PROVE  f[n] = g[n]
<1> DEFINE Good == {k \in Nat : k <= n => f[k] = g[k]}
<1>1. 0 \in Good
  OBVIOUS
<1>2. ASSUME NEW k \in Nat, k \in Good PROVE k + 1 \in Good
  <2> SUFFICES ASSUME k + 1 <= n PROVE f[k + 1] = g[k + 1]
    OBVIOUS
  <2>1. k \in Domain(n) /\ f[k] = g[k]
    BY <1>2 DEF Domain
  <2> QED BY <2>1
<1>3. Nat \subseteq Good
  <2> HIDE DEF Good
  <2> QED BY <1>1, <1>2, SetInduction
<1> QED BY <1>3

LEMMA TotalScale ==
    ASSUME NEW n \in Nat, NEW v \in [Domain(n) -> Scalars], NEW w \in [Domain(n) -> Scalars],
           NEW c \in Scalars, \A k \in Domain(n) : w[k] = Times(v[k], c)
    PROVE  Total(w) = Times(Total(v), c)
<1> DEFINE f == [k \in 0 .. n |-> First(w, k)]
           g == [k \in 0 .. n |-> Times(First(v, k), c)]
<1>1. /\ First(v, 0) = Zero /\ First(v, n) = Total(v)
      /\ \A k \in 0 .. n : First(v, k) \in Scalars
      /\ \A k \in Domain(n) : First(v, k + 1) = Plus(First(v, k), v[k])
  BY FirstLaws
<1>2. /\ First(w, 0) = Zero /\ First(w, n) = Total(w)
      /\ \A k \in Domain(n) : First(w, k + 1) = Plus(First(w, k), w[k])
  BY FirstLaws
<1>3. f[0] = g[0]
  BY <1>1, <1>2, TimesZero
<1>4. ASSUME NEW k \in Domain(n), f[k] = g[k] PROVE f[k + 1] = g[k + 1]
  <2>1. k \in 0 .. n /\ k + 1 \in 0 .. n
    BY DEF Domain
  <2>2. First(w, k) = Times(First(v, k), c)
    BY <1>4, <2>1
  <2>3. First(w, k + 1) = Plus(Times(First(v, k), c), Times(v[k], c))
    BY <1>2, <2>2
  <2>4. First(v, k) \in Scalars /\ v[k] \in Scalars
    BY <1>1, <2>1
  <2>5. First(w, k + 1) = Times(First(v, k + 1), c)
    BY <1>1, <2>3, <2>4, Distributes
  <2> QED BY <2>1, <2>5
<1> HIDE DEF f, g
<1>5. f[n] = g[n]
  BY <1>3, <1>4, SameGrowth
<1> QED BY <1>1, <1>2, <1>5 DEF f, g

LEMMA TotalPlus ==
    ASSUME NEW n \in Nat, NEW v \in [Domain(n) -> Scalars], NEW w \in [Domain(n) -> Scalars],
           NEW u \in [Domain(n) -> Scalars], \A k \in Domain(n) : u[k] = Plus(v[k], w[k])
    PROVE  Total(u) = Plus(Total(v), Total(w))
<1> DEFINE f == [k \in 0 .. n |-> First(u, k)]
           g == [k \in 0 .. n |-> Plus(First(v, k), First(w, k))]
<1>1. /\ First(v, 0) = Zero /\ First(v, n) = Total(v)
      /\ \A k \in 0 .. n : First(v, k) \in Scalars
      /\ \A k \in Domain(n) : First(v, k + 1) = Plus(First(v, k), v[k])
  BY FirstLaws
<1>2. /\ First(w, 0) = Zero /\ First(w, n) = Total(w)
      /\ \A k \in 0 .. n : First(w, k) \in Scalars
      /\ \A k \in Domain(n) : First(w, k + 1) = Plus(First(w, k), w[k])
  BY FirstLaws
<1>3. /\ First(u, 0) = Zero /\ First(u, n) = Total(u)
      /\ \A k \in Domain(n) : First(u, k + 1) = Plus(First(u, k), u[k])
  BY FirstLaws
<1>4. f[0] = g[0]
  <2>1. Plus(Zero, Zero) = Zero
    BY PlusZero, Closure
  <2> QED BY <1>1, <1>2, <1>3, <2>1
<1>5. ASSUME NEW k \in Domain(n), f[k] = g[k] PROVE f[k + 1] = g[k + 1]
  <2>1. k \in 0 .. n /\ k + 1 \in 0 .. n
    BY DEF Domain
  <2>2. First(u, k) = Plus(First(v, k), First(w, k))
    BY <1>5, <2>1
  <2>3. First(u, k + 1) = Plus(Plus(First(v, k), First(w, k)), Plus(v[k], w[k]))
    BY <1>3, <2>2
  <2>4. First(v, k) \in Scalars /\ v[k] \in Scalars /\ First(w, k) \in Scalars /\ w[k] \in Scalars
    BY <1>1, <1>2, <2>1
  <2>5. First(u, k + 1) = Plus(First(v, k + 1), First(w, k + 1))
    BY <1>1, <1>2, <2>3, <2>4, PlusSwap
  <2> QED BY <2>1, <2>5
<1> HIDE DEF f, g
<1>6. f[n] = g[n]
  BY <1>4, <1>5, SameGrowth
<1> QED BY <1>1, <1>2, <1>3, <1>6 DEF f, g

\* Differences of neighbours add up to the difference of the ends.
LEMMA TotalTelescopes ==
    ASSUME NEW n \in Nat, NEW v \in [Domain(n) -> Scalars], NEW g \in [0 .. n -> Scalars],
           \A k \in Domain(n) : Plus(g[k], v[k]) = g[k + 1]
    PROVE  Plus(g[0], Total(v)) = g[n]
<1> DEFINE f == [k \in 0 .. n |-> Plus(g[0], First(v, k))]
<1>1. /\ First(v, 0) = Zero /\ First(v, n) = Total(v)
      /\ \A k \in 0 .. n : First(v, k) \in Scalars
      /\ \A k \in Domain(n) : First(v, k + 1) = Plus(First(v, k), v[k])
  BY FirstLaws
<1>2. f[0] = g[0]
  BY <1>1, PlusZero
<1>3. ASSUME NEW k \in Domain(n), f[k] = g[k] PROVE f[k + 1] = g[k + 1]
  <2>1. k \in 0 .. n /\ k + 1 \in 0 .. n /\ 0 \in 0 .. n
    BY DEF Domain
  <2>2. g[k] = Plus(g[0], First(v, k))
    BY <1>3, <2>1
  <2>3. g[0] \in Scalars /\ First(v, k) \in Scalars /\ v[k] \in Scalars
    BY <1>1, <2>1
  <2>4. Plus(Plus(g[0], First(v, k)), v[k]) = Plus(g[0], Plus(First(v, k), v[k]))
    BY <2>3, PlusLaws
  <2>5. Plus(g[0], First(v, k + 1)) = g[k + 1]
    BY <1>1, <2>2, <2>4
  <2> QED BY <2>1, <2>5
<1> HIDE DEF f
<1>4. f[n] = g[n]
  BY <1>2, <1>3, SameGrowth
<1> QED BY <1>1, <1>4 DEF f

\* Rows and columns of a square add up to the same.
LEMMA TotalSwap ==
    ASSUME NEW n \in Nat, NEW F \in [Domain(n) -> [Domain(n) -> Scalars]]
    PROVE  Total([i \in Domain(n) |-> Total(F[i])])
             = Total([k \in Domain(n) |-> Total([i \in Domain(n) |-> F[i][k]])])
<1> DEFINE rows == [i \in Domain(n) |-> Total(F[i])]
           Across(k) == [i \in Domain(n) |-> F[i][k]]
           cols == [k \in Domain(n) |-> Total(Across(k))]
           Upto(j) == [k \in Domain(n) |-> First(Across(k), j)]
           f == [j \in 0 .. n |-> First(rows, j)]
           g == [j \in 0 .. n |-> Total(Upto(j))]
<1>1. rows \in [Domain(n) -> Scalars]
  <2>1. \A i \in Domain(n) : Total(F[i]) \in Scalars
    BY FirstLaws
  <2> QED BY <2>1
<1>2. \A k \in Domain(n) :
         /\ First(Across(k), 0) = Zero /\ First(Across(k), n) = Total(Across(k))
         /\ \A j \in 0 .. n : First(Across(k), j) \in Scalars
         /\ \A j \in Domain(n) : First(Across(k), j + 1) = Plus(First(Across(k), j), F[j][k])
  <2> TAKE k \in Domain(n)
  <2> DEFINE v == Across(k)
  <2>1. v \in [Domain(n) -> Scalars] /\ \A j \in Domain(n) : v[j] = F[j][k]
    OBVIOUS
  <2> HIDE DEF v
  <2>2. /\ First(v, 0) = Zero /\ First(v, n) = Total(v)
        /\ \A j \in 0 .. n : First(v, j) \in Scalars
        /\ \A j \in Domain(n) : First(v, j + 1) = Plus(First(v, j), v[j])
    BY <2>1, FirstLaws
  <2>3. /\ First(v, 0) = Zero /\ First(v, n) = Total(v)
        /\ \A j \in 0 .. n : First(v, j) \in Scalars
        /\ \A j \in Domain(n) : First(v, j + 1) = Plus(First(v, j), F[j][k])
    BY <2>1, <2>2
  <2> QED BY <2>3 DEF v
<1> HIDE DEF rows, Across
<1>3. /\ First(rows, 0) = Zero /\ First(rows, n) = Total(rows)
      /\ \A j \in Domain(n) : First(rows, j + 1) = Plus(First(rows, j), rows[j])
  BY <1>1, FirstLaws
<1>4. \A j \in 0 .. n : Upto(j) \in [Domain(n) -> Scalars]
  BY <1>2
<1>5. f[0] = g[0]
  <2>1. \A k \in Domain(n) : Upto(0)[k] = Times(Upto(0)[k], Zero)
    BY <1>2, TimesZero, Closure
  <2>2. Upto(0) \in [Domain(n) -> Scalars] /\ Zero \in Scalars
    BY <1>4, Closure
  <2> DEFINE v == Upto(0)
  <2> HIDE DEF v
  <2>3. v \in [Domain(n) -> Scalars] /\ \A k \in Domain(n) : v[k] = Times(v[k], Zero)
    BY <2>1, <2>2 DEF v
  <2>4. Total(v) = Times(Total(v), Zero)
    BY <2>2, <2>3, TotalScale
  <2>5. Total(v) \in Scalars
    BY <2>3, FirstLaws
  <2>6. Total(v) = Zero
    BY <2>4, <2>5, TimesZero
  <2> QED BY <1>3, <2>6 DEF v
<1>6. ASSUME NEW j \in Domain(n), f[j] = g[j] PROVE f[j + 1] = g[j + 1]
  <2>1. j \in 0 .. n /\ j + 1 \in 0 .. n
    BY DEF Domain
  <2> DEFINE u == Upto(j + 1)
             v == Upto(j)
             w == F[j]
  <2>2. /\ u \in [Domain(n) -> Scalars] /\ v \in [Domain(n) -> Scalars]
        /\ w \in [Domain(n) -> Scalars]
    BY <1>4, <2>1
  <2>3. \A k \in Domain(n) : u[k] = Plus(v[k], w[k])
    BY <1>2, <2>1
  <2> HIDE DEF u, v, w
  <2>4. Total(u) = Plus(Total(v), Total(w))
    BY <2>2, <2>3, TotalPlus
  <2>5. First(rows, j + 1) = Plus(First(rows, j), Total(w))
    BY <1>3 DEF rows, w
  <2>6. f[j] = First(rows, j) /\ g[j] = Total(v) /\ f[j + 1] = First(rows, j + 1)
        /\ g[j + 1] = Total(u)
    BY <2>1 DEF u, v
  <2> QED BY <1>6, <2>4, <2>5, <2>6
<1>7. Upto(n) = cols
  BY <1>2
<1>8. f[n] = Total(rows) /\ g[n] = Total(cols)
  BY <1>3, <1>7
<1> HIDE DEF f, g
<1>9. f[n] = g[n]
  BY <1>5, <1>6, SameGrowth
<1>10. Total(rows) = Total(cols)
  BY <1>8, <1>9
<1> QED BY <1>10 DEF rows, Across

\* Zeros can be left out.
LEMMA TotalSupport ==
    ASSUME NEW n \in Nat, NEW v \in [Domain(n) -> Scalars], NEW s \in SUBSET Domain(n),
           \A k \in Domain(n) \ s : v[k] = Zero
    PROVE  Total(v) = Part(v, s)
<1> DEFINE f == [k \in 0 .. n |-> First(v, k)]
           g == [k \in 0 .. n |-> Part(v, s \cap (0 .. k - 1))]
<1>1. /\ First(v, 0) = Zero /\ First(v, n) = Total(v)
      /\ \A k \in 0 .. n : First(v, k) \in Scalars
      /\ \A k \in Domain(n) : First(v, k + 1) = Plus(First(v, k), v[k])
  BY FirstLaws
<1>2. IsFiniteSet(Domain(n))
  BY DomainFinite
<1>3. /\ Part(v, {}) = Zero
      /\ \A t \in SUBSET Domain(n) : \A e \in Domain(n) \ t :
            Part(v, t \cup {e}) = Plus(Part(v, t), v[e])
  BY <1>2, PartLaws, Zenon
<1>4. f[0] = g[0]
  <2>1. s \cap (0 .. 0 - 1) = {}
    OBVIOUS
  <2> QED BY <1>1, <1>3, <2>1
<1>5. ASSUME NEW k \in Domain(n), f[k] = g[k] PROVE f[k + 1] = g[k + 1]
  <2>1. k \in 0 .. n /\ k + 1 \in 0 .. n
    BY DEF Domain
  <2> DEFINE t == s \cap (0 .. k - 1)
             r == s \cap (0 .. (k + 1) - 1)
  <2>2. t \in SUBSET Domain(n) /\ k \in Domain(n) \ t
    BY DEF Domain
  <2>3. First(v, k) = Part(v, t) /\ First(v, k + 1) = Plus(Part(v, t), v[k])
    BY <1>1, <1>5, <2>1
  <2>4. CASE k \in s
    <3>1. r = t \cup {k}
      BY <2>4 DEF Domain
    <3> HIDE DEF t, r
    <3>2. Part(v, r) = Plus(Part(v, t), v[k])
      BY <1>3, <2>2, <3>1
    <3> QED BY <2>1, <2>3, <3>2 DEF r
  <2>5. CASE k \notin s
    <3>1. r = t
      BY <2>5 DEF Domain
    <3>2. v[k] = Zero /\ Part(v, t) \in Scalars
      BY <1>1, <2>1, <2>3, <2>5
    <3> HIDE DEF t, r
    <3>3. First(v, k + 1) = Part(v, t)
      BY <2>3, <3>2, PlusZero
    <3> QED BY <2>1, <3>1, <3>3 DEF r
  <2> QED BY <2>4, <2>5
<1>6. f[n] = Total(v) /\ g[n] = Part(v, s)
  <2>1. s \cap (0 .. n - 1) = s
    BY DEF Domain
  <2> QED BY <1>1, <2>1
<1> HIDE DEF f, g
<1> QED BY <1>4, <1>5, <1>6, SameGrowth

\* One value that is not zero is the total.
LEMMA TotalSingle ==
    ASSUME NEW n \in Nat, NEW v \in [Domain(n) -> Scalars], NEW j \in Domain(n),
           \A k \in Domain(n) : k # j => v[k] = Zero
    PROVE  Total(v) = v[j]
<1>1. Total(v) = Part(v, {j})
  <2>1. {j} \in SUBSET Domain(n) /\ \A k \in Domain(n) \ {j} : v[k] = Zero
    OBVIOUS
  <2> DEFINE s == {j}
  <2> HIDE DEF s
  <2>2. s \in SUBSET Domain(n) /\ \A k \in Domain(n) \ s : v[k] = Zero
    BY <2>1 DEF s
  <2>3. Total(v) = Part(v, s)
    BY <2>2, TotalSupport
  <2> QED BY <2>3 DEF s
<1>2. IsFiniteSet(Domain(n))
  BY DomainFinite
<1>3. /\ Part(v, {}) = Zero
      /\ \A t \in SUBSET Domain(n) : \A e \in Domain(n) \ t :
            Part(v, t \cup {e}) = Plus(Part(v, t), v[e])
  BY <1>2, PartLaws, Zenon
<1>4. {} \in SUBSET Domain(n) /\ j \in Domain(n) \ {} /\ {} \cup {j} = {j}
  OBVIOUS
<1>5. Part(v, {j}) = Plus(Zero, v[j])
  BY <1>3, <1>4
<1> QED BY <1>1, <1>5, PlusZero

--------------------------------------------------------------------------------
(***************************************************************************)
(* Powers, roots of unity and interpolation.                               *)
(***************************************************************************)
LEMMA PowerLaws ==
    ASSUME NEW t \in Scalars
    PROVE  /\ Power(t, 0) = One
           /\ \A k \in Nat : Power(t, k + 1) = Times(Power(t, k), t)
<1>1. Power(t, 0) = One
  <2>1. PICK h : IsPowers(h, t, 0)
    BY PowersExist
  <2> QED BY <2>1 DEF IsPowers
<1>2. ASSUME NEW k \in Nat PROVE Power(t, k + 1) = Times(Power(t, k), t)
  <2>1. PICK h : IsPowers(h, t, k)
    BY PowersExist
  <2>2. k + 1 \in Nat
    OBVIOUS
  <2>3. PICK g : IsPowers(g, t, k + 1)
    BY <2>2, PowersExist
  <2>4. h[0] = g[0]
    BY <2>1, <2>3 DEF IsPowers
  <2>5. ASSUME NEW i \in Domain(k), h[i] = g[i] PROVE h[i + 1] = g[i + 1]
    <3>1. i + 1 \in 1 .. k /\ i + 1 \in 1 .. k + 1 /\ (i + 1) - 1 = i
      BY DEF Domain
    <3>2. h[i + 1] = Times(h[i], t)
      BY <2>1, <3>1 DEF IsPowers
    <3>3. g[i + 1] = Times(g[i], t)
      BY <2>3, <3>1 DEF IsPowers
    <3> QED BY <2>5, <3>2, <3>3
  <2>6. h[k] = g[k]
    BY <2>4, <2>5, SameGrowth
  <2>7. g[k + 1] = Times(g[k], t)
    <3>1. k + 1 \in 1 .. k + 1 /\ (k + 1) - 1 = k
      OBVIOUS
    <3>2. g[k + 1] = Times(g[(k + 1) - 1], t)
      BY <2>3, <3>1 DEF IsPowers
    <3> QED BY <3>1, <3>2
  <2>8. Power(t, k) = h[k] /\ Power(t, k + 1) = g[k + 1]
    BY <2>1, <2>3 DEF IsPowers
  <2> QED BY <2>6, <2>7, <2>8
<1> QED BY <1>1, <1>2

LEMMA PowerPlus ==
    ASSUME NEW t \in Scalars, NEW a \in Nat, NEW b \in Nat
    PROVE  Power(t, a + b) = Times(Power(t, a), Power(t, b))
<1> DEFINE f == [k \in 0 .. b |-> Power(t, a + k)]
           g == [k \in 0 .. b |-> Times(Power(t, a), Power(t, k))]
<1>1. \A k \in Nat : Power(t, k) \in Scalars
  BY PowerType
<1>2. f[0] = g[0]
  <2>1. f[0] = Power(t, a) /\ g[0] = Times(Power(t, a), One)
    BY PowerLaws
  <2> QED BY <1>1, <2>1, TimesLaws
<1>3. ASSUME NEW k \in Domain(b), f[k] = g[k] PROVE f[k + 1] = g[k + 1]
  <2>1. k \in Nat /\ k \in 0 .. b /\ k + 1 \in 0 .. b /\ a + k \in Nat
        /\ a + (k + 1) = (a + k) + 1
    BY DEF Domain
  <2>2. f[k + 1] = Power(t, (a + k) + 1) /\ g[k + 1] = Times(Power(t, a), Power(t, k + 1))
    BY <2>1
  <2>3. Power(t, (a + k) + 1) = Times(Power(t, a + k), t)
    BY <2>1, PowerLaws
  <2>4. Power(t, k + 1) = Times(Power(t, k), t)
    BY <2>1, PowerLaws
  <2>5. Power(t, a + k) = Times(Power(t, a), Power(t, k))
    BY <1>3, <2>1
  <2>6. Times(Times(Power(t, a), Power(t, k)), t) = Times(Power(t, a), Times(Power(t, k), t))
    BY <1>1, <2>1, TimesLaws
  <2> HIDE DEF f, g
  <2> QED BY <2>2, <2>3, <2>4, <2>5, <2>6
<1>4. f[b] = Power(t, a + b) /\ g[b] = Times(Power(t, a), Power(t, b))
  OBVIOUS
<1> HIDE DEF f, g
<1>5. f[b] = g[b]
  BY <1>2, <1>3, SameGrowth
<1> QED BY <1>4, <1>5

LEMMA PowerTimes ==
    ASSUME NEW t \in Scalars, NEW a \in Nat, NEW b \in Nat
    PROVE  Power(Power(t, a), b) = Power(t, a * b)
<1> DEFINE x == Power(t, a)
           f == [k \in 0 .. b |-> Power(x, k)]
           g == [k \in 0 .. b |-> Power(t, a * k)]
<1>1. x \in Scalars /\ \A k \in Nat : Power(t, k) \in Scalars
  BY PowerType
<1> HIDE DEF x
<1>2. f[0] = g[0]
  <2>1. a * 0 = 0
    OBVIOUS
  <2> QED BY <1>1, <2>1, PowerLaws
<1>3. ASSUME NEW k \in Domain(b), f[k] = g[k] PROVE f[k + 1] = g[k + 1]
  <2>1. k \in Nat /\ k \in 0 .. b /\ k + 1 \in 0 .. b
    BY DEF Domain
  <2> DEFINE m == a * k
  <2>2. m \in Nat /\ a * (k + 1) = m + a
    BY <2>1
  <2>3. Power(x, k) = Power(t, m)
    BY <1>3, <2>1
  <2>4. f[k + 1] = Power(x, k + 1) /\ g[k + 1] = Power(t, m + a)
    BY <2>1, <2>2
  <2> HIDE DEF m, f, g
  <2>5. Power(x, k + 1) = Times(Power(x, k), x)
    BY <1>1, <2>1, PowerLaws
  <2>6. Power(t, m + a) = Times(Power(t, m), x)
    BY <2>2, PowerPlus DEF x
  <2> QED BY <2>3, <2>4, <2>5, <2>6
<1>4. f[b] = Power(x, b) /\ g[b] = Power(t, a * b)
  OBVIOUS
<1> HIDE DEF f, g
<1>5. f[b] = g[b]
  BY <1>2, <1>3, SameGrowth
<1> QED BY <1>4, <1>5 DEF x

LEMMA PowerOne == \A k \in Nat : Power(One, k) = One
<1> DEFINE Good == {k \in Nat : Power(One, k) = One}
<1>0. One \in Scalars /\ Times(One, One) = One
  BY Closure, TimesLaws
<1>1. 0 \in Good
  BY <1>0, PowerLaws
<1>2. \A k \in Nat : k \in Good => k + 1 \in Good
  BY <1>0, PowerLaws
<1>3. Nat \subseteq Good
  <2> HIDE DEF Good
  <2> QED BY <1>1, <1>2, SetInduction
<1> QED BY <1>3

\* What a root of unity x, the k-th of the domain, is: its n-th power is one, and the
\* elements that ifft uses are its powers.
LEMMA RootLaws ==
    ASSUME NEW n \in DomainSizes, NEW k \in Domain(n)
    PROVE  /\ Element(n, k) \in Scalars /\ Element(n, k) # Zero
           /\ Power(Element(n, k), n) = One
           /\ \A i \in 0 .. n : Element(n, i * k) = Power(Element(n, k), i)
<1> DEFINE w == Element(n, 1)
           x == Element(n, k)
<1>1. /\ n \in Nat \ {0} /\ w \in Scalars /\ Element(n, n) = One
      /\ \A i \in 0 .. n * n : Element(n, i) = Power(w, i)
  BY RootsAssumption
<1>2. k \in Nat /\ k < n
  BY <1>1 DEF Domain
<1>3. n <= n * n /\ n \in 0 .. n * n /\ k \in 0 .. n * n
  <2>1. n <= n * n
    BY <1>1
  <2> DEFINE m == n * n
  <2> HIDE DEF m
  <2>2. m \in Nat /\ n <= m
    BY <1>1, <2>1 DEF m
  <2> QED BY <1>1, <1>2, <2>2 DEF m
<1>4. x = Power(w, k) /\ Power(w, n) = One
  BY <1>1, <1>3
<1> HIDE DEF w
<1>5. x \in Scalars
  BY <1>1, <1>2, <1>4, PowerType
<1>6. \A i \in 0 .. n : Element(n, i * k) = Power(x, i)
  <2> TAKE i \in 0 .. n
  <2>1. i \in Nat /\ i <= n
    BY <1>1
  <2>2. i * k \in 0 .. n * n /\ i * k = k * i
    <3>1. i * k \in Nat /\ i * k <= n * k /\ n * k <= n * n
      BY <1>1, <1>2, <2>1
    <3> DEFINE p == i * k
               q == n * k
               m == n * n
    <3> HIDE DEF p, q, m
    <3>2. p \in Nat /\ q \in Int /\ m \in Int /\ p <= q /\ q <= m
      BY <1>1, <1>2, <3>1 DEF p, q, m
    <3>3. p \in 0 .. m
      BY <3>2
    <3>4. i * k = k * i
      BY <1>2, <2>1
    <3> QED BY <3>3, <3>4 DEF p, m
  <2>3. Element(n, i * k) = Power(w, k * i)
    BY <1>1, <2>2
  <2>4. Power(Power(w, k), i) = Power(w, k * i)
    BY <1>1, <1>2, <2>1, PowerTimes
  <2> HIDE DEF x
  <2> QED BY <1>4, <2>3, <2>4
<1>7. Power(x, n) = One
  <2>1. Power(Power(w, k), n) = Power(w, k * n)
    BY <1>1, <1>2, PowerTimes
  <2>2. Power(Power(w, n), k) = Power(w, n * k)
    BY <1>1, <1>2, PowerTimes
  <2>3. n * k = k * n
    BY <1>1, <1>2
  <2>4. Power(Power(w, n), k) = One
    BY <1>2, <1>4, PowerOne
  <2> HIDE DEF x
  <2> QED BY <1>4, <2>1, <2>2, <2>3, <2>4
<1>8. x # Zero
  <2> SUFFICES ASSUME x = Zero PROVE FALSE
    OBVIOUS
  <2> DEFINE m == n - 1
  <2>1. m \in Nat /\ n = m + 1
    BY <1>1
  <2> HIDE DEF m, x
  <2>2. Power(x, n) = Times(Power(x, m), x)
    BY <1>5, <2>1, PowerLaws
  <2>3. Power(x, m) \in Scalars
    BY <1>5, <2>1, PowerType
  <2>4. Power(x, n) = Zero
    BY <2>2, <2>3, TimesZero
  <2> QED BY <1>7, <2>4, FieldAssumption
<1> QED BY <1>5, <1>6, <1>7, <1>8

\* The elements of a domain are different.
LEMMA RootsDistinct ==
    ASSUME NEW n \in DomainSizes, NEW j \in Domain(n), NEW k \in Domain(n), j # k
    PROVE  Element(n, j) # Element(n, k)
<1> DEFINE w == Element(n, 1)
<1>1. /\ n \in Nat \ {0} /\ w \in Scalars
      /\ \A i \in 0 .. n * n : Element(n, i) = Power(w, i)
      /\ \A i \in 1 .. n - 1 : Element(n, i) # One
  BY RootsAssumption
<1>2. \A i \in Domain(n) : i \in Nat /\ i \in 0 .. n * n
  <2>1. n <= n * n
    BY <1>1
  <2> DEFINE m == n * n
  <2> HIDE DEF m
  <2>2. m \in Nat /\ n <= m
    BY <1>1, <2>1 DEF m
  <2>3. \A i \in Domain(n) : i \in Nat /\ i \in 0 .. m
    BY <1>1, <2>2 DEF Domain
  <2> QED BY <2>3 DEF m
<1>3. \A i \in Domain(n) : Element(n, i) = Power(w, i)
  BY <1>1, <1>2
<1> HIDE DEF w
<1>4. ASSUME NEW a \in Domain(n), NEW b \in Domain(n), a < b, Element(n, a) = Element(n, b)
      PROVE  FALSE
  <2> DEFINE d == b - a
  <2>1. a \in Nat /\ b \in Nat /\ d \in Nat /\ d \in 1 .. n - 1 /\ d \in Domain(n) /\ a + d = b
    BY <1>1, <1>4 DEF Domain
  <2> HIDE DEF d
  <2>2. Power(w, a + d) = Times(Power(w, a), Power(w, d))
    BY <1>1, <2>1, PowerPlus
  <2>3. Power(w, a) = Times(Power(w, a), Power(w, d))
    BY <1>3, <1>4, <2>1, <2>2
  <2>4. Power(w, a) \in Scalars /\ Power(w, d) \in Scalars /\ One \in Scalars
    BY <1>1, <2>1, PowerType, Closure
  <2>5. Power(w, a) # Zero
    BY <1>3, RootLaws
  <2>6. Times(One, Power(w, a)) = Times(Power(w, d), Power(w, a))
    BY <2>3, <2>4, TimesLaws
  <2>7. One = Power(w, d)
    BY <2>4, <2>5, <2>6, TimesCancel
  <2> QED BY <1>1, <1>3, <2>1, <2>7
<1>5. j < k \/ k < j
  BY <1>2
<1> QED BY <1>4, <1>5

LEMMA TotalOnes ==
    ASSUME NEW n \in DomainSizes
    PROVE  Total([k \in Domain(n) |-> One]) = OfNat(n)
<1> DEFINE v == [k \in Domain(n) |-> One]
           f == [k \in 0 .. n |-> First(v, k)]
           g == [k \in 0 .. n |-> OfNat(k)]
<1>1. /\ n \in Nat \ {0} /\ OfNat(0) = Zero
      /\ \A k \in 1 .. 2 * n : OfNat(k) = Plus(OfNat(k - 1), One)
  BY RootsAssumption DEF \oplus
<1>2. v \in [Domain(n) -> Scalars] /\ \A k \in Domain(n) : v[k] = One
  BY Closure
<1> HIDE DEF v
<1>3. /\ First(v, 0) = Zero /\ First(v, n) = Total(v)
      /\ \A k \in Domain(n) : First(v, k + 1) = Plus(First(v, k), v[k])
  BY <1>1, <1>2, FirstLaws
<1>4. f[0] = g[0]
  BY <1>1, <1>3
<1>5. ASSUME NEW k \in Domain(n), f[k] = g[k] PROVE f[k + 1] = g[k + 1]
  <2>1. k \in 0 .. n /\ k + 1 \in 0 .. n /\ k + 1 \in 1 .. 2 * n /\ (k + 1) - 1 = k
    BY <1>1 DEF Domain
  <2>2. First(v, k) = OfNat(k)
    BY <1>5, <2>1
  <2>3. OfNat(k + 1) = Plus(OfNat(k), One)
    BY <1>1, <2>1
  <2>4. First(v, k + 1) = OfNat(k + 1)
    BY <1>2, <1>3, <2>2, <2>3
  <2> QED BY <2>1, <2>4
<1>6. f[n] = Total(v) /\ g[n] = OfNat(n)
  BY <1>1, <1>3
<1> HIDE DEF f, g
<1>7. f[n] = g[n]
  BY <1>1, <1>4, <1>5, SameGrowth
<1> QED BY <1>6, <1>7 DEF v

--------------------------------------------------------------------------------
\* One turn of the geometric sum below.
LEMMA GeometricTurn ==
    ASSUME NEW a \in Scalars, NEW b \in Scalars, NEW x \in Scalars, NEW t \in Scalars
    PROVE  Plus(Times(Times(a, x), b), Times(Times(a, b), t \ominus x)) = Times(a, Times(b, t))
<1> DEFINE c == Times(a, b)
           d == t \ominus x
<1>1. c \in Scalars /\ d \in Scalars
  BY Closure DEF \ominus
<1>2. Times(Times(a, x), b) = Times(x, c)
  <2>1. Times(a, x) = Times(x, a)
    BY TimesLaws
  <2> QED BY <2>1, TimesLaws
<1>3. Plus(d, x) = t
  BY MinusPlus DEF \ominus
<1>4. Times(a, Times(b, t)) = Times(t, c)
  <2>1. Times(a, Times(b, t)) = Times(c, t)
    BY TimesLaws
  <2> QED BY <1>1, <2>1, TimesLaws
<1> HIDE DEF c, d
<1>5. Times(Plus(d, x), c) = Plus(Times(d, c), Times(x, c))
  BY <1>1, Distributes
<1>6. Times(c, d) = Times(d, c) /\ Times(d, c) \in Scalars /\ Times(x, c) \in Scalars
  BY <1>1, TimesLaws, Closure
<1>7. Plus(Times(x, c), Times(c, d)) = Times(t, c)
  BY <1>3, <1>5, <1>6, PlusLaws
<1> QED BY <1>2, <1>4, <1>7 DEF c, d

\* The terms of t^n - x^n divided by t - x, times x.
Terms(n, x, t) == [i \in Domain(n) |-> Times(Power(x, n - i), Power(t, i))]

LEMMA Geometric ==
    ASSUME NEW n \in Nat \ {0}, NEW x \in Scalars, NEW t \in Scalars, Power(x, n) = One
    PROVE  /\ Terms(n, x, t) \in [Domain(n) -> Scalars]
           /\ Times(Total(Terms(n, x, t)), t \ominus x) = Times(Vanishing(n, t), x)
<1> DEFINE d == t \ominus x
           v == Terms(n, x, t)
           w == [i \in Domain(n) |-> Times(v[i], d)]
           g == [i \in 0 .. n |-> Times(Power(x, (n - i) + 1), Power(t, i))]
<1>1. d \in Scalars
  BY Closure DEF \ominus
<1>2. \A i \in 0 .. n : /\ i \in Nat /\ n - i \in Nat
                        /\ Power(x, n - i) \in Scalars /\ Power(t, i) \in Scalars
                        /\ Power(x, (n - i) + 1) = Times(Power(x, n - i), x)
                        /\ Power(t, i + 1) = Times(Power(t, i), t)
  <2> TAKE i \in 0 .. n
  <2>1. i \in Nat /\ n - i \in Nat
    OBVIOUS
  <2> DEFINE e == n - i
  <2>2. e \in Nat
    BY <2>1
  <2> HIDE DEF e
  <2>3. Power(x, e + 1) = Times(Power(x, e), x) /\ Power(t, i + 1) = Times(Power(t, i), t)
    BY <2>1, <2>2, PowerLaws
  <2>4. Power(x, e) \in Scalars /\ Power(t, i) \in Scalars
    BY <2>1, <2>2, PowerType
  <2> QED BY <2>1, <2>3, <2>4 DEF e
<1>3. v \in [Domain(n) -> Scalars]
  BY <1>2, Closure DEF Domain, Terms
<1>4. w \in [Domain(n) -> Scalars]
  BY <1>1, <1>3, Closure
<1>5. g \in [0 .. n -> Scalars]
  BY <1>2, Closure
<1>6. ASSUME NEW i \in Domain(n) PROVE Plus(g[i], w[i]) = g[i + 1]
  <2>1. i \in 0 .. n /\ i + 1 \in 0 .. n /\ (n - (i + 1)) + 1 = n - i
    BY DEF Domain
  <2> DEFINE a == Power(x, n - i)
             b == Power(t, i)
  <2>2. a \in Scalars /\ b \in Scalars
    BY <1>2, <2>1
  <2>3. g[i] = Times(Times(a, x), b)
    BY <1>2, <2>1
  <2>4. g[i + 1] = Times(a, Times(b, t))
    <3>1. g[i + 1] = Times(Power(x, (n - (i + 1)) + 1), Power(t, i + 1))
      BY <2>1
    <3> HIDE DEF g
    <3> QED BY <1>2, <2>1, <3>1
  <2>5. w[i] = Times(Times(a, b), d)
    BY DEF Terms
  <2> HIDE DEF a, b, g, w, v
  <2> QED BY <2>2, <2>3, <2>4, <2>5, GeometricTurn
<1>7. g[0] = Times(Power(x, n + 1), One) /\ g[n] = Times(Power(x, 1), Power(t, n))
  <2>1. n - 0 = n /\ (n - n) + 1 = 1 /\ 0 \in 0 .. n /\ n \in 0 .. n
    OBVIOUS
  <2> QED BY <2>1, PowerLaws
<1>8. Power(x, n + 1) = x /\ Power(x, 1) = x
  <2>1. Times(One, x) = x
    BY Closure, TimesLaws
  <2>2. Power(x, n + 1) = Times(One, x)
    BY PowerLaws
  <2>3. Power(x, 0 + 1) = Times(Power(x, 0), x) /\ Power(x, 0) = One
    BY PowerLaws
  <2> QED BY <2>1, <2>2, <2>3
<1> DEFINE p == Power(t, n)
<1>9. p \in Scalars
  BY PowerType
<1>10. g[0] = x /\ g[n] = Times(p, x)
  BY <1>7, <1>8, <1>9, TimesLaws
<1> HIDE DEF d, v, w, g
<1>11. Plus(g[0], Total(w)) = g[n]
  BY <1>4, <1>5, <1>6, TotalTelescopes
<1>12. \A i \in Domain(n) : w[i] = Times(v[i], d)
  BY DEF w
<1>13. Total(w) = Times(Total(v), d)
  BY <1>1, <1>3, <1>4, <1>12, TotalScale
<1>14. Total(w) \in Scalars
  BY <1>4, FirstLaws
<1>15. Vanishing(n, t) \in Scalars /\ Plus(Vanishing(n, t), One) = p
  BY <1>9, Closure, MinusPlus DEF Vanishing, \ominus
<1> HIDE DEF p
<1> DEFINE z == Vanishing(n, t)
<1>16. z \in Scalars /\ Plus(z, One) = p
  BY <1>15
<1> HIDE DEF z
<1>17. Times(p, x) = Plus(Times(z, x), x)
  <2>1. Times(Plus(z, One), x) = Plus(Times(z, x), Times(One, x))
    BY <1>16, Closure, Distributes
  <2>2. Times(One, x) = x
    BY Closure, TimesLaws
  <2> QED BY <1>16, <2>1, <2>2
<1>18. Plus(Total(w), x) = Plus(Times(z, x), x)
  BY <1>10, <1>11, <1>14, <1>17, PlusLaws
<1>19. Times(z, x) \in Scalars
  BY <1>16, Closure
<1>20. Total(w) = Times(z, x)
  BY <1>14, <1>18, <1>19, Cancel
<1> QED BY <1>3, <1>13, <1>20 DEF v, d, z
\* What the values at the elements of the domain are weighted with at t.
Weights(n, k, t) ==
    [i \in Domain(n) |->
        Times(Times(Reciprocal(OfNat(n)), Element(n, (n - i) * k)), Power(t, i))]

LEMMA KernelTerms ==
    ASSUME NEW n \in DomainSizes, NEW k \in Domain(n), NEW t \in Scalars
    PROVE  /\ Weights(n, k, t) \in [Domain(n) -> Scalars]
           /\ Terms(n, Element(n, k), t) \in [Domain(n) -> Scalars]
           /\ Total(Weights(n, k, t))
                = Times(Total(Terms(n, Element(n, k), t)), Reciprocal(OfNat(n)))
<1> DEFINE x == Element(n, k)
           inv == Reciprocal(OfNat(n))
           v == Terms(n, x, t)
           w == Weights(n, k, t)
<1>1. /\ x \in Scalars /\ Power(x, n) = One /\ n \in Nat \ {0} /\ n \in Nat
      /\ \A i \in 0 .. n : Element(n, i * k) = Power(x, i)
  BY RootLaws, RootsAssumption
<1>2. inv \in Scalars
  BY OfNatType, ReciprocalType
<1> HIDE DEF x, inv
<1>3. v \in [Domain(n) -> Scalars]
  BY <1>1, Geometric
<1>4. \A i \in Domain(n) : w[i] = Times(v[i], inv)
  <2> TAKE i \in Domain(n)
  <2>1. i \in Nat /\ n - i \in Nat /\ n - i \in 0 .. n
    BY <1>1 DEF Domain
  <2> DEFINE a == Power(x, n - i)
             b == Power(t, i)
  <2>2. a \in Scalars /\ b \in Scalars
    BY <1>1, <2>1, PowerType
  <2>3. Element(n, (n - i) * k) = a
    BY <1>1, <2>1
  <2>4. v[i] = Times(a, b) /\ w[i] = Times(Times(inv, a), b)
    BY <2>3 DEF Terms, Weights, inv
  <2> HIDE DEF a, b, v, w
  <2>5. Times(Times(inv, a), b) = Times(inv, Times(a, b))
    BY <1>2, <2>2, TimesLaws
  <2>6. Times(inv, Times(a, b)) = Times(Times(a, b), inv)
    BY <1>2, <2>2, Closure, TimesLaws
  <2> QED BY <2>4, <2>5, <2>6
<1>5. w \in [Domain(n) -> Scalars]
  <2>1. w = [i \in Domain(n) |-> w[i]]
    BY DEF Weights
  <2>2. \A i \in Domain(n) : v[i] \in Scalars
    BY <1>3
  <2> HIDE DEF w, v
  <2>3. \A i \in Domain(n) : w[i] \in Scalars
    BY <1>2, <1>4, <2>2, Closure
  <2> QED BY <2>1, <2>3
<1> HIDE DEF v, w
<1>6. Total(w) = Times(Total(v), inv)
  BY <1>1, <1>2, <1>3, <1>4, <1>5, TotalScale
<1> QED BY <1>3, <1>5, <1>6 DEF v, w, inv, x

\* Weight one at the element itself, and the barycentric weight anywhere else.
LEMMA KernelIs ==
    ASSUME NEW n \in DomainSizes, NEW k \in Domain(n), NEW t \in Scalars
    PROVE  /\ t = Element(n, k) => Total(Weights(n, k, t)) = One
           /\ t # Element(n, k) => Total(Weights(n, k, t)) = Lagrange(n, k, t)
<1> DEFINE x == Element(n, k)
           c == OfNat(n)
           inv == Reciprocal(c)
           v == Terms(n, x, t)
<1>1. /\ x \in Scalars /\ Power(x, n) = One /\ n \in Nat \ {0} /\ n \in Nat
  BY RootLaws, RootsAssumption
<1>2. c \in Scalars /\ c # Zero /\ inv \in Scalars /\ Times(c, inv) = One
  BY OfNatType, ReciprocalType DEF \otimes
<1>3. v \in [Domain(n) -> Scalars] /\ Total(Weights(n, k, t)) = Times(Total(v), inv)
  BY KernelTerms
<1>4. Total(v) \in Scalars
  BY <1>1, <1>3, FirstLaws
<1>5. ASSUME t = x PROVE Total(Weights(n, k, t)) = One
  <2>1. v = [i \in Domain(n) |-> One]
    <3>1. \A i \in Domain(n) : Times(Power(x, n - i), Power(x, i)) = One
      <4> TAKE i \in Domain(n)
      <4>1. i \in Nat /\ n - i \in Nat /\ (n - i) + i = n
        BY <1>1 DEF Domain
      <4> DEFINE e == n - i
      <4> HIDE DEF e, x
      <4>2. e \in Nat /\ e + i = n
        BY <4>1 DEF e
      <4>3. Power(x, e + i) = Times(Power(x, e), Power(x, i))
        BY <1>1, <4>1, <4>2, PowerPlus
      <4> QED BY <1>1, <4>2, <4>3 DEF e
    <3> HIDE DEF x
    <3> QED BY <1>5, <3>1 DEF Terms
  <2>2. Total(v) = c
    BY <2>1, TotalOnes
  <2> HIDE DEF v, c, inv
  <2> QED BY <1>2, <1>3, <2>2
<1>6. ASSUME t # x PROVE Total(Weights(n, k, t)) = Lagrange(n, k, t)
  <2> DEFINE d == t \ominus x
             z == Vanishing(n, t)
             s == Total(v)
             e == Times(c, d)
             r == Reciprocal(e)
  <2>1. d \in Scalars /\ z \in Scalars
    BY <1>1, PowerType, Closure DEF \ominus, Vanishing
  <2>2. d # Zero
    <3> SUFFICES ASSUME d = Zero PROVE FALSE
      OBVIOUS
    <3>1. Plus(d, x) = t
      BY <1>1, MinusPlus DEF \ominus
    <3>2. Plus(Zero, x) = x
      BY <1>1, PlusZero
    <3> HIDE DEF x, d
    <3> QED BY <1>6, <3>1, <3>2
  <2>3. Times(s, d) = Times(z, x)
    BY <1>1, Geometric
  <2>4. Lagrange(n, k, t) = Times(Times(z, x), r)
    BY DEF Lagrange, \otimes
  <2>5. s \in Scalars
    BY <1>4
  <2> HIDE DEF v, s, d, z, c, inv, x
  <2>6. e \in Scalars /\ e # Zero
    BY <1>2, <2>1, <2>2, Closure, TimesNonZero
  <2>7. r \in Scalars /\ Times(e, r) = One
    BY <2>6, ReciprocalType DEF \otimes
  <2>8. Times(Times(s, inv), e) = Times(s, d)
    <3>1. Times(Times(s, inv), Times(c, d)) = Times(s, Times(inv, Times(c, d)))
      BY <1>2, <2>1, <2>5, Closure, TimesLaws
    <3>2. Times(inv, Times(c, d)) = Times(Times(inv, c), d)
      BY <1>2, <2>1, TimesLaws
    <3>3. Times(inv, c) = One
      BY <1>2, TimesLaws
    <3>4. Times(One, d) = d
      BY <2>1, Closure, TimesLaws
    <3> QED BY <3>1, <3>2, <3>3, <3>4
  <2> HIDE DEF e, r
  <2>9. Times(Times(Times(z, x), r), e) = Times(z, x)
    <3> DEFINE y == Times(z, x)
    <3>1. y \in Scalars
      BY <1>1, <2>1, Closure
    <3> HIDE DEF y
    <3>2. Times(Times(y, r), e) = Times(y, Times(r, e))
      BY <2>6, <2>7, <3>1, TimesLaws
    <3>3. Times(r, e) = One
      BY <2>6, <2>7, TimesLaws
    <3>4. Times(Times(y, r), e) = y
      BY <3>1, <3>2, <3>3, TimesLaws
    <3> QED BY <3>4 DEF y
  <2>10. Times(s, inv) \in Scalars /\ Times(Times(z, x), r) \in Scalars
    BY <1>1, <1>2, <2>1, <2>5, <2>7, Closure
  <2>11. Times(s, inv) = Times(Times(z, x), r)
    BY <2>3, <2>6, <2>8, <2>9, <2>10, TimesCancel
  <2> QED BY <1>3, <2>4, <2>11 DEF s
<1> QED BY <1>5, <1>6

\* The polynomial that ifft finds takes the value at t which the weights give.
LEMMA Interpolates ==
    ASSUME NEW n \in DomainSizes, NEW v \in [Domain(n) -> Scalars], NEW t \in Scalars
    PROVE  Total([i \in Domain(n) |-> Coefficient(n, v, i) \otimes Power(t, i)])
             = Total([k \in Domain(n) |-> Times(v[k], Total(Weights(n, k, t)))])
<1> DEFINE F == [k \in Domain(n) |-> [i \in Domain(n) |-> Times(v[k], Weights(n, k, t)[i])]]
           inv == Reciprocal(OfNat(n))
<1>1. n \in Nat \ {0} /\ n \in Nat /\ inv \in Scalars
  BY OfNatType, ReciprocalType, RootsAssumption
<1>2. \A k \in Domain(n) : v[k] \in Scalars /\ Weights(n, k, t) \in [Domain(n) -> Scalars]
  BY KernelTerms
<1>3. F \in [Domain(n) -> [Domain(n) -> Scalars]]
  BY <1>2, Closure
<1>4. \A k \in Domain(n) : Total(F[k]) = Times(v[k], Total(Weights(n, k, t)))
  <2> TAKE k \in Domain(n)
  <2> DEFINE a == v[k]
             w == Weights(n, k, t)
             u == F[k]
  <2>1. a \in Scalars /\ w \in [Domain(n) -> Scalars] /\ u \in [Domain(n) -> Scalars]
    BY <1>2, <1>3
  <2>2. \A i \in Domain(n) : u[i] = Times(a, w[i])
    OBVIOUS
  <2> HIDE DEF a, w, u, F
  <2>3. \A i \in Domain(n) : u[i] = Times(w[i], a)
    BY <2>1, <2>2, TimesLaws
  <2>4. Total(u) = Times(Total(w), a) /\ Total(w) \in Scalars
    BY <1>1, <2>1, <2>3, TotalScale, FirstLaws
  <2>5. Total(u) = Times(a, Total(w))
    BY <2>1, <2>4, TimesLaws
  <2> QED BY <2>5 DEF a, w, u
<1>5. \A i \in Domain(n) : Total([k \in Domain(n) |-> F[k][i]])
                             = Coefficient(n, v, i) \otimes Power(t, i)
  <2> TAKE i \in Domain(n)
  <2> DEFINE E == [k \in Domain(n) |-> Element(n, (n - i) * k)]
             f == [k \in Domain(n) |-> v[k] \otimes Element(n, (n - i) * k)]
             g == [k \in Domain(n) |-> F[k][i]]
             b == Power(t, i)
             c == Times(inv, b)
  <2>1. \A k \in Domain(n) : E[k] \in Scalars
    <3> TAKE k \in Domain(n)
    <3>1. n - i \in 0 .. n /\ n - i \in Nat
      BY <1>1 DEF Domain
    <3>2. Element(n, (n - i) * k) = Power(Element(n, k), n - i) /\ Element(n, k) \in Scalars
      BY <3>1, RootLaws
    <3> QED BY <3>1, <3>2, PowerType
  <2>2. b \in Scalars /\ i \in Nat
    BY <1>1, PowerType DEF Domain
  <2>3. f \in [Domain(n) -> Scalars] /\ \A k \in Domain(n) : f[k] = Times(v[k], E[k])
    BY <1>2, <2>1, Closure DEF \otimes
  <2>4. g \in [Domain(n) -> Scalars]
    BY <1>3
  <2>5. \A k \in Domain(n) : g[k] = Times(v[k], Times(Times(inv, E[k]), b))
    BY DEF Weights
  <2>6. c \in Scalars
    BY <1>1, <2>2, Closure
  <2>7. Coefficient(n, v, i) = Times(inv, Total(f))
    BY DEF Coefficient, \otimes
  <2> HIDE DEF E, f, g, b, inv, F
  <2>8. \A k \in Domain(n) : g[k] = Times(f[k], c)
    <3> TAKE k \in Domain(n)
    <3> DEFINE x == v[k]
               y == E[k]
    <3>1. x \in Scalars /\ y \in Scalars
      BY <1>2, <2>1
    <3>2. g[k] = Times(x, Times(Times(inv, y), b)) /\ f[k] = Times(x, y)
      BY <2>3, <2>5
    <3> HIDE DEF x, y
    <3>3. Times(inv, y) = Times(y, inv)
      BY <1>1, <3>1, TimesLaws
    <3>4. Times(Times(y, inv), b) = Times(y, c)
      BY <1>1, <2>2, <3>1, TimesLaws
    <3>5. Times(x, Times(y, c)) = Times(Times(x, y), c)
      BY <2>6, <3>1, TimesLaws
    <3> QED BY <3>2, <3>3, <3>4, <3>5
  <2> HIDE DEF c
  <2>9. Total(g) = Times(Total(f), c) /\ Total(f) \in Scalars
    BY <1>1, <2>3, <2>4, <2>6, <2>8, TotalScale, FirstLaws
  <2> USE DEF c
  <2>10. Times(Total(f), Times(inv, b)) = Times(Times(inv, Total(f)), b)
    <3> DEFINE s == Total(f)
    <3>1. s \in Scalars
      BY <2>9
    <3> HIDE DEF s
    <3>2. Times(s, Times(inv, b)) = Times(Times(s, inv), b) /\ Times(s, inv) = Times(inv, s)
      BY <1>1, <2>2, <3>1, TimesLaws
    <3> QED BY <3>2 DEF s
  <2>11. Total(g) = Times(Coefficient(n, v, i), b)
    BY <2>7, <2>9, <2>10
  <2> QED BY <2>11 DEF g, b, \otimes
<1> DEFINE rows == [k \in Domain(n) |-> Total(F[k])]
           cols == [i \in Domain(n) |-> Total([k \in Domain(n) |-> F[k][i]])]
<1> HIDE DEF F
<1>6. Total(rows) = Total(cols)
  BY <1>1, <1>3, TotalSwap
<1>7. rows = [k \in Domain(n) |-> Times(v[k], Total(Weights(n, k, t)))]
  BY <1>4
<1>8. cols = [i \in Domain(n) |-> Coefficient(n, v, i) \otimes Power(t, i)]
  BY <1>5
<1> QED BY <1>6, <1>7, <1>8

\* At an element of the domain every weight but its own vanishes.
LEMMA KernelAtRoot ==
    ASSUME NEW n \in DomainSizes, NEW j \in Domain(n), NEW k \in Domain(n), k # j
    PROVE  Total(Weights(n, k, Element(n, j))) = Zero
<1> DEFINE t == Element(n, j)
           x == Element(n, k)
           r == Reciprocal(OfNat(n) \otimes (t \ominus x))
<1>1. t \in Scalars /\ x \in Scalars /\ Power(t, n) = One /\ t # x
  BY RootLaws, RootsDistinct
<1>2. Total(Weights(n, k, t)) = Lagrange(n, k, t)
  BY <1>1, KernelIs
<1>3. Lagrange(n, k, t) \in Scalars
  BY <1>1, LagrangeType
<1>4. Vanishing(n, t) = Zero
  BY <1>1, Closure, PlusZero DEF Vanishing, \ominus
<1>5. OfNat(n) \otimes (t \ominus x) \in Scalars /\ OfNat(n) \otimes (t \ominus x) # Zero
  <2>1. OfNat(n) \in Scalars /\ OfNat(n) # Zero /\ t \ominus x \in Scalars
    BY <1>1, OfNatType, MinusType
  <2>2. t \ominus x # Zero
    <3> SUFFICES ASSUME t \ominus x = Zero PROVE FALSE
      OBVIOUS
    <3>1. Plus(t \ominus x, x) = t
      BY <1>1, MinusPlus DEF \ominus
    <3>2. Plus(Zero, x) = x
      BY <1>1, PlusZero
    <3> HIDE DEF t, x
    <3> QED BY <1>1, <3>1, <3>2
  <2> HIDE DEF t, x
  <2> QED BY <2>1, <2>2, Closure, TimesNonZero DEF \otimes
<1>6. r \in Scalars
  BY <1>5, ReciprocalType
<1>7. Lagrange(n, k, t) = Times(Times(Zero, x), r)
  BY <1>4 DEF Lagrange, \otimes
<1> HIDE DEF r
<1>8. Times(Times(Zero, x), r) = Zero
  BY <1>1, <1>6, TimesZero
<1> QED BY <1>2, <1>7, <1>8

--------------------------------------------------------------------------------
(***************************************************************************)
(* Totals: growth, scaling, support, exchange and renaming.                *)
(***************************************************************************)
\* What holds of the empty set and stays true when an element is added holds of every
\* finite set: G is the set of the sets it holds of.
LEMMA SetGrowth ==
    ASSUME NEW D, IsFiniteSet(D), NEW G, {} \in G,
           \A s \in SUBSET D : s \in G => \A e \in D \ s : s \cup {e} \in G
    PROVE  D \in G
<1> DEFINE P == {k \in Nat : \A s \in SUBSET D : Cardinality(s) = k => s \in G}
<1>1. 0 \in P
  <2>1. ASSUME NEW s \in SUBSET D, Cardinality(s) = 0 PROVE s \in G
    <3>1. IsFiniteSet(s)
      BY FS_Subset
    <3>2. s = {}
      BY <2>1, <3>1, FS_EmptySet
    <3> QED BY <3>2
  <2> QED BY <2>1
<1>2. ASSUME NEW k \in Nat, k \in P PROVE k + 1 \in P
  <2>1. ASSUME NEW s \in SUBSET D, Cardinality(s) = k + 1 PROVE s \in G
    <3>1. s # {}
      <4>1. Cardinality({}) = 0
        BY FS_EmptySet
      <4> QED BY <2>1, <4>1
    <3> DEFINE e == Pick(s)
               t == s \ {Pick(s)}
    <3>2. e \in s
      BY <3>1, PickMember
    <3>3. t \in SUBSET D /\ Cardinality(t) = Cardinality(s) - 1
      BY <3>1, PickSmaller
    <3>4. s = t \cup {e} /\ e \in D \ t
      BY <3>2
    <3> HIDE DEF e, t
    <3>5. t \in G
      BY <1>2, <2>1, <3>3
    <3> QED BY <3>3, <3>4, <3>5
  <2> QED BY <2>1
<1>3. Nat \subseteq P
  <2> HIDE DEF P
  <2> QED BY <1>1, <1>2, SetInduction
<1>4. Cardinality(D) \in Nat
  BY FS_CardinalityType
<1> QED BY <1>3, <1>4

\* Two sums that start from zero and grow alike are the same.
Grows(g, v, D) ==
    /\ g[{}] = Zero
    /\ \A s \in SUBSET D : g[s] \in Scalars
    /\ \A s \in SUBSET D : \A e \in D \ s : g[s \cup {e}] = Plus(g[s], v[e])

\* Partial sums grow by one entry at a time.
LEMMA PartGrows ==
    ASSUME NEW D, IsFiniteSet(D), NEW v \in [D -> Scalars]
    PROVE  Grows([s \in SUBSET D |-> Part(v, s)], v, D)
<1> DEFINE g == [s \in SUBSET D |-> Part(v, s)]
<1>1. /\ Part(v, {}) = Zero
      /\ \A s \in SUBSET D : Part(v, s) \in Scalars
      /\ \A s \in SUBSET D : \A e \in D \ s : Part(v, s \cup {e}) = Plus(Part(v, s), v[e])
  BY PartLaws
<1>2. \A s \in SUBSET D : g[s] = Part(v, s)
  OBVIOUS
<1>3. {} \in SUBSET D /\ \A s \in SUBSET D : \A e \in D \ s : s \cup {e} \in SUBSET D
  OBVIOUS
<1> HIDE DEF g
<1> QED BY <1>1, <1>2, <1>3 DEF Grows, g

\* Whatever grows as the partial sums do ends at the total.
LEMMA GrowsTotal ==
    ASSUME NEW D, IsFiniteSet(D), NEW v \in [D -> Scalars], NEW g, Grows(g, v, D)
    PROVE  g[D] = Total(v)
<1> DEFINE G == {s \in SUBSET D : g[s] = Part(v, s)}
<1>1. /\ Part(v, {}) = Zero /\ Part(v, D) = Total(v)
      /\ \A s \in SUBSET D : \A e \in D \ s : Part(v, s \cup {e}) = Plus(Part(v, s), v[e])
  BY PartLaws
<1>2. {} \in G
  BY <1>1 DEF Grows
<1>3. ASSUME NEW s \in SUBSET D, s \in G, NEW e \in D \ s PROVE s \cup {e} \in G
  BY <1>1, <1>3 DEF Grows
<1>4. D \in G
  <2> HIDE DEF G
  <2> QED BY <1>2, <1>3, SetGrowth
<1> QED BY <1>1, <1>4

\* Functions of two parts, of one function and of a sum.
LEMMA AllScale ==
    ASSUME NEW D, IsFiniteSet(D), NEW v \in [D -> Scalars], NEW w \in [D -> Scalars],
           NEW c \in Scalars, \A k \in D : w[k] = Times(v[k], c)
    PROVE  Total(w) = Times(Total(v), c)
<1> DEFINE g == [s \in SUBSET D |-> Times(Part(v, s), c)]
<1>1. /\ Part(v, {}) = Zero /\ Part(v, D) = Total(v)
      /\ \A s \in SUBSET D : Part(v, s) \in Scalars
      /\ \A s \in SUBSET D : \A e \in D \ s : Part(v, s \cup {e}) = Plus(Part(v, s), v[e])
  BY PartLaws
<1>2. \A s \in SUBSET D : g[s] = Times(Part(v, s), c)
  OBVIOUS
<1>3. {} \in SUBSET D /\ \A s \in SUBSET D : \A e \in D \ s : s \cup {e} \in SUBSET D
  OBVIOUS
<1> HIDE DEF g
<1>4. g[{}] = Zero
  BY <1>1, <1>2, <1>3, TimesZero
<1>5. ASSUME NEW s \in SUBSET D, NEW e \in D \ s PROVE g[s \cup {e}] = Plus(g[s], w[e])
  <2>1. Part(v, s) \in Scalars /\ v[e] \in Scalars /\ w[e] = Times(v[e], c)
    BY <1>1
  <2>2. g[s \cup {e}] = Times(Plus(Part(v, s), v[e]), c)
    BY <1>1, <1>2, <1>3
  <2> QED BY <1>2, <2>1, <2>2, Distributes
<1>6. \A s \in SUBSET D : g[s] \in Scalars
  BY <1>1, <1>2, Closure
<1>7. Grows(g, w, D)
  BY <1>4, <1>5, <1>6 DEF Grows
<1>8. g[D] = Total(w)
  BY <1>7, GrowsTotal
<1> QED BY <1>1, <1>2, <1>8

\* Sums add entry by entry.
LEMMA AllPlus ==
    ASSUME NEW D, IsFiniteSet(D), NEW v \in [D -> Scalars], NEW w \in [D -> Scalars],
           NEW u \in [D -> Scalars], \A k \in D : u[k] = Plus(v[k], w[k])
    PROVE  Total(u) = Plus(Total(v), Total(w))
<1> DEFINE g == [s \in SUBSET D |-> Plus(Part(v, s), Part(w, s))]
<1>1. /\ Part(v, {}) = Zero /\ Part(v, D) = Total(v)
      /\ \A s \in SUBSET D : Part(v, s) \in Scalars
      /\ \A s \in SUBSET D : \A e \in D \ s : Part(v, s \cup {e}) = Plus(Part(v, s), v[e])
  BY PartLaws
<1>10. /\ Part(w, {}) = Zero /\ Part(w, D) = Total(w)
       /\ \A s \in SUBSET D : Part(w, s) \in Scalars
       /\ \A s \in SUBSET D : \A e \in D \ s : Part(w, s \cup {e}) = Plus(Part(w, s), w[e])
  BY PartLaws
<1>2. \A s \in SUBSET D : g[s] = Plus(Part(v, s), Part(w, s))
  OBVIOUS
<1>3. {} \in SUBSET D /\ \A s \in SUBSET D : \A e \in D \ s : s \cup {e} \in SUBSET D
  OBVIOUS
<1> HIDE DEF g
<1>4. g[{}] = Zero
  BY <1>1, <1>10, <1>2, <1>3, PlusZero, Closure
<1>5. ASSUME NEW s \in SUBSET D, NEW e \in D \ s PROVE g[s \cup {e}] = Plus(g[s], u[e])
  <2>1. /\ Part(v, s) \in Scalars /\ v[e] \in Scalars /\ Part(w, s) \in Scalars /\ w[e] \in Scalars
        /\ u[e] = Plus(v[e], w[e])
    BY <1>1, <1>10
  <2>2. g[s \cup {e}] = Plus(Plus(Part(v, s), v[e]), Plus(Part(w, s), w[e]))
    BY <1>1, <1>10, <1>2, <1>3
  <2> QED BY <1>2, <2>1, <2>2, PlusSwap
<1>6. \A s \in SUBSET D : g[s] \in Scalars
  BY <1>1, <1>10, <1>2, Closure
<1>7. Grows(g, u, D)
  BY <1>4, <1>5, <1>6 DEF Grows
<1>8. g[D] = Total(u)
  BY <1>7, GrowsTotal
<1> QED BY <1>1, <1>10, <1>2, <1>8

\* What is zero outside s sums up over s.
LEMMA AllSupport ==
    ASSUME NEW D, IsFiniteSet(D), NEW v \in [D -> Scalars], NEW s \in SUBSET D,
           \A k \in D \ s : v[k] = Zero
    PROVE  Total(v) = Part(v, s)
<1> DEFINE g == [x \in SUBSET D |-> Part(v, x \cap s)]
<1>1. /\ Part(v, {}) = Zero
      /\ \A x \in SUBSET D : Part(v, x) \in Scalars
      /\ \A x \in SUBSET D : \A e \in D \ x : Part(v, x \cup {e}) = Plus(Part(v, x), v[e])
  BY PartLaws
<1>2. \A x \in SUBSET D : g[x] = Part(v, x \cap s)
  OBVIOUS
<1> HIDE DEF g
<1>4. g[{}] = Zero
  <2>1. {} \cap s = {} /\ {} \in SUBSET D
    OBVIOUS
  <2> QED BY <1>1, <1>2, <2>1
<1>5. ASSUME NEW x \in SUBSET D, NEW e \in D \ x PROVE g[x \cup {e}] = Plus(g[x], v[e])
  <2>1. x \cap s \in SUBSET D /\ x \cup {e} \in SUBSET D /\ g[x] = Part(v, x \cap s)
        /\ g[x \cup {e}] = Part(v, (x \cup {e}) \cap s)
    BY <1>2
  <2>2. CASE e \in s
    <3>1. (x \cup {e}) \cap s = (x \cap s) \cup {e} /\ e \in D \ (x \cap s)
      BY <2>2
    <3> QED BY <1>1, <2>1, <3>1
  <2>3. CASE e \notin s
    <3>1. (x \cup {e}) \cap s = x \cap s
      BY <2>3
    <3>2. v[e] = Zero
      BY <2>3
    <3> QED BY <1>1, <2>1, <3>1, <3>2, PlusZero
  <2> QED BY <2>2, <2>3
<1>6. \A x \in SUBSET D : g[x] \in Scalars
  <2>1. \A x \in SUBSET D : x \cap s \in SUBSET D
    OBVIOUS
  <2> QED BY <1>1, <1>2, <2>1
<1>7. Grows(g, v, D)
  BY <1>4, <1>5, <1>6 DEF Grows
<1>8. g[D] = Total(v)
  BY <1>7, GrowsTotal
<1>9. D \cap s = s /\ D \in SUBSET D
  OBVIOUS
<1> QED BY <1>2, <1>8, <1>9

\* A part of a vector is a vector.
LEMMA PartType ==
    ASSUME NEW D, IsFiniteSet(D), NEW v \in [D -> Scalars], NEW s \in SUBSET D
    PROVE  Part(v, s) \in Scalars /\ [k \in s |-> v[k]] \in [s -> Scalars] /\ IsFiniteSet(s)
BY PartLaws, FS_Subset

\* A sum of zeros.
LEMMA AllZero ==
    ASSUME NEW D, IsFiniteSet(D), NEW v \in [D -> Scalars], \A k \in D : v[k] = Zero
    PROVE  Total(v) = Zero
<1>1. Total(v) = Part(v, {})
  BY AllSupport
<1> QED BY <1>1, PartLaws

\* A sum with one entry that is not zero.
LEMMA AllSingle ==
    ASSUME NEW D, IsFiniteSet(D), NEW v \in [D -> Scalars], NEW j \in D,
           \A k \in D : k # j => v[k] = Zero
    PROVE  Total(v) = v[j]
<1>1. Total(v) = Part(v, {j})
  <2>1. {j} \in SUBSET D /\ \A k \in D \ {j} : v[k] = Zero
    OBVIOUS
  <2> QED BY <2>1, AllSupport
<1>2. Part(v, {} \cup {j}) = Plus(Part(v, {}), v[j]) /\ Part(v, {}) = Zero
  <2>1. {} \in SUBSET D /\ j \in D \ {}
    OBVIOUS
  <2> QED BY <2>1, PartLaws
<1>3. {} \cup {j} = {j} /\ v[j] \in Scalars
  OBVIOUS
<1> QED BY <1>1, <1>2, <1>3, PlusZero

\* A sum may be cut in two.
LEMMA AllCut ==
    ASSUME NEW D, IsFiniteSet(D), NEW v \in [D -> Scalars], NEW s \in SUBSET D
    PROVE  Total(v) = Plus(Part(v, s), Part(v, D \ s))
<1> DEFINE a == [k \in D |-> IF k \in s THEN v[k] ELSE Zero]
           b == [k \in D |-> IF k \in s THEN Zero ELSE v[k]]
<1>0. Zero \in Scalars
  BY Closure
<1>1. a \in [D -> Scalars] /\ b \in [D -> Scalars]
  BY <1>0
<1>2. \A k \in D : v[k] = Plus(a[k], b[k])
  BY <1>0, PlusZero
<1>3. \A k \in D \ s : a[k] = Zero
  OBVIOUS
<1>4. \A k \in D \ (D \ s) : b[k] = Zero
  OBVIOUS
<1>5. [k \in s |-> a[k]] = [k \in s |-> v[k]] /\ [k \in D \ s |-> b[k]] = [k \in D \ s |-> v[k]]
  OBVIOUS
<1> HIDE DEF a, b
<1>6. Total(v) = Plus(Total(a), Total(b))
  BY <1>1, <1>2, AllPlus
<1>7. Total(a) = Part(a, s)
  BY <1>1, <1>3, AllSupport
<1>8. Total(b) = Part(b, D \ s)
  <2>1. D \ s \in SUBSET D
    OBVIOUS
  <2> QED BY <1>1, <1>4, <2>1, AllSupport
<1> QED BY <1>5, <1>6, <1>7, <1>8 DEF Part

\* Equal terms have equal sums, and the sum of what is added up is the sum of the sums.
LEMMA AllSwap ==
    ASSUME NEW D, IsFiniteSet(D), NEW E, IsFiniteSet(E), NEW F \in [D -> [E -> Scalars]]
    PROVE  Total([i \in D |-> Total(F[i])]) = Total([k \in E |-> Total([i \in D |-> F[i][k]])])
<1> DEFINE v == [i \in D |-> Total(F[i])]
           col == [k \in E |-> [i \in D |-> F[i][k]]]
           rows == [s \in SUBSET D |-> [k \in E |-> Part(col[k], s)]]
           g == [s \in SUBSET D |-> Total(rows[s])]
<1>1. v \in [D -> Scalars]
  BY TotalType
<1>2. \A k \in E : col[k] \in [D -> Scalars]
  OBVIOUS
<1>3. \A i \in D : v[i] = Total(F[i]) /\ F[i] \in [E -> Scalars]
  OBVIOUS
<1>4. \A k \in E, i \in D : col[k][i] = F[i][k]
  OBVIOUS
<1>5. \A s \in SUBSET D : g[s] = Total(rows[s])
  OBVIOUS
<1>6. \A s \in SUBSET D : \A k \in E : rows[s][k] = Part(col[k], s)
  OBVIOUS
<1>7. \A s \in SUBSET D : rows[s] \in [E -> Scalars]
  <2>1. \A s \in SUBSET D : \A k \in E : Part(col[k], s) \in Scalars
    <3> HIDE DEF col
    <3> QED BY <1>2, PartLaws
  <2> HIDE DEF col
  <2> QED BY <2>1
<1>8. {} \in SUBSET D /\ D \in SUBSET D /\ \A s \in SUBSET D : \A e \in D \ s : s \cup {e} \in SUBSET D
  OBVIOUS
<1>20. /\ Total([i \in D |-> Total(F[i])]) = Total(v)
       /\ rows[D] = [k \in E |-> Part(col[k], D)]
       /\ \A k \in E : col[k] = [i \in D |-> F[i][k]]
  BY <1>8
<1>21. Total([k \in E |-> Total([i \in D |-> F[i][k]])]) = Total([k \in E |-> Total(col[k])])
  OBVIOUS
<1> HIDE DEF v, col, rows, g
<1>9. g[{}] = Zero
  <2>1. \A k \in E : rows[{}][k] = Zero
    BY <1>2, <1>6, <1>8, PartLaws
  <2> QED BY <1>5, <1>7, <1>8, <2>1, AllZero
<1>10. ASSUME NEW s \in SUBSET D, NEW e \in D \ s PROVE g[s \cup {e}] = Plus(g[s], v[e])
  <2> DEFINE t == s \cup {e}
             a == rows[s]
             b == rows[t]
             f == F[e]
  <2>1. t \in SUBSET D /\ e \in D
    OBVIOUS
  <2>2. \A k \in E : b[k] = Plus(a[k], f[k])
    <3> TAKE k \in E
    <3>1. Part(col[k], s \cup {e}) = Plus(Part(col[k], s), col[k][e])
      BY <1>2, PartLaws
    <3> QED BY <1>4, <1>6, <2>1, <3>1
  <2>3. a \in [E -> Scalars] /\ b \in [E -> Scalars] /\ f \in [E -> Scalars]
    BY <1>7, <2>1
  <2>4. g[t] = Total(b) /\ g[s] = Total(a) /\ v[e] = Total(f)
    BY <1>3, <1>5, <2>1
  <2> HIDE DEF a, b, f
  <2>5. Total(b) = Plus(Total(a), Total(f))
    BY <2>2, <2>3, AllPlus
  <2> QED BY <2>4, <2>5
<1>11. \A s \in SUBSET D : g[s] \in Scalars
  BY <1>5, <1>7, TotalType
<1>12. Grows(g, v, D)
  BY <1>9, <1>10, <1>11 DEF Grows
<1>13. g[D] = Total(v)
  BY <1>1, <1>12, GrowsTotal
<1>14. rows[D] = [k \in E |-> Total(col[k])]
  <2>1. \A k \in E : Part(col[k], D) = Total(col[k])
    BY <1>2, PartLaws
  <2> QED BY <1>20, <2>1
<1> QED BY <1>5, <1>8, <1>13, <1>14, <1>20, <1>21

\* A one-to-one change of places does not change a sum.
IsRenamed(w, D, v, E, p) ==
    /\ p \in [D -> E] /\ v \in [E -> Scalars] /\ w \in [D -> Scalars]
    /\ \A i, j \in D : p[i] = p[j] => i = j
    /\ \A k \in E : \E i \in D : p[i] = k
    /\ \A i \in D : w[i] = v[p[i]]

\* A sum does not depend on the names of its places.
LEMMA AllRenamed ==
    ASSUME NEW D, IsFiniteSet(D), NEW E, IsFiniteSet(E), NEW p, NEW v, NEW w,
           IsRenamed(w, D, v, E, p)
    PROVE  Total(w) = Total(v)
<1> DEFINE image(s) == {p[i] : i \in s}
           g == [s \in SUBSET D |-> Part(v, image(s))]
<1>1. /\ p \in [D -> E] /\ \A i, j \in D : p[i] = p[j] => i = j
      /\ \A k \in E : \E i \in D : p[i] = k
      /\ v \in [E -> Scalars] /\ w \in [D -> Scalars] /\ \A i \in D : w[i] = v[p[i]]
  BY DEF IsRenamed
<1>2. \A s \in SUBSET D : g[s] = Part(v, image(s)) /\ image(s) \in SUBSET E
  BY <1>1
<1>3. image({}) = {} /\ image(D) = E /\ {} \in SUBSET D /\ D \in SUBSET D
  BY <1>1
<1>4. \A s \in SUBSET D : \A e \in D \ s :
         /\ image(s \cup {e}) = image(s) \cup {p[e]} /\ p[e] \in E \ image(s)
         /\ s \cup {e} \in SUBSET D
  BY <1>1
<1> HIDE DEF image, g
<1>5. /\ Part(v, {}) = Zero /\ Part(v, E) = Total(v)
      /\ \A s \in SUBSET E : Part(v, s) \in Scalars
      /\ \A s \in SUBSET E : \A e \in E \ s : Part(v, s \cup {e}) = Plus(Part(v, s), v[e])
  BY <1>1, PartLaws
<1>6. ASSUME NEW s \in SUBSET D, NEW e \in D \ s PROVE g[s \cup {e}] = Plus(g[s], w[e])
  <2>1. image(s) \in SUBSET E /\ p[e] \in E \ image(s) /\ w[e] = v[p[e]]
    BY <1>1, <1>2, <1>4
  <2>2. Part(v, image(s) \cup {p[e]}) = Plus(Part(v, image(s)), v[p[e]])
    BY <1>5, <2>1
  <2> QED BY <1>2, <1>4, <2>1, <2>2
<1>7. Grows(g, w, D)
  BY <1>2, <1>3, <1>5, <1>6 DEF Grows
<1>8. g[D] = Total(w)
  BY <1>1, <1>7, GrowsTotal
<1> QED BY <1>2, <1>3, <1>5, <1>8

\* A sum over pairs, row by row.
Double(D, F) == Total([k \in D |-> Total(F[k])])
PairsOf(D, E, v, F) ==
    /\ IsFiniteSet(D) /\ IsFiniteSet(E) /\ v \in [D \X E -> Scalars] /\ F \in [D -> [E -> Scalars]]
    /\ \A i \in D, k \in E : F[i][k] = v[<< i, k >>]

\* A sum over pairs is the sum of its rows.
LEMMA AllPairs ==
    ASSUME NEW D, NEW E, NEW v, NEW F, PairsOf(D, E, v, F)
    PROVE  Total(v) = Double(D, F)
<1>a. /\ IsFiniteSet(D) /\ IsFiniteSet(E) /\ v \in [D \X E -> Scalars] /\ F \in [D -> [E -> Scalars]]
      /\ \A i \in D, k \in E : F[i][k] = v[<< i, k >>]
  BY DEF PairsOf
<1>0. IsFiniteSet(D \X E)
  BY <1>a, FS_Product
<1> DEFINE w == [i \in D |-> Total(F[i])]
           g == [s \in SUBSET D |-> Part(v, s \X E)]
<1>1. w \in [D -> Scalars] /\ \A i \in D : w[i] = Total(F[i]) /\ F[i] \in [E -> Scalars]
  BY <1>a, TotalType
<1>2. \A s \in SUBSET D : g[s] = Part(v, s \X E) /\ s \X E \in SUBSET (D \X E)
  OBVIOUS
<1>3. {} \X E = {} /\ {} \in SUBSET D /\ D \in SUBSET D
  OBVIOUS
<1> HIDE DEF w, g
<1>4. /\ Part(v, {}) = Zero /\ Part(v, D \X E) = Total(v)
      /\ \A s \in SUBSET (D \X E) : Part(v, s) \in Scalars
  BY <1>0, <1>a, PartLaws
<1>5. ASSUME NEW s \in SUBSET D, NEW e \in D \ s PROVE g[s \cup {e}] = Plus(g[s], w[e])
  <2> DEFINE big == (s \cup {e}) \X E
             line == {e} \X E
             u == [q \in big |-> v[q]]
             p == [k \in E |-> <<e, k>>]
  <2>1. /\ big \in SUBSET (D \X E) /\ s \X E \in SUBSET big /\ big \ (s \X E) = line
        /\ u \in [big -> Scalars] /\ s \cup {e} \in SUBSET D /\ e \in D
        /\ line \in SUBSET big
    BY <1>a
  <2>2. IsFiniteSet(big) /\ IsFiniteSet(line)
    BY <1>0, <2>1, FS_Subset
  <2>3. Total(u) = Plus(Part(u, s \X E), Part(u, line))
    <3> HIDE DEF big, line, u
    <3> QED BY <2>1, <2>2, AllCut
  <2>4. Part(u, s \X E) = Part(v, s \X E) /\ Total(u) = Part(v, big)
    <3>1. [q \in s \X E |-> u[q]] = [q \in s \X E |-> v[q]]
      OBVIOUS
    <3> QED BY <3>1 DEF Part
  <2>5. Part(u, line) = Total(F[e])
    <3> DEFINE x == [q \in line |-> u[q]]
               y == F[e]
    <3>2. x \in [line -> Scalars] /\ y \in [E -> Scalars] /\ Part(u, line) = Total(x)
      BY <1>1, <2>1 DEF Part
    <3>3. \A k \in E : y[k] = x[p[k]]
      BY <1>a, <2>1
    <3>1. IsRenamed(y, E, x, line, p)
      <4>1. /\ p \in [E -> line] /\ \A i, j \in E : p[i] = p[j] => i = j
            /\ \A k \in line : \E i \in E : p[i] = k
        OBVIOUS
      <4> HIDE DEF line, x, y, p
      <4> QED BY <3>2, <3>3, <4>1 DEF IsRenamed
    <3> HIDE DEF line, x, y, p, big, u
    <3>4. Total(y) = Total(x)
      <4>1. IsFiniteSet(E) /\ IsFiniteSet(line)
        BY <1>a, <2>2
      <4> QED BY <3>1, <4>1, AllRenamed
    <3>5. Part(u, line) = Total(y)
      BY <3>2, <3>4
    <3> QED BY <3>5 DEF y, line
  <2> QED BY <1>1, <1>2, <2>1, <2>3, <2>4, <2>5 DEF big
<1>6. Grows(g, w, D)
  BY <1>2, <1>3, <1>4, <1>5 DEF Grows
<1>7. g[D] = Total(w)
  BY <1>a, <1>1, <1>6, GrowsTotal
<1> QED BY <1>0, <1>2, <1>3, <1>4, <1>7 DEF w, Double

--------------------------------------------------------------------------------
(***************************************************************************)
(* Inner products, and matrices moved from one side to the other.          *)
(***************************************************************************)
\* More laws of the ring.
LEMMA TimesPlus ==
    ASSUME NEW a \in Scalars, NEW b \in Scalars, NEW c \in Scalars
    PROVE  /\ Times(a, Plus(b, c)) = Plus(Times(a, b), Times(a, c))
           /\ Times(Plus(b, c), a) = Plus(Times(b, a), Times(c, a))
<1>1. Times(Plus(b, c), a) = Plus(Times(b, a), Times(c, a))
  BY Distributes
<1>2. Plus(b, c) \in Scalars
  BY Closure
<1>3. Times(a, Plus(b, c)) = Times(Plus(b, c), a) /\ Times(a, b) = Times(b, a) /\ Times(a, c) = Times(c, a)
  BY <1>2, TimesLaws
<1> QED BY <1>1, <1>3

\* A product of products, regrouped.
LEMMA TimesRegroup ==
    ASSUME NEW a \in Scalars, NEW b \in Scalars, NEW c \in Scalars, NEW d \in Scalars
    PROVE  Times(Times(a, b), Times(c, d)) = Times(Times(a, c), Times(b, d))
<1>1. Times(c, d) \in Scalars /\ Times(b, d) \in Scalars /\ Times(b, c) \in Scalars
  BY Closure
<1>2. Times(Times(a, b), Times(c, d)) = Times(a, Times(b, Times(c, d)))
  BY <1>1, TimesLaws
<1>3. Times(b, Times(c, d)) = Times(Times(b, c), d)
  BY TimesLaws
<1>4. Times(Times(b, c), d) = Times(Times(c, b), d)
  BY TimesLaws
<1>5. Times(Times(c, b), d) = Times(c, Times(b, d))
  BY TimesLaws
<1>6. Times(a, Times(c, Times(b, d))) = Times(Times(a, c), Times(b, d))
  BY <1>1, TimesLaws
<1> QED BY <1>2, <1>3, <1>4, <1>5, <1>6

\* A product of three, reordered.
LEMMA TimesRotate ==
    ASSUME NEW a \in Scalars, NEW b \in Scalars, NEW c \in Scalars
    PROVE  /\ Times(a, Times(b, c)) = Times(b, Times(a, c))
           /\ Times(Times(a, b), c) = Times(Times(a, c), b)
           /\ Times(Times(a, b), c) = Times(a, Times(b, c))
<1>1. Times(b, c) \in Scalars /\ Times(a, c) \in Scalars /\ Times(a, b) \in Scalars
  BY Closure
<1>2. Times(Times(a, b), c) = Times(a, Times(b, c)) /\ Times(Times(b, a), c) = Times(b, Times(a, c))
  BY TimesLaws
<1>3. Times(a, b) = Times(b, a) /\ Times(b, c) = Times(c, b)
  BY TimesLaws
<1>4. Times(Times(a, c), b) = Times(a, Times(c, b))
  BY TimesLaws
<1> QED BY <1>2, <1>3, <1>4

\* Signs of products.
LEMMA MinusTimes ==
    ASSUME NEW a \in Scalars, NEW b \in Scalars
    PROVE  /\ Times(Minus(a), b) = Minus(Times(a, b)) /\ Times(a, Minus(b)) = Minus(Times(a, b))
           /\ Times(Minus(a), Minus(b)) = Times(a, b)
           /\ Minus(a) \in Scalars
<1>1. Minus(a) \in Scalars /\ Minus(b) \in Scalars /\ Times(a, b) \in Scalars
  BY Closure
<1>2. Times(a, Minus(b)) = Minus(Times(a, b))
  BY TimesMinus
<1>3. Times(Minus(a), b) = Times(b, Minus(a)) /\ Times(b, Minus(a)) = Minus(Times(b, a)) /\ Times(b, a) = Times(a, b)
  BY <1>1, TimesLaws, TimesMinus
<1>4. Times(Minus(a), Minus(b)) = Minus(Times(Minus(a), b)) /\ Minus(Minus(Times(a, b))) = Times(a, b)
  BY <1>1, TimesMinus, MinusMinus
<1> QED BY <1>1, <1>2, <1>3, <1>4

\* A term moves to the other side.
LEMMA Transpose ==
    ASSUME NEW a \in Scalars, NEW b \in Scalars, NEW c \in Scalars
    PROVE  a = Plus(b, c) <=> Plus(a, Minus(b)) = c
<1>1. ASSUME a = Plus(b, c) PROVE Plus(a, Minus(b)) = c
  <2>1. Minus(b) \in Scalars
    BY Closure
  <2>2. Plus(b, c) = Plus(c, b)
    BY PlusLaws
  <2>3. Plus(Plus(c, b), Minus(b)) = Plus(c, Plus(b, Minus(b)))
    BY <2>1, PlusLaws
  <2> QED BY <1>1, <2>2, <2>3, PlusZero
<1>2. ASSUME Plus(a, Minus(b)) = c PROVE a = Plus(b, c)
  <2>1. Plus(Plus(a, Minus(b)), b) = a
    BY MinusPlus
  <2>2. Plus(c, b) = Plus(b, c)
    BY PlusLaws
  <2> QED BY <1>2, <2>1, <2>2
<1> QED BY <1>1, <1>2

\* A divisor moves to the other side.
LEMMA Quotient ==
    ASSUME NEW a \in Scalars, NEW b \in Scalars, NEW c \in Scalars, c # Zero
    PROVE  a = Times(b, Reciprocal(c)) <=> Times(a, c) = b
<1>1. Reciprocal(c) \in Scalars /\ Times(c, Reciprocal(c)) = One
  BY ReciprocalType DEF \otimes
<1>2. Times(Reciprocal(c), c) = One
  BY <1>1, TimesLaws
<1>3. Times(Times(b, Reciprocal(c)), c) = Times(b, Times(Reciprocal(c), c)) /\ Times(b, One) = b
  BY <1>1, TimesLaws
<1>4. Times(Times(a, c), Reciprocal(c)) = Times(a, Times(c, Reciprocal(c))) /\ Times(a, One) = a
  BY <1>1, TimesLaws
<1> QED BY <1>1, <1>2, <1>3, <1>4

\* The inverse of what is not zero.
LEMMA ReciprocalNonZero ==
    ASSUME NEW c \in Scalars, c # Zero
    PROVE  Reciprocal(c) \in Scalars /\ Reciprocal(c) # Zero /\ Times(c, Reciprocal(c)) = One
           /\ Times(Reciprocal(c), c) = One
<1>1. Reciprocal(c) \in Scalars /\ Times(c, Reciprocal(c)) = One
  BY ReciprocalType DEF \otimes
<1>2. Times(Reciprocal(c), c) = One
  BY <1>1, TimesLaws
<1>3. Reciprocal(c) # Zero
  BY <1>1, TimesZero, FieldAssumption
<1> QED BY <1>1, <1>2, <1>3

\* Inverses are unique.
LEMMA ReciprocalUnique ==
    ASSUME NEW a \in Scalars, NEW b \in Scalars, Times(a, b) = One
    PROVE  a # Zero /\ b # Zero /\ b = Reciprocal(a)
<1>1. a # Zero /\ b # Zero
  BY TimesZero, FieldAssumption
<1>2. Reciprocal(a) \in Scalars /\ Times(a, Reciprocal(a)) = One
  BY <1>1, ReciprocalNonZero
<1>3. Times(b, a) = One /\ Times(Reciprocal(a), a) = One
  BY <1>2, TimesLaws
<1> QED BY <1>1, <1>2, <1>3, TimesCancel

\* The inverse of a product.
LEMMA ReciprocalTimes ==
    ASSUME NEW a \in Scalars, NEW b \in Scalars, a # Zero, b # Zero
    PROVE  Reciprocal(Times(a, b)) = Times(Reciprocal(a), Reciprocal(b))
<1> DEFINE p == Reciprocal(a)
           q == Reciprocal(b)
<1>1. p \in Scalars /\ Times(a, p) = One /\ q \in Scalars /\ Times(b, q) = One
  BY ReciprocalNonZero
<1> HIDE DEF p, q
<1>2. Times(Times(a, b), Times(p, q)) = Times(Times(a, p), Times(b, q))
  BY <1>1, TimesRegroup
<1>3. One \in Scalars /\ Times(One, One) = One
  BY Closure, TimesLaws
<1>4. Times(a, b) \in Scalars /\ Times(p, q) \in Scalars
  BY <1>1, Closure
<1>5. Times(p, q) = Reciprocal(Times(a, b))
  BY <1>1, <1>2, <1>3, <1>4, ReciprocalUnique
<1> QED BY <1>5 DEF p, q

\* The inner product of two vectors.
Dot(D, x, y) == Total([k \in D |-> Times(x[k], y[k])])

\* The terms of an inner product.
LEMMA DotTerms ==
    ASSUME NEW D, NEW x \in [D -> Scalars], NEW y \in [D -> Scalars]
    PROVE  [k \in D |-> Times(x[k], y[k])] \in [D -> Scalars]
BY Closure

\* An inner product is an exponent.
LEMMA DotType ==
    ASSUME NEW D, IsFiniteSet(D), NEW x \in [D -> Scalars], NEW y \in [D -> Scalars]
    PROVE  Dot(D, x, y) \in Scalars
<1>1. [k \in D |-> Times(x[k], y[k])] \in [D -> Scalars]
  BY DotTerms
<1> QED BY <1>1, TotalType DEF Dot

\* Inner products are symmetric,
LEMMA DotFlip ==
    ASSUME NEW D, NEW x \in [D -> Scalars], NEW y \in [D -> Scalars]
    PROVE  Dot(D, x, y) = Dot(D, y, x)
<1>1. [k \in D |-> Times(x[k], y[k])] = [k \in D |-> Times(y[k], x[k])]
  BY TimesLaws
<1> QED BY <1>1 DEF Dot

\* Scaled(x, c), Added(x, y): vectors by their values.
IsScaled(D, w, x, c) == \A k \in D : w[k] = Times(c, x[k])
IsAdded(D, w, x, y) == \A k \in D : w[k] = Plus(x[k], y[k])
IsDifference(D, w, x, y) == \A k \in D : w[k] = Plus(x[k], Minus(y[k]))

\* scale with either side,
LEMMA DotScale ==
    ASSUME NEW D, IsFiniteSet(D), NEW x \in [D -> Scalars], NEW y \in [D -> Scalars],
           NEW w \in [D -> Scalars], NEW c \in Scalars, IsScaled(D, w, x, c)
    PROVE  /\ Dot(D, w, y) = Times(c, Dot(D, x, y))
           /\ Dot(D, y, w) = Times(c, Dot(D, y, x))
<1> DEFINE f == [k \in D |-> Times(x[k], y[k])]
           g == [k \in D |-> Times(w[k], y[k])]
<1>1. f \in [D -> Scalars] /\ g \in [D -> Scalars]
  BY DotTerms
<1>2. \A k \in D : g[k] = Times(f[k], c)
  <2> TAKE k \in D
  <2>1. x[k] \in Scalars /\ y[k] \in Scalars /\ Times(x[k], y[k]) \in Scalars
    BY Closure
  <2>2. g[k] = Times(Times(c, x[k]), y[k]) /\ f[k] = Times(x[k], y[k])
    BY DEF IsScaled
  <2> QED BY <2>1, <2>2, TimesLaws
<1>3. Dot(D, x, y) = Total(f) /\ Dot(D, w, y) = Total(g)
  BY DEF Dot
<1> HIDE DEF f, g
<1>4. Total(g) = Times(Total(f), c)
  BY <1>1, <1>2, AllScale
<1>5. Dot(D, w, y) = Times(c, Dot(D, x, y))
  BY <1>1, <1>3, <1>4, TotalType, TimesLaws
<1> QED BY <1>5, DotFlip

\* and are additive
LEMMA DotAdd ==
    ASSUME NEW D, IsFiniteSet(D), NEW x \in [D -> Scalars], NEW y \in [D -> Scalars],
           NEW w \in [D -> Scalars], NEW z \in [D -> Scalars], IsAdded(D, w, x, y)
    PROVE  /\ Dot(D, w, z) = Plus(Dot(D, x, z), Dot(D, y, z))
           /\ Dot(D, z, w) = Plus(Dot(D, z, x), Dot(D, z, y))
<1> DEFINE f == [k \in D |-> Times(x[k], z[k])]
           g == [k \in D |-> Times(y[k], z[k])]
           h == [k \in D |-> Times(w[k], z[k])]
<1>1. f \in [D -> Scalars] /\ g \in [D -> Scalars] /\ h \in [D -> Scalars]
  BY DotTerms
<1>2. \A k \in D : h[k] = Plus(f[k], g[k])
  BY Distributes DEF IsAdded
<1>3. Dot(D, x, z) = Total(f) /\ Dot(D, y, z) = Total(g) /\ Dot(D, w, z) = Total(h)
  BY DEF Dot
<1> HIDE DEF f, g, h
<1>4. Total(h) = Plus(Total(f), Total(g))
  BY <1>1, <1>2, AllPlus
<1> QED BY <1>3, <1>4, DotFlip

\* and subtractive in either side.
LEMMA DotSub ==
    ASSUME NEW D, IsFiniteSet(D), NEW x \in [D -> Scalars], NEW y \in [D -> Scalars],
           NEW w \in [D -> Scalars], NEW z \in [D -> Scalars], IsDifference(D, w, x, y)
    PROVE  /\ Dot(D, w, z) = Plus(Dot(D, x, z), Minus(Dot(D, y, z)))
           /\ Dot(D, z, w) = Plus(Dot(D, z, x), Minus(Dot(D, z, y)))
<1>1. IsAdded(D, x, y, w)
  <2>1. \A k \in D : x[k] = Plus(y[k], w[k])
    <3> TAKE k \in D
    <3>1. x[k] \in Scalars /\ y[k] \in Scalars /\ w[k] \in Scalars /\ Plus(x[k], Minus(y[k])) = w[k]
      BY DEF IsDifference
    <3> QED BY <3>1, Transpose
  <2> QED BY <2>1 DEF IsAdded
<1>2. Dot(D, x, z) = Plus(Dot(D, y, z), Dot(D, w, z)) /\ Dot(D, z, x) = Plus(Dot(D, z, y), Dot(D, z, w))
  BY <1>1, DotAdd
<1>3. /\ Dot(D, x, z) \in Scalars /\ Dot(D, y, z) \in Scalars /\ Dot(D, w, z) \in Scalars
      /\ Dot(D, z, x) \in Scalars /\ Dot(D, z, y) \in Scalars /\ Dot(D, z, w) \in Scalars
  BY DotType
<1> QED BY <1>2, <1>3, Transpose

\* A matrix times a column, and a row times a matrix.
Image(D, E, M, y) == [i \in D |-> Dot(E, M[i], y)]
Preimage(D, E, x, M) == [k \in E |-> Dot(D, x, [i \in D |-> M[i][k]])]

\* x (M y) = (x M) y.
LEMMA DotMatrix ==
    ASSUME NEW D, IsFiniteSet(D), NEW E, IsFiniteSet(E), NEW M \in [D -> [E -> Scalars]],
           NEW x \in [D -> Scalars], NEW y \in [E -> Scalars]
    PROVE  /\ Dot(D, x, Image(D, E, M, y)) = Dot(E, Preimage(D, E, x, M), y)
           /\ Image(D, E, M, y) \in [D -> Scalars]
           /\ Preimage(D, E, x, M) \in [E -> Scalars]
<1> DEFINE F == [i \in D |-> [k \in E |-> Times(x[i], Times(M[i][k], y[k]))]]
           G == [k \in E |-> [i \in D |-> M[i][k]]]
           p == [i \in D |-> Dot(E, M[i], y)]
           q == [k \in E |-> Dot(D, x, G[k])]
<1>1. F \in [D -> [E -> Scalars]] /\ G \in [E -> [D -> Scalars]]
  BY Closure
<1>2. p \in [D -> Scalars] /\ q \in [E -> Scalars]
  <2> HIDE DEF F, G
  <2>1. \A i \in D : Dot(E, M[i], y) \in Scalars
    BY DotType
  <2>2. \A k \in E : Dot(D, x, G[k]) \in Scalars
    BY <1>1, DotType
  <2> QED BY <2>1, <2>2
<1>3. \A i \in D : Total(F[i]) = Times(x[i], p[i])
  <2> TAKE i \in D
  <2> DEFINE f == [k \in E |-> Times(M[i][k], y[k])]
             g == F[i]
  <2>1. M[i] \in [E -> Scalars] /\ x[i] \in Scalars
    OBVIOUS
  <2>2. f \in [E -> Scalars] /\ g \in [E -> Scalars]
    BY <1>1, <2>1, DotTerms
  <2>3. \A k \in E : g[k] = Times(f[k], x[i])
    BY <2>1, <2>2, TimesLaws
  <2>4. p[i] = Total(f)
    BY DEF Dot
  <2> HIDE DEF f, g
  <2>5. Total(g) = Times(Total(f), x[i])
    BY <2>1, <2>2, <2>3, AllScale
  <2>6. Total(f) \in Scalars
    BY <2>2, TotalType
  <2> QED BY <2>1, <2>4, <2>5, <2>6, TimesLaws DEF g
<1>4. \A k \in E : Total([i \in D |-> F[i][k]]) = Times(q[k], y[k])
  <2> TAKE k \in E
  <2> DEFINE f == [i \in D |-> Times(x[i], G[k][i])]
             g == [i \in D |-> F[i][k]]
  <2>1. y[k] \in Scalars /\ G[k] \in [D -> Scalars]
    BY <1>1
  <2>2. f \in [D -> Scalars] /\ g \in [D -> Scalars]
    <3>1. f \in [D -> Scalars]
      <4> HIDE DEF G
      <4> QED BY <2>1, DotTerms
    <3> QED BY <1>1, <3>1
  <2>3. \A i \in D : g[i] = Times(f[i], y[k])
    <3> TAKE i \in D
    <3>1. g[i] = Times(x[i], Times(M[i][k], y[k])) /\ f[i] = Times(x[i], M[i][k])
      OBVIOUS
    <3>2. x[i] \in Scalars /\ M[i][k] \in Scalars
      OBVIOUS
    <3> QED BY <2>1, <3>1, <3>2, TimesLaws
  <2>4. q[k] = Total(f)
    BY DEF Dot
  <2> HIDE DEF f, g
  <2>5. Total(g) = Times(Total(f), y[k])
    BY <2>1, <2>2, <2>3, AllScale
  <2> QED BY <2>4, <2>5 DEF g
<1>5. Total([i \in D |-> Total(F[i])]) = Total([k \in E |-> Total([i \in D |-> F[i][k]])])
  <2> HIDE DEF F
  <2> QED BY <1>1, AllSwap
<1>6. Dot(D, x, p) = Total([i \in D |-> Total(F[i])])
  <2>1. [i \in D |-> Times(x[i], p[i])] = [i \in D |-> Total(F[i])]
    <3> HIDE DEF F, p
    <3> QED BY <1>3
  <2> QED BY <2>1 DEF Dot
<1>7. Dot(E, q, y) = Total([k \in E |-> Total([i \in D |-> F[i][k]])])
  <2>1. [k \in E |-> Times(q[k], y[k])] = [k \in E |-> Total([i \in D |-> F[i][k]])]
    <3> HIDE DEF F, q
    <3> QED BY <1>4
  <2> QED BY <2>1 DEF Dot
<1>8. q = Preimage(D, E, x, M) /\ p = Image(D, E, M, y)
  BY DEF Preimage, Image
<1> HIDE DEF F, p, q
<1> QED BY <1>2, <1>5, <1>6, <1>7, <1>8

\* The same in a form that is easy to cite.
IsMove(D, E, M, x, y) ==
    /\ IsFiniteSet(D) /\ IsFiniteSet(E)
    /\ M \in [D -> [E -> Scalars]] /\ x \in [D -> Scalars] /\ y \in [E -> Scalars]

\* DotMatrix, with its typings in one hypothesis.
LEMMA MatrixMove ==
    ASSUME NEW D, NEW E, NEW M, NEW x, NEW y, IsMove(D, E, M, x, y)
    PROVE  /\ Dot(D, x, Image(D, E, M, y)) = Dot(E, Preimage(D, E, x, M), y)
           /\ Image(D, E, M, y) \in [D -> Scalars]
           /\ Preimage(D, E, x, M) \in [E -> Scalars]
<1>1. /\ IsFiniteSet(D) /\ IsFiniteSet(E)
      /\ M \in [D -> [E -> Scalars]] /\ x \in [D -> Scalars] /\ y \in [E -> Scalars]
  BY DEF IsMove
<1>2. Dot(D, x, Image(D, E, M, y)) = Dot(E, Preimage(D, E, x, M), y)
  BY <1>1, DotMatrix
<1>3. Image(D, E, M, y) \in [D -> Scalars] /\ Preimage(D, E, x, M) \in [E -> Scalars]
  BY <1>1, DotMatrix
<1> QED BY <1>2, <1>3

\* The image of a vector is a vector.
LEMMA ImageType ==
    ASSUME NEW D, NEW E, IsFiniteSet(E), NEW M \in [D -> [E -> Scalars]], NEW y \in [E -> Scalars]
    PROVE  Image(D, E, M, y) \in [D -> Scalars]
<1>1. \A i \in D : Dot(E, M[i], y) \in Scalars
  BY DotType
<1> QED BY <1>1 DEF Image

--------------------------------------------------------------------------------
(***************************************************************************)
(* Powers of a root of unity, and the transform of a vector by them.       *)
(***************************************************************************)
\* The powers of the generator of a domain, for any exponent.
Root(n, e) == Power(Element(n, 1), e)

\* The powers of the generator of the domain.
LEMMA RootKit ==
    ASSUME NEW n \in DomainSizes
    PROVE  /\ n \in Nat \ {0} /\ n \in Nat
           /\ \A e \in Nat : Root(n, e) \in Scalars
           /\ Root(n, 0) = One /\ Root(n, n) = One
           /\ \A d, e \in Nat : Root(n, d + e) = Times(Root(n, d), Root(n, e))
           /\ \A k \in Domain(n) : Root(n, k) = Element(n, k)
<1> DEFINE w == Element(n, 1)
<1>1. /\ n \in Nat \ {0} /\ n \in Nat /\ w \in Scalars
      /\ \A i \in 0 .. n * n : Element(n, i) = Power(w, i)
      /\ Element(n, n) = One
  BY RootsAssumption
<1>2. \A i \in 0 .. n : i \in 0 .. n * n
  <2>1. n <= n * n
    BY <1>1
  <2> DEFINE m == n * n
  <2> HIDE DEF m
  <2>2. m \in Nat /\ n <= m
    BY <1>1, <2>1 DEF m
  <2>3. \A i \in 0 .. n : i \in 0 .. m
    BY <1>1, <2>2
  <2> QED BY <2>3 DEF m
<1>3. \A k \in Domain(n) : k \in 0 .. n
  BY <1>1 DEF Domain
<1>4. n \in 0 .. n
  BY <1>1
<1> HIDE DEF w
<1>5. \A e \in Nat : Power(w, e) \in Scalars
  BY <1>1, PowerType
<1>6. Power(w, 0) = One
  BY <1>1, PowerLaws
<1>7. \A d, e \in Nat : Power(w, d + e) = Times(Power(w, d), Power(w, e))
  BY <1>1, PowerPlus
<1> QED BY <1>1, <1>2, <1>3, <1>4, <1>5, <1>6, <1>7 DEF w, Root

\* A root of unity is not zero.
LEMMA RootNonZero ==
    ASSUME NEW n \in DomainSizes, NEW e \in Nat
    PROVE  Root(n, e) \in Scalars /\ Root(n, e) # Zero
<1>1. n \in Nat \ {0} /\ 1 % n \in Domain(n) /\ Element(n, 1) \in Scalars
  BY RootsAssumption DEF Domain
<1>2. Root(n, e) \in Scalars
  BY RootKit
<1> DEFINE w == Element(n, 1)
<1>3. w # Zero
  <2>1. Power(w, n) = One
    BY RootKit DEF Root
  <2>2. SUFFICES ASSUME w = Zero PROVE FALSE
    OBVIOUS
  <2> DEFINE m == n - 1
  <2>3. m \in Nat /\ m + 1 = n
    BY <1>1
  <2> HIDE DEF m, w
  <2>4. w \in Scalars
    BY <1>1 DEF w
  <2>5. Power(w, m + 1) = Times(Power(w, m), w)
    BY <2>3, <2>4, PowerLaws
  <2>6. Power(w, m) \in Scalars
    BY <2>3, <2>4, PowerType
  <2>7. Times(Power(w, m), Zero) = Zero
    BY <2>6, TimesZero
  <2> QED BY <2>1, <2>2, <2>3, <2>5, <2>7, FieldAssumption
<1> HIDE DEF w
<1>4. w \in Scalars
  BY <1>1 DEF w
<1> DEFINE Good == {i \in Nat : Power(w, i) # Zero}
<1>5. 0 \in Good
  BY <1>4, PowerLaws, FieldAssumption
<1>6. ASSUME NEW i \in Nat, i \in Good PROVE i + 1 \in Good
  <2>1. Power(w, i + 1) = Times(Power(w, i), w) /\ Power(w, i) \in Scalars
    BY <1>4, PowerLaws, PowerType
  <2>2. Power(w, i + 1) # Zero
    BY <1>3, <1>4, <1>6, <2>1, TimesNonZero
  <2> QED BY <2>2
<1>7. Nat \subseteq Good
  <2> HIDE DEF Good
  <2> QED BY <1>5, <1>6, SetInduction
<1> QED BY <1>2, <1>7 DEF Root, w

\* The exponent counts modulo n only.
LEMMA RootPeriod ==
    ASSUME NEW n \in DomainSizes, NEW q \in Nat, NEW r \in Nat
    PROVE  Root(n, n * q + r) = Root(n, r)
<1> DEFINE w == Element(n, 1)
<1>1. n \in Nat /\ w \in Scalars
  BY RootsAssumption
<1>2. Power(w, n) = One
  BY RootKit DEF Root
<1> HIDE DEF w
<1>3. Power(Power(w, n), q) = Power(w, n * q)
  BY <1>1, PowerTimes
<1>4. Power(w, n * q) = One
  BY <1>2, <1>3, PowerOne
<1> DEFINE p == n * q
<1>5. p \in Nat
  BY <1>1
<1>6. Power(w, p) = One
  BY <1>4
<1> HIDE DEF p
<1>7. Power(w, p + r) = Times(Power(w, p), Power(w, r)) /\ Power(w, r) \in Scalars
  BY <1>1, <1>5, PowerPlus, PowerType
<1>8. Power(w, p + r) = Power(w, r)
  BY <1>6, <1>7, Closure, TimesLaws
<1> QED BY <1>8 DEF p, w, Root

\* A power of the generator is an element of the domain.
LEMMA RootMod ==
    ASSUME NEW n \in DomainSizes, NEW e \in Nat
    PROVE  /\ e % n \in Domain(n)
           /\ Root(n, e) = Root(n, e % n)
           /\ Root(n, e) = Element(n, e % n)
           /\ Root(n, e) = One <=> e % n = 0
<1>1. n \in Nat \ {0}
  BY RootKit
<1> DEFINE q == e \div n
           r == e % n
<1>2. q \in Nat /\ r \in Nat /\ r \in Domain(n) /\ e = n * q + r
  BY <1>1 DEF Domain
<1> HIDE DEF q, r
<1>3. Root(n, e) = Root(n, r)
  BY <1>2, RootPeriod
<1>4. Root(n, r) = Element(n, r)
  BY <1>2, RootKit
<1>5. r # 0 => Element(n, r) # One
  <2>1. r # 0 => r \in 1 .. n - 1
    BY <1>1, <1>2 DEF Domain
  <2> QED BY <2>1, RootsAssumption
<1>6. r = 0 => Root(n, r) = One
  BY RootKit
<1> QED BY <1>2, <1>3, <1>4, <1>5, <1>6 DEF r

\* Indices as the code computes them.
LEMMA ElementRoot ==
    ASSUME NEW n \in DomainSizes, NEW i \in 0 .. n, NEW k \in Domain(n)
    PROVE  Element(n, i * k) = Root(n, i * k) /\ i * k \in Nat
<1> DEFINE w == Element(n, 1)
<1>1. n \in Nat /\ w \in Scalars /\ i \in Nat /\ k \in Nat
  BY RootsAssumption DEF Domain
<1>2. Element(n, i * k) = Power(Element(n, k), i)
  BY RootLaws
<1>3. Element(n, k) = Power(w, k)
  BY RootKit DEF Root
<1> HIDE DEF w
<1>4. Power(Power(w, k), i) = Power(w, k * i)
  BY <1>1, PowerTimes
<1>5. k * i = i * k /\ i * k \in Nat
  BY <1>1
<1> QED BY <1>2, <1>3, <1>4, <1>5 DEF w, Root

\* The powers of one root add up to n or cancel.
LEMMA Orthogonal ==
    ASSUME NEW n \in DomainSizes, NEW e \in Nat
    PROVE  Total([k \in Domain(n) |-> Root(n, e * k)]) = IF e % n = 0 THEN OfNat(n) ELSE Zero
<1> DEFINE t == Root(n, e)
           w == Element(n, 1)
<1>1. n \in Nat \ {0} /\ n \in Nat /\ t \in Scalars /\ w \in Scalars /\ One \in Scalars
  BY RootKit, Closure, RootsAssumption
<1>2. \A k \in Nat : Root(n, e * k) = Power(t, k)
  <2> TAKE k \in Nat
  <2> HIDE DEF w
  <2>1. Power(Power(w, e), k) = Power(w, e * k)
    BY <1>1, PowerTimes
  <2> QED BY <2>1 DEF w, Root
<1>3. \A k \in Domain(n) : k \in Nat /\ n - k \in Nat
  BY <1>1 DEF Domain
<1>4. \A k \in Domain(n) : Times(Power(One, n - k), Power(t, k)) = Root(n, e * k)
  <2> TAKE k \in Domain(n)
  <2>1. Power(One, n - k) = One
    BY <1>3, PowerOne
  <2>2. Power(t, k) \in Scalars
    BY <1>1, <1>3, PowerType
  <2>3. Times(One, Power(t, k)) = Power(t, k)
    BY <2>2, Closure, TimesLaws
  <2> QED BY <1>2, <1>3, <2>1, <2>3
<1> DEFINE v == [k \in Domain(n) |-> Root(n, e * k)]
<1>5. v = Terms(n, One, t)
  BY <1>4 DEF Terms
<1>6. Power(One, n) = One
  BY <1>1, PowerOne
<1>7. Power(t, n) = One
  <2>1. Root(n, e * n) = Power(t, n)
    BY <1>1, <1>2
  <2>2. e * n = n * e + 0
    BY <1>1
  <2>3. Root(n, n * e + 0) = Root(n, 0)
    BY RootPeriod
  <2> QED BY <2>1, <2>2, <2>3, RootKit
<1>8. CASE e % n = 0
  <2>1. t = One
    BY <1>8, RootMod
  <2>2. v = [k \in Domain(n) |-> One]
    <3>1. \A k \in Domain(n) : Root(n, e * k) = One
      <4> HIDE DEF t
      <4> QED BY <1>2, <1>3, <2>1, PowerOne
    <3> QED BY <3>1
  <2>3. Total(v) = OfNat(n)
    BY <2>2, TotalOnes
  <2> QED BY <1>8, <2>3
<1>9. CASE e % n # 0
  <2>1. t # One
    BY <1>9, RootMod
  <2> HIDE DEF t
  <2>2. /\ v \in [Domain(n) -> Scalars]
        /\ Times(Total(v), t \ominus One) = Times(Vanishing(n, t), One)
    BY <1>1, <1>5, <1>6, Geometric
  <2>3. Vanishing(n, t) = Zero
    BY <1>7, Closure, PlusZero DEF Vanishing, \ominus
  <2>4. Times(Total(v), t \ominus One) = Zero
    BY <2>2, <2>3, Closure, TimesZero
  <2>5. Total(v) \in Scalars /\ t \ominus One \in Scalars
    BY <1>1, <2>2, FirstLaws, MinusType
  <2>6. t \ominus One # Zero
    BY <1>1, <2>1, SubZero
  <2> HIDE DEF v
  <2>7. Total(v) = Zero
    BY <2>4, <2>5, <2>6, TimesNonZero
  <2> QED BY <1>9, <2>7 DEF v
<1> QED BY <1>8, <1>9

\* The values of a polynomial on the domain, from its coefficients.
Dft(n, q) == [k \in Domain(n) |-> Dot(Domain(n), [i \in Domain(n) |-> Root(n, i * k)], q)]

\* Coefficient, with the weights as a vector.
LEMMA CoefficientDot ==
    ASSUME NEW n \in DomainSizes, NEW v \in [Domain(n) -> Scalars], NEW i \in Domain(n)
    PROVE  /\ [k \in Domain(n) |-> Root(n, (n - i) * k)] \in [Domain(n) -> Scalars]
           /\ Coefficient(n, v, i)
                = Times(Reciprocal(OfNat(n)),
                        Dot(Domain(n), [k \in Domain(n) |-> Root(n, (n - i) * k)], v))
           /\ Reciprocal(OfNat(n)) \in Scalars
           /\ Times(Reciprocal(OfNat(n)), OfNat(n)) = One
           /\ OfNat(n) \in Scalars
<1> DEFINE x == [k \in Domain(n) |-> Root(n, (n - i) * k)]
<1>1. n \in Nat /\ n - i \in 0 .. n /\ n - i \in Nat
  <2>1. n \in Nat
    BY RootKit
  <2> QED BY <2>1 DEF Domain
<1>2. \A k \in Domain(n) : Element(n, (n - i) * k) = Root(n, (n - i) * k) /\ (n - i) * k \in Nat
  <2> DEFINE m == n - i
  <2> HIDE DEF m
  <2>1. m \in 0 .. n
    BY <1>1 DEF m
  <2>2. \A k \in Domain(n) : Element(n, m * k) = Root(n, m * k) /\ m * k \in Nat
    BY <2>1, ElementRoot, Zenon
  <2> QED BY <2>2 DEF m
<1>3. x \in [Domain(n) -> Scalars]
  BY <1>2, RootKit
<1>4. \A k \in Domain(n) : v[k] \otimes Element(n, (n - i) * k) = Times(x[k], v[k])
  <2> TAKE k \in Domain(n)
  <2>1. x[k] = Element(n, (n - i) * k) /\ x[k] \in Scalars /\ v[k] \in Scalars
    BY <1>2, <1>3
  <2> HIDE DEF x
  <2> QED BY <2>1, TimesLaws DEF \otimes
<1>5. [k \in Domain(n) |-> v[k] \otimes Element(n, (n - i) * k)] = [k \in Domain(n) |-> Times(x[k], v[k])]
  <2> HIDE DEF x
  <2> QED BY <1>4
<1>6. Coefficient(n, v, i) = Times(Reciprocal(OfNat(n)), Dot(Domain(n), x, v))
  BY <1>5 DEF Coefficient, \otimes, Dot
<1>7. OfNat(n) \in Scalars /\ OfNat(n) # Zero
  BY OfNatType
<1>8. Reciprocal(OfNat(n)) \in Scalars /\ Times(Reciprocal(OfNat(n)), OfNat(n)) = One
  BY <1>7, ReciprocalNonZero
<1> QED BY <1>3, <1>6, <1>7, <1>8

\* A transform is a vector.
LEMMA DftType ==
    ASSUME NEW n \in DomainSizes, NEW q \in [Domain(n) -> Scalars]
    PROVE  /\ Dft(n, q) \in [Domain(n) -> Scalars]
           /\ \A k \in Domain(n) : [i \in Domain(n) |-> Root(n, i * k)] \in [Domain(n) -> Scalars]
           /\ IsFiniteSet(Domain(n))
<1>1. n \in Nat /\ IsFiniteSet(Domain(n))
  BY RootKit, DomainFinite
<1>2. \A k \in Domain(n) : [i \in Domain(n) |-> Root(n, i * k)] \in [Domain(n) -> Scalars]
  <2> TAKE k \in Domain(n)
  <2>1. \A i \in Domain(n) : i * k \in Nat
    BY <1>1 DEF Domain
  <2> QED BY <2>1, RootKit
<1>3. \A k \in Domain(n) : Dot(Domain(n), [i \in Domain(n) |-> Root(n, i * k)], q) \in Scalars
  BY <1>1, <1>2, DotType
<1> QED BY <1>1, <1>2, <1>3 DEF Dft

\* ifft undoes the evaluation.
LEMMA DftInverse ==
    ASSUME NEW n \in DomainSizes, NEW q \in [Domain(n) -> Scalars], NEW i \in Domain(n)
    PROVE  Coefficient(n, Dft(n, q), i) = q[i]
<1> DEFINE D == Domain(n)
           M == [k \in D |-> [j \in D |-> Root(n, j * k)]]
           x == [k \in D |-> Root(n, (n - i) * k)]
           c == Reciprocal(OfNat(n))
           y == Preimage(D, D, x, M)
<1>1. n \in Nat \ {0} /\ n \in Nat /\ IsFiniteSet(D) /\ i \in D /\ i \in Nat /\ n - i \in Nat
  <2>1. n \in Nat \ {0} /\ n \in Nat
    BY RootKit
  <2>2. IsFiniteSet(Domain(n))
    BY <2>1, DomainFinite
  <2> QED BY <2>1, <2>2 DEF Domain
<1>2. M \in [D -> [D -> Scalars]]
  BY DftType
<1>3. x \in [D -> Scalars] /\ c \in Scalars /\ Times(c, OfNat(n)) = One /\ OfNat(n) \in Scalars
      /\ Coefficient(n, Dft(n, q), i) = Times(c, Dot(D, x, Dft(n, q)))
  BY DftType, CoefficientDot
<1>4. Dft(n, q) = Image(D, D, M, q)
  BY DEF Dft, Image
<1>5. \A j \in D : y[j] = IF j = i THEN OfNat(n) ELSE Zero
  <2> TAKE j \in D
  <2> DEFINE e == (n - i) + j
             f == [k \in D |-> Root(n, e * k)]
             g == [k \in D |-> Times(x[k], [h \in D |-> M[h][j]][k])]
  <2>1. j \in Nat /\ e \in Nat
    BY <1>1 DEF Domain
  <2>2. \A k \in D : g[k] = f[k]
    <3> TAKE k \in D
    <3> DEFINE a == (n - i) * k
               b == j * k
    <3>1. a \in Nat /\ b \in Nat /\ a + b = e * k
      <4>1. k \in Nat /\ n - i \in Nat
        BY <1>1 DEF Domain
      <4> DEFINE m == n - i
      <4>2. m \in Nat
        BY <4>1
      <4> HIDE DEF m
      <4>3. m * k + j * k = (m + j) * k /\ m * k \in Nat /\ j * k \in Nat
        BY <2>1, <4>1, <4>2
      <4> QED BY <4>3 DEF m
    <3>2. g[k] = Times(Root(n, a), Root(n, b))
      OBVIOUS
    <3>3. f[k] = Root(n, e * k)
      OBVIOUS
    <3> HIDE DEF a, b, e, f, g
    <3>4. Root(n, a + b) = Times(Root(n, a), Root(n, b))
      BY <3>1, RootKit
    <3> QED BY <3>1, <3>2, <3>3, <3>4
  <2>3. y[j] = Total(f)
    <3>1. g = f
      <4>1. g = [k \in D |-> g[k]] /\ f = [k \in D |-> f[k]]
        OBVIOUS
      <4> HIDE DEF g, f
      <4> QED BY <2>2, <4>1
    <3>2. y[j] = Total(g)
      BY DEF Dot, Preimage
    <3> HIDE DEF g, f, y
    <3> QED BY <3>1, <3>2
  <2>4. e % n = 0 <=> j = i
    <3>1. e \in 1 .. 2 * n - 1 /\ (e = n <=> j = i)
      BY <1>1, <2>1 DEF Domain
    <3> HIDE DEF e
    <3>2. e % n = 0 => e = n
      BY <1>1, <3>1
    <3>3. n % n = 0
      BY <1>1
    <3> QED BY <3>1, <3>2, <3>3
  <2>5. Total(f) = IF e % n = 0 THEN OfNat(n) ELSE Zero
    <3> HIDE DEF e
    <3> QED BY <2>1, Orthogonal
  <2> HIDE DEF e, f, y
  <2> QED BY <2>3, <2>4, <2>5
<1> HIDE DEF x, M
<1>6. y \in [D -> Scalars] /\ Dot(D, x, Image(D, D, M, q)) = Dot(D, y, q)
  <2>1. IsFiniteSet(D) /\ M \in [D -> [D -> Scalars]] /\ x \in [D -> Scalars] /\ q \in [D -> Scalars]
    BY <1>1, <1>2, <1>3
  <2>2. y \in [D -> Scalars]
    BY <2>1, DotMatrix
  <2>3. Dot(D, x, Image(D, D, M, q)) = Dot(D, y, q)
    BY <2>1, DotMatrix
  <2> QED BY <2>2, <2>3
<1>8. Dot(D, y, q) = Times(OfNat(n), q[i])
  <2> DEFINE v == [j \in D |-> Times(y[j], q[j])]
  <2>1. \A j \in D : j # i => v[j] = Zero
    <3> TAKE j \in D
    <3> HAVE j # i
    <3>1. y[j] = Zero
      <4> HIDE DEF y
      <4> QED BY <1>5
    <3>2. q[j] \in Scalars
      OBVIOUS
    <3> HIDE DEF y
    <3> QED BY <3>1, <3>2, TimesZero
  <2>2. v \in [D -> Scalars]
    <3> HIDE DEF y
    <3> QED BY <1>6, DotTerms
  <2>3. v[i] = Times(OfNat(n), q[i])
    <3>1. y[i] = OfNat(n)
      <4> HIDE DEF y
      <4> QED BY <1>1, <1>5
    <3> HIDE DEF y
    <3> QED BY <1>1, <3>1
  <2>4. Dot(D, y, q) = Total(v)
    BY DEF Dot
  <2> HIDE DEF v, y, D
  <2> QED BY <1>1, <2>1, <2>2, <2>3, <2>4, AllSingle
<1>9. Times(c, Times(OfNat(n), q[i])) = q[i]
  <2> DEFINE o == OfNat(n)
             z == q[i]
  <2>1. o \in Scalars /\ z \in Scalars /\ c \in Scalars /\ Times(c, o) = One
    BY <1>3
  <2> HIDE DEF o, z, c
  <2>2. Times(Times(c, o), z) = Times(c, Times(o, z)) /\ Times(One, z) = z
    BY <2>1, Closure, TimesLaws
  <2> QED BY <2>1, <2>2 DEF o, z
<1> HIDE DEF c, y
<1> QED BY <1>3, <1>4, <1>6, <1>8, <1>9

--------------------------------------------------------------------------------
(***************************************************************************)
(* Lagrange polynomials off the domain.                                    *)
(***************************************************************************)
\* Powers of a point, and the Lagrange polynomials at a point, as vectors.
Powers(n, t) == [i \in Domain(n) |-> Power(t, i)]
LagrangeAt(n, t) == [k \in Domain(n) |-> Lagrange(n, k, t)]
Coefficients(n, v) == [i \in Domain(n) |-> Coefficient(n, v, i)]

\* A point that Z does not send to zero is off the domain.
LEMMA OffDomain ==
    ASSUME NEW n \in DomainSizes, NEW t \in Scalars, Vanishing(n, t) # Zero
    PROVE  /\ Vanishing(n, t) \in Scalars
           /\ LagrangeAt(n, t) \in [Domain(n) -> Scalars]
           /\ \A k \in Domain(n) :
                 /\ t # Element(n, k) /\ Element(n, k) \in Scalars
                 /\ Lagrange(n, k, t) \in Scalars
                 /\ Total(Weights(n, k, t)) = Lagrange(n, k, t)
                 /\ Times(Times(OfNat(n), t \ominus Element(n, k)), Lagrange(n, k, t))
                      = Times(Vanishing(n, t), Element(n, k))
<1>1. n \in Nat /\ Vanishing(n, t) \in Scalars
  <2>1. n \in Nat
    BY RootKit
  <2>2. Power(t, n) \in Scalars
    BY <2>1, PowerType
  <2> QED BY <2>1, <2>2, Closure DEF Vanishing, \ominus
<1>2. ASSUME NEW k \in Domain(n)
      PROVE  /\ t # Element(n, k) /\ Element(n, k) \in Scalars
             /\ Lagrange(n, k, t) \in Scalars
             /\ Total(Weights(n, k, t)) = Lagrange(n, k, t)
             /\ Times(Times(OfNat(n), t \ominus Element(n, k)), Lagrange(n, k, t))
                  = Times(Vanishing(n, t), Element(n, k))
  <2> DEFINE x == Element(n, k)
             d == Times(OfNat(n), t \ominus x)
             a == Times(Vanishing(n, t), x)
  <2>1. x \in Scalars /\ Power(x, n) = One
    BY RootLaws
  <2>2. t # x
    <3> SUFFICES ASSUME t = x PROVE FALSE
      OBVIOUS
    <3>1. Vanishing(n, t) = Zero
      BY <2>1, Closure, PlusZero DEF Vanishing, \ominus
    <3> QED BY <3>1
  <2>3. Lagrange(n, k, t) \in Scalars /\ Total(Weights(n, k, t)) = Lagrange(n, k, t)
    BY <2>2, LagrangeType, KernelIs
  <2>4. t \ominus x \in Scalars /\ t \ominus x # Zero
    BY <2>1, <2>2, SubZero, MinusType
  <2>5. d \in Scalars /\ d # Zero /\ a \in Scalars
    <3>1. OfNat(n) \in Scalars /\ OfNat(n) # Zero
      BY OfNatType
    <3> HIDE DEF x
    <3> QED BY <1>1, <2>1, <2>4, <3>1, Closure, TimesNonZero
  <2>6. Lagrange(n, k, t) = Times(a, Reciprocal(d))
    BY DEF Lagrange, \otimes
  <2> HIDE DEF x, d, a
  <2>7. Times(Lagrange(n, k, t), d) = a
    BY <2>3, <2>5, <2>6, Quotient
  <2>8. Times(d, Lagrange(n, k, t)) = a
    BY <2>3, <2>5, <2>7, TimesLaws
  <2> QED BY <2>1, <2>2, <2>3, <2>8 DEF x, d, a
<1> QED BY <1>1, <1>2 DEF LagrangeAt

\* c (x - y) p q, with both c (t - x) p and c (t - y) q known.
AtPoint(c, t, z, x, p) == Times(Times(c, t \ominus x), p) = Times(z, x)
Product(c, z, x, y, p, q) ==
    Times(Times(c, x \ominus y), Times(p, q)) = Times(z, Plus(Times(y, p), Minus(Times(x, q))))

\* The product of two Lagrange polynomials at a point, as a computation in the field.
LEMMA ProductTurn ==
    ASSUME NEW c \in Scalars, NEW t \in Scalars, NEW x \in Scalars, NEW y \in Scalars,
           NEW p \in Scalars, NEW q \in Scalars, NEW z \in Scalars,
           AtPoint(c, t, z, x, p), AtPoint(c, t, z, y, q)
    PROVE  Product(c, z, x, y, p, q)
<1> USE DEF AtPoint, Product
<1> DEFINE d == t \ominus x
           e == t \ominus y
           r == Times(p, q)
           u == Times(c, d)
           v == Times(c, e)
<1>1. d \in Scalars /\ e \in Scalars /\ r \in Scalars /\ u \in Scalars /\ v \in Scalars
  BY MinusType, Closure
<1>2. x \ominus y = e \ominus d
  <2>1. (t \ominus y) \ominus (t \ominus x) = (t \ominus t) \ominus (y \ominus x)
    BY SubSwap
  <2>2. t \ominus t = Zero
    BY ZeroLaws
  <2>3. Zero \ominus (y \ominus x) = x \ominus y
    <3>1. x \ominus x = Zero
      BY ZeroLaws
    <3>2. (x \ominus x) \ominus (y \ominus x) = (x \ominus y) \ominus (x \ominus x)
      BY SubSwap
    <3>3. x \ominus y \in Scalars
      BY MinusType
    <3>4. (x \ominus y) \ominus Zero = x \ominus y
      BY <3>3, ZeroLaws
    <3> QED BY <3>1, <3>2, <3>4
  <2> QED BY <2>1, <2>2, <2>3
<1> HIDE DEF d, e
<1>3. Times(c, e \ominus d) = v \ominus u
  BY <1>1, TimesSub DEF \otimes
<1>4. Times(v \ominus u, r) = Plus(Times(v, r), Minus(Times(u, r)))
  <2> HIDE DEF u, v, r
  <2> QED BY <1>1, TimesSub DEF \otimes, \ominus
<1>5. Times(u, r) = Times(Times(z, x), q)
  <2>1. Times(u, Times(p, q)) = Times(Times(u, p), q)
    BY <1>1, TimesLaws
  <2> QED BY <2>1 DEF d
<1>6. Times(v, r) = Times(Times(z, y), p)
  <2>1. Times(p, q) = Times(q, p)
    BY TimesLaws
  <2>2. Times(v, Times(q, p)) = Times(Times(v, q), p)
    BY <1>1, TimesLaws
  <2> QED BY <2>1, <2>2 DEF e
<1>7. Times(Times(z, y), p) = Times(z, Times(y, p)) /\ Times(Times(z, x), q) = Times(z, Times(x, q))
  BY TimesLaws
<1>8. Plus(Times(z, Times(y, p)), Minus(Times(z, Times(x, q))))
        = Times(z, Plus(Times(y, p), Minus(Times(x, q))))
  <2> DEFINE f == Times(y, p)
             g == Times(x, q)
  <2>1. f \in Scalars /\ g \in Scalars
    BY Closure
  <2> HIDE DEF f, g
  <2>2. z \otimes (f \ominus g) = (z \otimes f) \ominus (z \otimes g)
    BY <2>1, TimesSub
  <2> QED BY <2>2 DEF \otimes, \ominus, f, g
<1> QED BY <1>2, <1>3, <1>4, <1>5, <1>6, <1>7, <1>8

\* One over n (omega^k - omega^m).
GapInverse(n, k, m) == Reciprocal(Times(OfNat(n), Element(n, k) \ominus Element(n, m)))

\* Differences of elements have inverses.
LEMMA InverseType ==
    ASSUME NEW n \in DomainSizes, NEW k \in Domain(n), NEW m \in Domain(n), k # m
    PROVE  /\ Times(OfNat(n), Element(n, k) \ominus Element(n, m)) \in Scalars \ {Zero}
           /\ GapInverse(n, k, m) \in Scalars
           /\ Times(GapInverse(n, k, m), Times(OfNat(n), Element(n, k) \ominus Element(n, m))) = One
<1> DEFINE x == Element(n, k)
           y == Element(n, m)
           c == OfNat(n)
           d == x \ominus y
           e == Times(c, d)
<1>1. x \in Scalars /\ y \in Scalars /\ x # y /\ c \in Scalars /\ c # Zero
  BY RootLaws, RootsDistinct, OfNatType
<1> HIDE DEF x, y, c
<1>2. d \in Scalars /\ d # Zero
  BY <1>1, SubZero, MinusType
<1> HIDE DEF d
<1>3. e \in Scalars /\ e # Zero
  BY <1>1, <1>2, Closure, TimesNonZero
<1> HIDE DEF e
<1>4. Reciprocal(e) \in Scalars /\ Times(Reciprocal(e), e) = One
  BY <1>3, ReciprocalNonZero
<1> QED BY <1>3, <1>4 DEF e, d, c, x, y, GapInverse

\* L_k L_m = Z (omega^m L_k - omega^k L_m) / n (omega^k - omega^m), off the diagonal.
LEMMA LagrangeProduct ==
    ASSUME NEW n \in DomainSizes, NEW t \in Scalars, Vanishing(n, t) # Zero,
           NEW k \in Domain(n), NEW m \in Domain(n), k # m
    PROVE  Times(Lagrange(n, k, t), Lagrange(n, m, t))
             = Times(Vanishing(n, t),
                     Times(GapInverse(n, k, m),
                           Plus(Times(Element(n, m), Lagrange(n, k, t)),
                                Minus(Times(Element(n, k), Lagrange(n, m, t))))))
<1> DEFINE x == Element(n, k)
           y == Element(n, m)
           p == Lagrange(n, k, t)
           q == Lagrange(n, m, t)
           z == Vanishing(n, t)
           c == OfNat(n)
           i == GapInverse(n, k, m)
           d == Times(c, x \ominus y)
           s == Plus(Times(y, p), Minus(Times(x, q)))
           r == Times(p, q)
<1>1. /\ x \in Scalars /\ y \in Scalars /\ p \in Scalars /\ q \in Scalars /\ z \in Scalars
      /\ Times(Times(c, t \ominus x), p) = Times(z, x)
      /\ Times(Times(c, t \ominus y), q) = Times(z, y)
  BY OffDomain
<1>2. c \in Scalars
  BY OfNatType
<1>3. i \in Scalars /\ d \in Scalars /\ Times(i, d) = One
  BY InverseType
<1> HIDE DEF x, y, p, q, z, c, i
<1>4. Times(d, r) = Times(z, s)
  <2>1. AtPoint(c, t, z, x, p) /\ AtPoint(c, t, z, y, q)
    BY <1>1 DEF AtPoint
  <2>2. Product(c, z, x, y, p, q)
    BY <1>1, <1>2, <2>1, ProductTurn
  <2> QED BY <2>2 DEF Product
<1>5. r \in Scalars /\ s \in Scalars
  BY <1>1, Closure
<1> HIDE DEF d, r, s
<1>6. Times(i, Times(d, r)) = Times(Times(i, d), r) /\ Times(One, r) = r
  BY <1>3, <1>5, Closure, TimesLaws
<1>7. Times(i, Times(z, s)) = Times(z, Times(i, s))
  BY <1>1, <1>3, <1>5, TimesRotate
<1>8. r = Times(z, Times(i, s))
  BY <1>3, <1>4, <1>6, <1>7
<1> QED BY <1>8 DEF x, y, p, q, z, i, r, s

\* The polynomial that ifft finds, at a point off the domain.
LEMMA Evaluates ==
    ASSUME NEW n \in DomainSizes, NEW v \in [Domain(n) -> Scalars],
           NEW t \in Scalars, Vanishing(n, t) # Zero
    PROVE  /\ Dot(Domain(n), Coefficients(n, v), Powers(n, t)) = Dot(Domain(n), v, LagrangeAt(n, t))
           /\ Coefficients(n, v) \in [Domain(n) -> Scalars]
           /\ Powers(n, t) \in [Domain(n) -> Scalars]
<1>1. \A i \in Domain(n) : i \in Nat
  BY RootKit DEF Domain
<1>2. Coefficients(n, v) \in [Domain(n) -> Scalars] /\ Powers(n, t) \in [Domain(n) -> Scalars]
  BY <1>1, CoefficientType, PowerType DEF Coefficients, Powers
<1>3. [i \in Domain(n) |-> Coefficient(n, v, i) \otimes Power(t, i)]
        = [i \in Domain(n) |-> Times(Coefficients(n, v)[i], Powers(n, t)[i])]
  BY DEF Coefficients, Powers, \otimes
<1>4. \A k \in Domain(n) : Total(Weights(n, k, t)) = LagrangeAt(n, t)[k]
  BY OffDomain DEF LagrangeAt
<1>5. [k \in Domain(n) |-> Times(v[k], Total(Weights(n, k, t)))]
        = [k \in Domain(n) |-> Times(v[k], LagrangeAt(n, t)[k])]
  BY <1>4
<1>6. Total([i \in Domain(n) |-> Coefficient(n, v, i) \otimes Power(t, i)])
        = Total([k \in Domain(n) |-> Times(v[k], Total(Weights(n, k, t)))])
  BY Interpolates
<1> QED BY <1>2, <1>3, <1>5, <1>6 DEF Dot

\* The Lagrange polynomials add up to one.
LEMMA LagrangeOnes ==
    ASSUME NEW n \in DomainSizes, NEW t \in Scalars, Vanishing(n, t) # Zero
    PROVE  Total(LagrangeAt(n, t)) = One
<1> DEFINE D == Domain(n)
           ones == [k \in D |-> One]
           first == [i \in D |-> IF i = 0 THEN One ELSE Zero]
<1>1. n \in Nat \ {0} /\ n \in Nat /\ 0 \in D /\ Zero \in Scalars /\ One \in Scalars
  BY RootKit, Closure DEF Domain
<1>2. ones \in [D -> Scalars] /\ first \in [D -> Scalars] /\ LagrangeAt(n, t) \in [D -> Scalars]
      /\ IsFiniteSet(D)
  BY <1>1, OffDomain, DomainFinite
<1>3. ones = Dft(n, first)
  <2>1. \A k \in D : Dot(D, [i \in D |-> Root(n, i * k)], first) = One
    <3> TAKE k \in D
    <3> DEFINE x == [i \in D |-> Root(n, i * k)]
               v == [i \in D |-> Times(x[i], first[i])]
    <3>1. x \in [D -> Scalars]
      <4> HIDE DEF first
      <4> QED BY <1>2, DftType
    <3>2. v \in [D -> Scalars] /\ Dot(D, x, first) = Total(v)
      <4> HIDE DEF x, first
      <4> QED BY <1>2, <3>1, DotTerms DEF Dot
    <3>3. \A i \in D : i # 0 => v[i] = Zero
      <4> HIDE DEF x
      <4> QED BY <3>1, TimesZero
    <3>4. v[0] = One
      <4>1. 0 * k = 0
        BY <1>1 DEF Domain
      <4>2. x[0] = One
        BY <1>1, <4>1, RootKit
      <4>3. v[0] = Times(x[0], One)
        BY <1>1
      <4> HIDE DEF v, x
      <4> QED BY <1>1, <4>2, <4>3, TimesLaws
    <3> HIDE DEF v, x, first, D
    <3>5. Total(v) = v[0]
      BY <1>1, <1>2, <3>2, <3>3, AllSingle
    <3> QED BY <3>2, <3>4, <3>5 DEF x
  <2> QED BY <2>1 DEF Dft
<1>4. Coefficients(n, ones) = first
  <2>1. \A i \in D : Coefficient(n, ones, i) = first[i]
    <3> HIDE DEF first, ones
    <3> QED BY <1>2, <1>3, DftInverse
  <2>2. Coefficients(n, ones) = [i \in D |-> Coefficient(n, ones, i)]
    BY DEF Coefficients
  <2>3. first = [i \in D |-> first[i]]
    OBVIOUS
  <2> HIDE DEF first, ones
  <2> QED BY <2>1, <2>2, <2>3
<1>5. Dot(D, first, Powers(n, t)) = Dot(D, ones, LagrangeAt(n, t)) /\ Powers(n, t) \in [D -> Scalars]
  <2> HIDE DEF first, ones
  <2> QED BY <1>2, <1>4, Evaluates
<1>6. Dot(D, first, Powers(n, t)) = One
  <2> DEFINE p == Powers(n, t)
             v == [i \in D |-> Times(first[i], p[i])]
  <2>1. p \in [D -> Scalars]
    BY <1>5
  <2>2. p[0] = One
    BY <1>1, PowerLaws DEF Powers
  <2> HIDE DEF p
  <2>3. v \in [D -> Scalars] /\ Dot(D, first, p) = Total(v)
    <3> HIDE DEF first
    <3> QED BY <1>2, <2>1, DotTerms DEF Dot
  <2>4. \A i \in D : i # 0 => v[i] = Zero
    BY <2>1, TimesZero
  <2>5. v[0] = One
    BY <1>1, <2>2, TimesLaws
  <2> HIDE DEF v, first, D
  <2>6. Total(v) = v[0]
    BY <1>1, <1>2, <2>3, <2>4, AllSingle
  <2> QED BY <2>3, <2>5, <2>6 DEF p
<1>7. Dot(D, ones, LagrangeAt(n, t)) = Total(LagrangeAt(n, t))
  <2> DEFINE l == LagrangeAt(n, t)
  <2>1. l \in [D -> Scalars]
    BY <1>2
  <2> HIDE DEF l
  <2>2. \A k \in D : Times(ones[k], l[k]) = l[k]
    BY <1>1, <2>1, TimesLaws
  <2>3. [k \in D |-> Times(ones[k], l[k])] = l
    <3> HIDE DEF ones
    <3> QED BY <2>1, <2>2
  <2> QED BY <2>3 DEF Dot, l
<1> QED BY <1>5, <1>6, <1>7

--------------------------------------------------------------------------------
(***************************************************************************)
(* Bilinear forms in the Lagrange values, and the polynomial division      *)
(* behind a QAP.                                                           *)
(***************************************************************************)
\* The bilinear form of a matrix, and double sums.
Form(D, b, x, y) == Dot(D, x, Image(D, D, b, y))
Table(D, b, x, y) == [k \in D |-> [m \in D |-> Times(b[k][m], Times(x[k], y[m]))]]

\* A bilinear form and its table.
LEMMA FormType ==
    ASSUME NEW D, IsFiniteSet(D), NEW b \in [D -> [D -> Scalars]],
           NEW x \in [D -> Scalars], NEW y \in [D -> Scalars]
    PROVE  /\ Form(D, b, x, y) \in Scalars
           /\ Image(D, D, b, y) \in [D -> Scalars]
           /\ Table(D, b, x, y) \in [D -> [D -> Scalars]]
<1>1. Image(D, D, b, y) \in [D -> Scalars]
  BY DotMatrix
<1>2. Form(D, b, x, y) \in Scalars
  BY <1>1, DotType DEF Form
<1>3. Table(D, b, x, y) \in [D -> [D -> Scalars]]
  BY Closure DEF Table
<1> QED BY <1>1, <1>2, <1>3

\* A bilinear form is the sum of its table.
LEMMA FormDouble ==
    ASSUME NEW D, IsFiniteSet(D), NEW b \in [D -> [D -> Scalars]],
           NEW x \in [D -> Scalars], NEW y \in [D -> Scalars]
    PROVE  Form(D, b, x, y) = Double(D, Table(D, b, x, y))
<1> DEFINE F == Table(D, b, x, y)
           p == Image(D, D, b, y)
<1>1. F \in [D -> [D -> Scalars]] /\ p \in [D -> Scalars]
  BY FormType
<1>2. \A k \in D : Total(F[k]) = Times(x[k], p[k])
  <2> TAKE k \in D
  <2> DEFINE row == b[k]
             f == [m \in D |-> Times(row[m], y[m])]
             g == F[k]
             c == x[k]
  <2>1. row \in [D -> Scalars] /\ c \in Scalars /\ g \in [D -> Scalars]
    BY <1>1
  <2>2. \A m \in D : g[m] = Times(row[m], Times(c, y[m]))
    BY DEF Table
  <2>3. p[k] = Total(f)
    BY DEF Image, Dot
  <2> HIDE DEF row, g, c, F, p
  <2>4. f \in [D -> Scalars]
    BY <2>1, DotTerms
  <2>5. \A m \in D : g[m] = Times(f[m], c)
    <3> TAKE m \in D
    <3>1. row[m] \in Scalars /\ y[m] \in Scalars /\ c \in Scalars
      BY <2>1
    <3>2. Times(row[m], Times(c, y[m])) = Times(c, Times(row[m], y[m]))
      BY <3>1, TimesRotate
    <3>3. Times(c, Times(row[m], y[m])) = Times(Times(row[m], y[m]), c)
      BY <3>1, Closure, TimesLaws
    <3> QED BY <2>2, <3>2, <3>3
  <2> HIDE DEF f
  <2>6. Total(g) = Times(Total(f), c) /\ Total(f) \in Scalars
    BY <2>1, <2>4, <2>5, AllScale, TotalType
  <2> QED BY <2>1, <2>3, <2>6, TimesLaws DEF g, c
<1>3. [k \in D |-> Times(x[k], p[k])] = [k \in D |-> Total(F[k])]
  <2> HIDE DEF F, p
  <2> QED BY <1>2
<1> QED BY <1>3 DEF Form, Dot, Double

IsCombination(D, H, z, F, G) ==
    /\ IsFiniteSet(D) /\ z \in Scalars
    /\ {F, G, H} \subseteq [D -> [D -> Scalars]]
    /\ \A k \in D : \A m \in D : H[k][m] = Times(z, Plus(F[k][m], Minus(G[k][m])))

IsRow(D, h, z, f, g) ==
    /\ IsFiniteSet(D) /\ z \in Scalars
    /\ {f, g, h} \subseteq [D -> Scalars]
    /\ \A k \in D : h[k] = Times(z, Plus(f[k], Minus(g[k])))

\* A scaled difference of sums,
LEMMA RowCombination ==
    ASSUME NEW D, NEW h, NEW z, NEW f, NEW g, IsRow(D, h, z, f, g)
    PROVE  Total(h) = Times(z, Plus(Total(f), Minus(Total(g))))
<1>0. /\ IsFiniteSet(D) /\ z \in Scalars
      /\ f \in [D -> Scalars] /\ g \in [D -> Scalars] /\ h \in [D -> Scalars]
  BY DEF IsRow
<1> DEFINE e == [k \in D |-> Plus(f[k], Minus(g[k]))]
<1>1. e \in [D -> Scalars] /\ \A k \in D : e[k] = Plus(f[k], Minus(g[k]))
  BY <1>0, Closure
<1> HIDE DEF e
<1>2. \A k \in D : f[k] = Plus(e[k], g[k])
  <2> TAKE k \in D
  <2>1. e[k] = Plus(f[k], Minus(g[k])) /\ f[k] \in Scalars /\ g[k] \in Scalars
    BY <1>0, <1>1
  <2>2. Plus(Plus(f[k], Minus(g[k])), g[k]) = f[k]
    BY <2>1, MinusPlus
  <2> QED BY <2>1, <2>2
<1>3. Total(f) = Plus(Total(e), Total(g))
  BY <1>0, <1>1, <1>2, AllPlus
<1>4. \A k \in D : h[k] = Times(e[k], z)
  BY <1>0, <1>1, TimesLaws DEF IsRow
<1>5. Total(h) = Times(Total(e), z)
  BY <1>0, <1>1, <1>4, AllScale
<1>6. Total(e) \in Scalars /\ Total(f) \in Scalars /\ Total(g) \in Scalars
  BY <1>0, <1>1, TotalType
<1>7. Plus(Total(f), Minus(Total(g))) = Total(e)
  <2>1. Plus(Total(e), Total(g)) = Plus(Total(g), Total(e))
    BY <1>6, PlusLaws
  <2> QED BY <1>3, <1>6, <2>1, Transpose
<1> QED BY <1>0, <1>5, <1>6, <1>7, TimesLaws

\* the type of a double sum,
LEMMA DoubleType ==
    ASSUME NEW D, IsFiniteSet(D), NEW F \in [D -> [D -> Scalars]]
    PROVE  Double(D, F) \in Scalars /\ \A k \in D : Total(F[k]) \in Scalars
<1>1. \A k \in D : Total(F[k]) \in Scalars
  BY TotalType
<1> DEFINE v == [k \in D |-> Total(F[k])]
<1>2. v \in [D -> Scalars]
  BY <1>1
<1> HIDE DEF v
<1>3. Total(v) \in Scalars
  BY <1>2, TotalType
<1> QED BY <1>1, <1>3 DEF v, Double

\* and a scaled difference of double sums.
LEMMA DoubleCombination ==
    ASSUME NEW D, NEW H, NEW z, NEW F, NEW G, IsCombination(D, H, z, F, G)
    PROVE  Double(D, H) = Times(z, Plus(Double(D, F), Minus(Double(D, G))))
<1> DEFINE f == [k \in D |-> Total(F[k])]
           g == [k \in D |-> Total(G[k])]
           h == [k \in D |-> Total(H[k])]
<1>1. IsFiniteSet(D) /\ z \in Scalars
  BY DEF IsCombination
<1>2. F \in [D -> [D -> Scalars]] /\ G \in [D -> [D -> Scalars]] /\ H \in [D -> [D -> Scalars]]
  BY DEF IsCombination
<1>3. f \in [D -> Scalars] /\ g \in [D -> Scalars] /\ h \in [D -> Scalars]
  BY <1>1, <1>2, DoubleType
<1>4. \A k \in D : h[k] = Times(z, Plus(f[k], Minus(g[k])))
  <2> TAKE k \in D
  <2> DEFINE hk == H[k]
             fk == F[k]
             gk == G[k]
  <2>1. hk \in [D -> Scalars] /\ fk \in [D -> Scalars] /\ gk \in [D -> Scalars]
    BY <1>2
  <2>2. \A m \in D : hk[m] = Times(z, Plus(fk[m], Minus(gk[m])))
    BY DEF IsCombination
  <2> HIDE DEF hk, fk, gk
  <2>3. IsRow(D, hk, z, fk, gk)
    BY <1>1, <2>1, <2>2 DEF IsRow
  <2>4. Total(hk) = Times(z, Plus(Total(fk), Minus(Total(gk))))
    BY <2>3, RowCombination
  <2> QED BY <2>4 DEF hk, fk, gk
<1>5. Double(D, F) = Total(f) /\ Double(D, G) = Total(g) /\ Double(D, H) = Total(h)
  BY DEF Double
<1> HIDE DEF f, g, h
<1>6. IsRow(D, h, z, f, g)
  BY <1>1, <1>3, <1>4 DEF IsRow
<1> QED BY <1>5, <1>6, RowCombination

\* The entries of T over n (omega^k - omega^m), and the values on the domain of the
\* polynomial that has them as partial fractions.
Fractions(n, T) ==
    [k \in Domain(n) |-> [m \in Domain(n) |->
        IF k = m THEN Zero ELSE Times(T[k][m], GapInverse(n, k, m))]]
Elements(n) == [k \in Domain(n) |-> Element(n, k)]
Residues(n, T) ==
    LET D == Domain(n)
        b == Fractions(n, T)
        first == Image(D, D, b, Elements(n))
        second == Preimage(D, D, Elements(n), b)
    IN  [k \in D |-> Plus(first[k], Minus(second[k]))]
HollowTable(n, T) ==
    /\ T \in [Domain(n) -> [Domain(n) -> Scalars]]
    /\ \A k \in Domain(n) : T[k][k] = Zero

\* The partial fractions of a hollow table.
LEMMA FractionsType ==
    ASSUME NEW n \in DomainSizes, NEW T, HollowTable(n, T)
    PROVE  /\ Fractions(n, T) \in [Domain(n) -> [Domain(n) -> Scalars]]
           /\ Elements(n) \in [Domain(n) -> Scalars]
           /\ Residues(n, T) \in [Domain(n) -> Scalars]
           /\ IsFiniteSet(Domain(n))
<1> DEFINE D == Domain(n)
           b == Fractions(n, T)
           first == Image(D, D, b, Elements(n))
           second == Preimage(D, D, Elements(n), b)
<1>0. IsFiniteSet(D)
  BY RootKit, DomainFinite
<1>1. b \in [D -> [D -> Scalars]]
  <2>1. \A k, m \in D : k # m => Times(T[k][m], GapInverse(n, k, m)) \in Scalars
    <3> TAKE k, m \in D
    <3> HAVE k # m
    <3>1. GapInverse(n, k, m) \in Scalars
      BY InverseType
    <3>2. T[k][m] \in Scalars
      BY DEF HollowTable
    <3> QED BY <3>1, <3>2, Closure
  <2> QED BY <2>1, Closure DEF Fractions
<1>2. Elements(n) \in [D -> Scalars]
  BY RootLaws DEF Elements
<1>3. first \in [D -> Scalars] /\ second \in [D -> Scalars]
  <2> HIDE DEF b, D
  <2> QED BY <1>0, <1>1, <1>2, DotMatrix
<1>4. Residues(n, T) = [k \in D |-> Plus(first[k], Minus(second[k]))]
  BY DEF Residues
<1> HIDE DEF first, second, b, D
<1>5. Residues(n, T) \in [D -> Scalars]
  BY <1>3, <1>4, Closure
<1> QED BY <1>0, <1>1, <1>2, <1>5 DEF D, b

\* The functional of the residues is the antisymmetric part of the form.
LEMMA ResiduesDot ==
    ASSUME NEW n \in DomainSizes, NEW T, HollowTable(n, T), NEW y \in [Domain(n) -> Scalars]
    PROVE  Dot(Domain(n), Residues(n, T), y)
             = Plus(Form(Domain(n), Fractions(n, T), y, Elements(n)),
                    Minus(Form(Domain(n), Fractions(n, T), Elements(n), y)))
<1> DEFINE D == Domain(n)
           b == Fractions(n, T)
           w == Elements(n)
           first == Image(D, D, b, w)
           second == Preimage(D, D, w, b)
           a == Residues(n, T)
<1>1. /\ IsFiniteSet(D) /\ b \in [D -> [D -> Scalars]] /\ w \in [D -> Scalars]
      /\ a \in [D -> Scalars] /\ y \in [D -> Scalars]
  BY FractionsType
<1>2. a = [k \in D |-> Plus(first[k], Minus(second[k]))]
  BY DEF Residues
<1> HIDE DEF D, b, w, a
<1>3. first \in [D -> Scalars] /\ second \in [D -> Scalars]
  BY <1>1, DotMatrix
<1>4. IsDifference(D, a, first, second)
  BY <1>2, <1>3 DEF IsDifference
<1>5. Dot(D, second, y) = Dot(D, w, Image(D, D, b, y))
  BY <1>1, DotMatrix
<1> HIDE DEF first, second
<1>6. Dot(D, a, y) = Plus(Dot(D, first, y), Minus(Dot(D, second, y)))
  BY <1>1, <1>3, <1>4, DotSub
<1>7. Dot(D, first, y) = Dot(D, y, first)
  BY <1>1, <1>3, DotFlip
<1> QED BY <1>5, <1>6, <1>7 DEF Form, first, a, b, D, w

\* The residues have no coefficient of the highest degree.
LEMMA ResiduesBalance ==
    ASSUME NEW n \in DomainSizes, NEW T, HollowTable(n, T)
    PROVE  Dot(Domain(n), Residues(n, T), Elements(n)) = Zero
<1> DEFINE f == Form(Domain(n), Fractions(n, T), Elements(n), Elements(n))
<1>1. f \in Scalars
  BY FractionsType, FormType
<1>2. Elements(n) \in [Domain(n) -> Scalars]
  BY FractionsType
<1>3. Dot(Domain(n), Residues(n, T), Elements(n)) = Plus(f, Minus(f))
  BY <1>2, ResiduesDot
<1> HIDE DEF f
<1> QED BY <1>1, <1>3, PlusZero

\* Over Z, the form of T at the Lagrange polynomials is a polynomial.
LEMMA ResiduesDivide ==
    ASSUME NEW n \in DomainSizes, NEW T, HollowTable(n, T),
           NEW t \in Scalars, Vanishing(n, t) # Zero
    PROVE  Form(Domain(n), T, LagrangeAt(n, t), LagrangeAt(n, t))
             = Times(Vanishing(n, t), Dot(Domain(n), Residues(n, T), LagrangeAt(n, t)))
<1> DEFINE D == Domain(n)
           b == Fractions(n, T)
           w == Elements(n)
           l == LagrangeAt(n, t)
           z == Vanishing(n, t)
           H == Table(D, T, l, l)
           F == Table(D, b, l, w)
           G == Table(D, b, w, l)
<1>1. /\ IsFiniteSet(D) /\ b \in [D -> [D -> Scalars]] /\ w \in [D -> Scalars]
      /\ l \in [D -> Scalars] /\ T \in [D -> [D -> Scalars]] /\ z \in Scalars
  BY FractionsType, OffDomain DEF HollowTable
<1>2. \A k \in D : \A m \in D : H[k][m] = Times(z, Plus(F[k][m], Minus(G[k][m])))
  <2> SUFFICES ASSUME NEW k \in D, NEW m \in D
               PROVE  H[k][m] = Times(z, Plus(F[k][m], Minus(G[k][m])))
    OBVIOUS
  <2> DEFINE p == l[k]
             q == l[m]
             x == w[k]
             y == w[m]
             e == T[k][m]
  <2>1. p \in Scalars /\ q \in Scalars /\ x \in Scalars /\ y \in Scalars /\ e \in Scalars
    <3> HIDE DEF l, w, D
    <3> QED BY <1>1
  <2>2. H[k][m] = Times(e, Times(p, q)) /\ F[k][m] = Times(b[k][m], Times(p, y))
        /\ G[k][m] = Times(b[k][m], Times(x, q))
    <3> HIDE DEF l, w, b, D
    <3> QED BY DEF Table
  <2>3. CASE k = m
    <3>1. e = Zero /\ b[k][m] = Zero
      BY <2>3 DEF HollowTable, Fractions
    <3>2. Times(p, q) \in Scalars /\ Times(p, y) \in Scalars /\ Times(x, q) \in Scalars /\ Zero \in Scalars
      <4> HIDE DEF p, q, x, y
      <4> QED BY <2>1, Closure
    <3>3. H[k][m] = Zero /\ F[k][m] = Zero /\ G[k][m] = Zero
      <4> DEFINE pq == Times(p, q)
                 py == Times(p, y)
                 xq == Times(x, q)
                 bb == b[k][m]
      <4>1. H[k][m] = Times(e, pq) /\ F[k][m] = Times(bb, py) /\ G[k][m] = Times(bb, xq) /\ bb = Zero
            /\ pq \in Scalars /\ py \in Scalars /\ xq \in Scalars
        BY <2>2, <3>1, <3>2
      <4> HIDE DEF pq, py, xq, bb, e, H, F, G
      <4> QED BY <3>1, <4>1, TimesZero
    <3>4. Plus(Zero, Minus(Zero)) = Zero /\ Times(z, Zero) = Zero
      BY <1>1, <3>2, PlusZero, TimesZero
    <3> HIDE DEF H, F, G
    <3> QED BY <3>3, <3>4
  <2>4. CASE k # m
    <3> DEFINE i == GapInverse(n, k, m)
               s == Times(y, p)
               u == Times(x, q)
    <3>1. b[k][m] = Times(e, i)
      BY <2>4 DEF Fractions
    <3>2. i \in Scalars
      BY <2>4, InverseType
    <3>3. Times(p, q) = Times(z, Times(i, Plus(s, Minus(u))))
      <4>1. p = Lagrange(n, k, t) /\ q = Lagrange(n, m, t) /\ x = Element(n, k) /\ y = Element(n, m)
        BY DEF LagrangeAt, Elements
      <4>2. k \in Domain(n) /\ m \in Domain(n)
        OBVIOUS
      <4> HIDE DEF p, q, x, y, D
      <4> QED BY <2>4, <4>1, <4>2, LagrangeProduct
    <3>4. Times(p, y) = s
      <4> HIDE DEF p, y
      <4> QED BY <2>1, TimesLaws
    <3>5. s \in Scalars /\ u \in Scalars
      <4> HIDE DEF p, q, x, y
      <4> QED BY <2>1, Closure
    <3> DEFINE a == Times(e, i)
    <3>6. H[k][m] = Times(e, Times(z, Times(i, Plus(s, Minus(u)))))
          /\ F[k][m] = Times(a, s) /\ G[k][m] = Times(a, u)
      BY <2>2, <3>1, <3>3, <3>4
    <3> HIDE DEF i, s, u, p, q, x, y, e, H, F, G, z
    <3> DEFINE d == Plus(s, Minus(u))
    <3>7. a \in Scalars /\ d \in Scalars /\ Times(i, d) \in Scalars
      BY <2>1, <3>2, <3>5, Closure
    <3>8. Plus(Times(a, s), Minus(Times(a, u))) = Times(a, d)
      <4>1. a \otimes (s \ominus u) = (a \otimes s) \ominus (a \otimes u)
        BY <3>5, <3>7, TimesSub
      <4> QED BY <4>1 DEF \otimes, \ominus
    <3> HIDE DEF d
    <3>9. Times(e, Times(z, Times(i, d))) = Times(z, Times(e, Times(i, d)))
      BY <1>1, <2>1, <3>7, TimesRotate
    <3>10. Times(e, Times(i, d)) = Times(a, d)
      BY <2>1, <3>2, <3>7, TimesLaws
    <3> QED BY <3>6, <3>8, <3>9, <3>10 DEF d
  <2> QED BY <2>3, <2>4
<1> HIDE DEF D, b, w, l, z
<1>3. H \in [D -> [D -> Scalars]] /\ F \in [D -> [D -> Scalars]] /\ G \in [D -> [D -> Scalars]]
  BY <1>1, FormType
<1>4. Form(D, T, l, l) = Double(D, H) /\ Form(D, b, l, w) = Double(D, F) /\ Form(D, b, w, l) = Double(D, G)
  BY <1>1, FormDouble
<1> HIDE DEF H, F, G
<1>5. Double(D, H) = Times(z, Plus(Double(D, F), Minus(Double(D, G))))
  <2>1. IsCombination(D, H, z, F, G)
    BY <1>1, <1>2, <1>3 DEF IsCombination
  <2> QED BY <2>1, DoubleCombination
<1>6. Dot(D, Residues(n, T), l) = Plus(Form(D, b, l, w), Minus(Form(D, b, w, l)))
  BY <1>1, ResiduesDot DEF D, b, w, l
<1> QED BY <1>4, <1>5, <1>6 DEF D, b, w, l, z

\* U_k (V_m - V_k): its form at the Lagrange polynomials is U V minus the polynomial
\* of degree below n with the values U_k V_k.
Cross(D, u, v) == [k \in D |-> [m \in D |-> Times(u[k], Plus(v[m], Minus(v[k])))]]
Products(D, u, v) == [k \in D |-> Times(u[k], v[k])]

\* The table of u_k (v_m - v_k) is hollow.
LEMMA CrossHollow ==
    ASSUME NEW n, NEW u \in [Domain(n) -> Scalars], NEW v \in [Domain(n) -> Scalars]
    PROVE  HollowTable(n, Cross(Domain(n), u, v))
<1>1. \A k \in Domain(n) : \A m \in Domain(n) : Times(u[k], Plus(v[m], Minus(v[k]))) \in Scalars
  BY Closure
<1>2. \A k \in Domain(n) : Times(u[k], Plus(v[k], Minus(v[k]))) = Zero
  BY PlusZero, TimesZero
<1> QED BY <1>1, <1>2 DEF Cross, HollowTable

\* An inner product with a constant.
LEMMA DotConstant ==
    ASSUME NEW D, IsFiniteSet(D), NEW c \in Scalars, NEW l \in [D -> Scalars]
    PROVE  Dot(D, [m \in D |-> c], l) = Times(c, Total(l))
<1> DEFINE w == [m \in D |-> Times(c, l[m])]
<1>1. w \in [D -> Scalars] /\ \A m \in D : w[m] = Times(l[m], c)
  BY Closure, TimesLaws
<1>2. Dot(D, [m \in D |-> c], l) = Total(w)
  BY DEF Dot
<1> HIDE DEF w
<1>3. Total(w) = Times(Total(l), c) /\ Total(l) \in Scalars
  BY <1>1, AllScale, TotalType
<1> QED BY <1>2, <1>3, TimesLaws

\* Its form at the Lagrange values is u v less the values of the pointwise product.
LEMMA CrossForm ==
    ASSUME NEW D, IsFiniteSet(D), NEW u \in [D -> Scalars], NEW v \in [D -> Scalars],
           NEW l \in [D -> Scalars], Total(l) = One
    PROVE  Form(D, Cross(D, u, v), l, l)
             = Plus(Times(Dot(D, u, l), Dot(D, v, l)), Minus(Dot(D, Products(D, u, v), l)))
<1> DEFINE T == Cross(D, u, v)
           p == Image(D, D, T, l)
           a == Dot(D, v, l)
           f == [k \in D |-> Times(a, u[k])]
           g == Products(D, u, v)
<1>1. a \in Scalars
  BY DotType
<1>2. \A k \in D : p[k] = Plus(f[k], Minus(g[k]))
  <2> TAKE k \in D
  <2> DEFINE c == u[k]
             d == v[k]
             const == [m \in D |-> d]
             e == [m \in D |-> Plus(v[m], Minus(const[m]))]
             row == T[k]
  <2>1. c \in Scalars /\ d \in Scalars /\ const \in [D -> Scalars]
    OBVIOUS
  <2>2. e \in [D -> Scalars]
    BY Closure
  <2>3. IsDifference(D, e, v, const)
    BY DEF IsDifference
  <2>4. row \in [D -> Scalars] /\ IsScaled(D, row, e, c)
    BY Closure DEF Cross, IsScaled
  <2>5. Dot(D, const, l) = Times(d, One)
    <3> HIDE DEF d
    <3> QED BY <2>1, DotConstant
  <2>6. p[k] = Dot(D, row, l) /\ f[k] = Times(a, c) /\ g[k] = Times(c, d)
    BY DEF Image, Products
  <2> HIDE DEF p, row, e, const, c, d, a, f, g
  <2>7. Dot(D, e, l) = Plus(a, Minus(Dot(D, const, l)))
    BY <2>1, <2>2, <2>3, DotSub DEF a
  <2>8. Dot(D, row, l) = Times(c, Dot(D, e, l))
    BY <2>1, <2>2, <2>4, DotScale
  <2>9. Dot(D, const, l) = d
    BY <2>1, <2>5, TimesLaws
  <2>10. c \otimes (a \ominus d) = (c \otimes a) \ominus (c \otimes d)
    BY <1>1, <2>1, TimesSub
  <2>11. Times(c, a) = Times(a, c)
    BY <1>1, <2>1, TimesLaws
  <2> QED BY <2>6, <2>7, <2>8, <2>9, <2>10, <2>11 DEF \otimes, \ominus
<1>3. T \in [D -> [D -> Scalars]]
  BY Closure DEF Cross
<1>4. p \in [D -> Scalars]
  <2> HIDE DEF T
  <2> QED BY <1>3, DotMatrix
<1>5. f \in [D -> Scalars] /\ g \in [D -> Scalars]
  <2> HIDE DEF a
  <2> QED BY <1>1, Closure DEF Products
<1>6. IsScaled(D, f, u, a)
  BY DEF IsScaled
<1>7. Form(D, T, l, l) = Dot(D, l, p)
  BY DEF Form
<1> HIDE DEF T, p, a, f, g
<1>8. IsDifference(D, p, f, g)
  BY <1>2 DEF IsDifference
<1>9. Dot(D, l, p) = Plus(Dot(D, l, f), Minus(Dot(D, l, g)))
  BY <1>4, <1>5, <1>8, DotSub
<1>10. Dot(D, l, f) = Times(a, Dot(D, l, u))
  BY <1>1, <1>5, <1>6, DotScale
<1>11. Dot(D, l, u) = Dot(D, u, l) /\ Dot(D, l, g) = Dot(D, g, l) /\ Dot(D, u, l) \in Scalars
  BY <1>5, DotFlip, DotType
<1>12. Times(a, Dot(D, u, l)) = Times(Dot(D, u, l), a)
  BY <1>1, <1>11, TimesLaws
<1> QED BY <1>7, <1>9, <1>10, <1>11, <1>12 DEF a, T, g

\* U V minus the polynomial of degree below n with the values U_k V_k is a multiple of Z,
\* and its quotient has degree at most n - 2.
QuotientOf(n, u, v) == Coefficients(n, Residues(n, Cross(Domain(n), u, v)))

\* What is left of u v after the values on the domain is a multiple of Z.
LEMMA Division ==
    ASSUME NEW n \in DomainSizes, NEW u \in [Domain(n) -> Scalars], NEW v \in [Domain(n) -> Scalars],
           NEW t \in Scalars, Vanishing(n, t) # Zero
    PROVE  Times(Vanishing(n, t), Dot(Domain(n), QuotientOf(n, u, v), Powers(n, t)))
             = Plus(Times(Dot(Domain(n), u, LagrangeAt(n, t)), Dot(Domain(n), v, LagrangeAt(n, t))),
                    Minus(Dot(Domain(n), Products(Domain(n), u, v), LagrangeAt(n, t))))
<1> DEFINE D == Domain(n)
           T == Cross(D, u, v)
           l == LagrangeAt(n, t)
           r == Residues(n, T)
<1>1. HollowTable(n, T)
  BY CrossHollow
<1>2. IsFiniteSet(D) /\ r \in [D -> Scalars] /\ l \in [D -> Scalars]
  BY <1>1, FractionsType, OffDomain
<1>3. Total(l) = One
  BY LagrangeOnes
<1> HIDE DEF T, l, r
<1>4. Form(D, T, l, l) = Plus(Times(Dot(D, u, l), Dot(D, v, l)), Minus(Dot(D, Products(D, u, v), l)))
  BY <1>2, <1>3, CrossForm DEF T
<1>5. Form(D, T, l, l) = Times(Vanishing(n, t), Dot(D, r, l))
  BY <1>1, ResiduesDivide DEF r, l
<1>6. Dot(D, Coefficients(n, r), Powers(n, t)) = Dot(D, r, l)
  BY <1>2, Evaluates DEF l
<1> QED BY <1>4, <1>5, <1>6 DEF T, l, r, QuotientOf

\* The quotient has no coefficient of the highest degree.
LEMMA QuotientDegree ==
    ASSUME NEW n \in DomainSizes, NEW u \in [Domain(n) -> Scalars], NEW v \in [Domain(n) -> Scalars]
    PROVE  /\ QuotientOf(n, u, v) \in [Domain(n) -> Scalars]
           /\ QuotientOf(n, u, v)[n - 1] = Zero
<1> DEFINE D == Domain(n)
           T == Cross(D, u, v)
           r == Residues(n, T)
           x == [k \in D |-> Root(n, (n - (n - 1)) * k)]
<1>1. n \in Nat \ {0} /\ n \in Nat
  BY RootKit
<1>2. n - 1 \in D /\ \A k \in D : k \in Nat /\ (n - (n - 1)) * k = k
  BY <1>1 DEF Domain
<1>3. HollowTable(n, T)
  BY CrossHollow
<1>4. r \in [D -> Scalars] /\ IsFiniteSet(D) /\ Elements(n) \in [D -> Scalars]
  BY <1>3, FractionsType
<1>5. x = Elements(n)
  BY <1>2, RootKit DEF Elements
<1>6. Dot(D, r, Elements(n)) = Zero
  BY <1>3, ResiduesBalance
<1>7. Dot(D, Elements(n), r) = Zero
  <2> HIDE DEF r
  <2> QED BY <1>4, <1>6, DotFlip
<1> HIDE DEF r, T
<1>8. /\ Coefficient(n, r, n - 1) = Times(Reciprocal(OfNat(n)), Dot(D, x, r))
      /\ Reciprocal(OfNat(n)) \in Scalars
  <2> DEFINE m == n - 1
  <2>1. m \in D
    BY <1>2
  <2> HIDE DEF m
  <2>2. /\ Coefficient(n, r, m)
             = Times(Reciprocal(OfNat(n)), Dot(D, [k \in D |-> Root(n, (n - m) * k)], r))
        /\ Reciprocal(OfNat(n)) \in Scalars
    BY <1>4, <2>1, CoefficientDot
  <2> QED BY <2>2 DEF m
<1>9. Coefficient(n, r, n - 1) = Zero
  BY <1>5, <1>7, <1>8, TimesZero
<1>10. Coefficients(n, r) \in [D -> Scalars]
  BY <1>4, CoefficientType DEF Coefficients
<1> QED BY <1>2, <1>9, <1>10 DEF QuotientOf, Coefficients, r, T

--------------------------------------------------------------------------------
(***************************************************************************)
(* Powers of two, quotients and remainders.                                *)
(***************************************************************************)
\* Quotient and remainder.
LEMMA DivMod ==
    ASSUME NEW m \in Nat \ {0}, NEW q \in Nat, NEW i \in 0 .. m - 1
    PROVE  (q * m + i) % m = i /\ (q * m + i) \div m = q
<1> DEFINE x == q * m + i
           d == x \div m
           r == x % m
<1>1. q * m \in Nat /\ x \in Nat
  OBVIOUS
<1>2. d \in Int /\ r \in 0 .. m - 1 /\ x = m * d + r
  BY <1>1
<1>3. d = q
  <2>1. CASE d < q
    <3>1. d + 1 <= q /\ m * (d + 1) <= m * q
      BY <1>2, <2>1
    <3> QED BY <1>2, <3>1
  <2>2. CASE q < d
    <3>1. q + 1 <= d /\ m * (q + 1) <= m * d
      BY <1>2, <2>2
    <3> QED BY <1>2, <3>1
  <2> QED BY <1>2, <2>1, <2>2
<1> QED BY <1>2, <1>3

\* Powers of two.
IsTwos(h, l) == h[0] = 1 /\ (\A i \in 1 .. l : h[i] = 2 * h[i - 1]) /\ TwoTo(l) = h[l]

\* The recursion behind TwoTo is well defined.
LEMMA TwosExist ==
    ASSUME NEW l \in Nat
    PROVE  \E h : IsTwos(h, l)
<1> DEFINE D(p) == p = [i \in 0 .. l |-> IF i = 0 THEN 1 ELSE 2 * p[i - 1]]
           step == [i \in 1 .. l |-> [x \in Nat |-> 2 * x]]
<1>1. TwoTo(l) = (CHOOSE p : D(p))[l]
  BY DEF TwoTo
<1>2. step \in [1 .. l -> [Nat -> Nat]]
  OBVIOUS
<1>3. \A i \in 1 .. l, x \in Nat : step[i][x] = 2 * x
  OBVIOUS
<1> HIDE DEF step
<1>4. PICK g : IsCourse(g, l, Nat, 1, step)
  BY <1>2, LoopExists
<1>5. g \in [0 .. l -> Nat] /\ g[0] = 1
      /\ \A i \in 1 .. l : g[i] = step[i][g[i - 1]]
  BY <1>4 DEF IsCourse
<1>6. \A i \in 1 .. l : g[i] = 2 * g[i - 1]
  <2> TAKE i \in 1 .. l
  <2>1. i - 1 \in 0 .. l /\ g[i - 1] \in Nat
    BY <1>5
  <2> QED BY <1>3, <1>5, <2>1
<1>7. D(g)
  <2>1. \A i \in 0 .. l : g[i] = IF i = 0 THEN 1 ELSE 2 * g[i - 1]
    <3> TAKE i \in 0 .. l
    <3>1. CASE i = 0
      BY <1>5, <3>1
    <3>2. CASE i # 0
      <4>1. i \in 1 .. l
        BY <3>2
      <4> QED BY <1>6, <3>2, <4>1
    <3> QED BY <3>1, <3>2
  <2> QED BY <1>5, <2>1
<1>8. D(CHOOSE p : D(p))
  BY <1>7
<1> DEFINE h == CHOOSE p : D(p)
<1>9. h[0] = 1 /\ \A i \in 1 .. l : h[i] = 2 * h[i - 1]
  <2>1. D(h)
    BY <1>8
  <2> HIDE DEF h
  <2>2. \A i \in 0 .. l : h[i] = IF i = 0 THEN 1 ELSE 2 * h[i - 1]
    BY <2>1
  <2>3. 0 \in 0 .. l /\ \A i \in 1 .. l : i \in 0 .. l /\ i # 0
    OBVIOUS
  <2> QED BY <2>2, <2>3
<1> QED BY <1>1, <1>9 DEF IsTwos

\* Powers of two,
LEMMA TwoToLaws ==
    /\ TwoTo(0) = 1
    /\ \A l \in Nat : TwoTo(l) \in Nat \ {0} /\ TwoTo(l) \in Nat /\ TwoTo(l + 1) = 2 * TwoTo(l)
<1>1. TwoTo(0) = 1
  <2>1. PICK h : IsTwos(h, 0)
    BY TwosExist
  <2> QED BY <2>1 DEF IsTwos
<1>2. ASSUME NEW l \in Nat PROVE TwoTo(l + 1) = 2 * TwoTo(l)
  <2>1. PICK h : IsTwos(h, l + 1)
    BY TwosExist
  <2>2. PICK g : IsTwos(g, l)
    BY TwosExist
  <2> DEFINE Good == {i \in Nat : i <= l => g[i] = h[i]}
  <2>3. 0 \in Good
    BY <2>1, <2>2 DEF IsTwos
  <2>4. ASSUME NEW i \in Nat, i \in Good PROVE i + 1 \in Good
    <3>1. CASE i + 1 <= l
      <4>1. i + 1 \in 1 .. l /\ i + 1 \in 1 .. l + 1 /\ (i + 1) - 1 = i /\ i <= l
        BY <3>1
      <4>2. g[i + 1] = 2 * g[i] /\ h[i + 1] = 2 * h[i]
        BY <2>1, <2>2, <4>1 DEF IsTwos
      <4> QED BY <2>4, <4>1, <4>2
    <3> QED BY <3>1
  <2>5. l \in Good
    <3> HIDE DEF Good
    <3>1. Nat \subseteq Good
      BY <2>3, <2>4, SetInduction
    <3> QED BY <3>1
  <2>6. h[l + 1] = 2 * h[l]
    <3>1. l + 1 \in 1 .. l + 1 /\ (l + 1) - 1 = l
      OBVIOUS
    <3> QED BY <2>1, <3>1 DEF IsTwos
  <2> QED BY <2>1, <2>2, <2>5, <2>6 DEF IsTwos
<1>3. \A l \in Nat : TwoTo(l) \in Nat \ {0}
  <2> DEFINE Good == {i \in Nat : TwoTo(i) \in Nat \ {0}}
  <2>1. 0 \in Good
    BY <1>1
  <2>2. ASSUME NEW i \in Nat, i \in Good PROVE i + 1 \in Good
    BY <1>2, <2>2
  <2> HIDE DEF Good
  <2>3. Nat \subseteq Good
    BY <2>1, <2>2, SetInduction
  <2> QED BY <2>3 DEF Good
<1> QED BY <1>1, <1>2, <1>3

\* their products,
LEMMA TwoToPlus ==
    ASSUME NEW a \in Nat, NEW b \in Nat
    PROVE  TwoTo(a + b) = TwoTo(a) * TwoTo(b)
<1> DEFINE Good == {i \in Nat : TwoTo(a + i) = TwoTo(a) * TwoTo(i)}
<1>1. 0 \in Good
  <2>1. TwoTo(a) * 1 = TwoTo(a) /\ a + 0 = a
    BY TwoToLaws
  <2> QED BY <2>1, TwoToLaws
<1>2. ASSUME NEW i \in Nat, i \in Good PROVE i + 1 \in Good
  <2> DEFINE x == TwoTo(a)
             y == TwoTo(i)
  <2>1. x \in Nat /\ y \in Nat /\ TwoTo(i + 1) = 2 * y /\ TwoTo(a + i) = x * y
        /\ TwoTo((a + i) + 1) = 2 * TwoTo(a + i) /\ (a + i) + 1 = a + (i + 1)
    <3>1. a + i \in Nat
      OBVIOUS
    <3> QED BY <1>2, <3>1, TwoToLaws
  <2> HIDE DEF x, y
  <2>2. 2 * (x * y) = x * (2 * y)
    BY <2>1
  <2> QED BY <2>1, <2>2 DEF x
<1> HIDE DEF Good
<1>3. Nat \subseteq Good
  BY <1>1, <1>2, SetInduction
<1> QED BY <1>3 DEF Good

\* and that they differ.
LEMMA TwoToGrows ==
    ASSUME NEW a \in Nat, NEW b \in Nat, TwoTo(a) = TwoTo(b)
    PROVE  a = b
<1>1. ASSUME NEW i \in Nat, NEW j \in Nat, i < j PROVE TwoTo(i) # TwoTo(j)
  <2>1. j - i - 1 \in Nat /\ j = i + ((j - i - 1) + 1)
    BY <1>1
  <2> DEFINE x == TwoTo(i)
             y == TwoTo(j - i - 1)
  <2>2. x \in Nat \ {0} /\ y \in Nat \ {0} /\ TwoTo((j - i - 1) + 1) = 2 * y
    BY <2>1, TwoToLaws
  <2>3. TwoTo(j) = x * (2 * y)
    <3>1. (j - i - 1) + 1 \in Nat
      BY <2>1
    <3> QED BY <2>1, <2>2, <3>1, TwoToPlus
  <2> HIDE DEF x, y
  <2>4. x * (2 * y) # x
    <3>1. x * (2 * y) = x * y + x * y /\ x * y >= x
      BY <2>2
    <3> QED BY <2>2, <3>1
  <2> QED BY <2>3, <2>4 DEF x
<1> QED BY <1>1

================================================================================
