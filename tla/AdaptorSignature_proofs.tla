------------------------- MODULE AdaptorSignature_proofs -----------------------
(***************************************************************************)
(* Theorems about AdaptorSignature for every group, every parity and every *)
(* number of operators: the pre-signature satisfies the adaptor relation,  *)
(* and the shares complete it exactly when nothing is missing.  And about  *)
(* WindowRecoding, the multiplication of the generator that both sides of  *)
(* an adaptor share compute, for every window size and every scalar.       *)
(***************************************************************************)
EXTENDS AdaptorSignature, WindowRecoding, FieldSums

LEMMA Basics ==
    /\ N \in Nat /\ Operators = 1 .. N
    /\ Secrets \subseteq Scalars /\ Shares \subseteq Scalars
    /\ Nonces \subseteq Scalars /\ Hashes \subseteq Scalars
    /\ Even \subseteq Points /\ Points \subseteq Scalars
    /\ 1 \in Operators
<1>1. N \in Nat /\ N # 0
  BY OperatorsAssumption
<1>2. 1 \in Operators
  BY <1>1 DEF Operators
<1>3. Points \subseteq Scalars
  BY DEF Points
<1> QED BY <1>1, <1>2, <1>3, OperatorsAssumption, ParityAssumption DEF Operators

LEMMA AggregateType ==
    ASSUME NEW f \in [Operators -> Scalars]
    PROVE  Aggregate(f) \in Scalars
BY Basics, SumType DEF Aggregate

LEMMA ChallengeType ==
    ASSUME NEW r \in Points, NEW p \in Points
    PROVE  Challenge(r, p) \in Scalars
BY ChallengeAssumption

\* Of P and -P, y_is_even picks one.
LEMMA LiftEven ==
    ASSUME NEW p \in Points
    PROVE  LiftX(p) \in Even
BY ParityAssumption DEF LiftX

LEMMA KeyType ==
    ASSUME NEW x \in [Operators -> Secrets], NEW c \in [Operators -> Scalars]
    PROVE  /\ [i \in Operators |-> Times(x[i], c[i])] \in [Operators -> Scalars]
           /\ AggregateKey(x, c) \in Scalars
<1>1. \A i \in Operators : Times(x[i], c[i]) \in Scalars
  BY Basics, Closure
<1>2. [i \in Operators |-> Times(x[i], c[i])] \in [Operators -> Scalars]
  BY <1>1
<1> QED BY <1>2, AggregateType DEF AggregateKey

\* musig_coefficients: the normalised coefficients still give the normalised
\* key, whatever the parity of the aggregate.
LEMMA NormalizedKey ==
    ASSUME NEW x \in [Operators -> Secrets], NEW c \in [Operators -> Hashes],
           AggregateKey(x, c) # Zero
    PROVE  LET k == NormalizeKey(AggregateKey(x, c), c)
           IN  /\ k \in [point : Even, coefficients : [Operators -> Scalars]]
               /\ AggregateKey(x, k.coefficients) = k.point
<1> DEFINE key == AggregateKey(x, c)
           neg == [i \in Operators |-> Minus(c[i])]
<1>1. c \in [Operators -> Scalars] /\ neg \in [Operators -> Scalars]
  BY Basics, Closure
<1>2. key \in Points
  BY <1>1, KeyType DEF Points
<1>3. LiftX(key) \in Even
  BY <1>2, LiftEven
<1>4. AggregateKey(x, neg) = Minus(key)
  <2> DEFINE f == [i \in Operators |-> Times(x[i], c[i])]
             g == [i \in Operators |-> Times(x[i], neg[i])]
  <2>1. f \in [1 .. N -> Scalars] /\ g \in [1 .. N -> Scalars]
    BY <1>1, KeyType, Basics
  <2>2. \A i \in 1 .. N : g[i] = Minus(f[i])
    BY <1>1, Basics, TimesMinus
  <2>3. Sum(g, N) = Minus(Sum(f, N))
    <3> HIDE DEF f, g
    <3> QED BY <2>1, <2>2, Basics, SumMinus
  <2> QED BY <2>3 DEF AggregateKey, Aggregate
<1> HIDE DEF key
<1>5. CASE key \in Even
  BY <1>1, <1>3, <1>5 DEF NormalizeKey, LiftX, key
<1>6. CASE key \notin Even
  BY <1>1, <1>3, <1>4, <1>6 DEF NormalizeKey, LiftX, key
<1> QED BY <1>5, <1>6

--------------------------------------------------------------------------------
\* What each part of the state was made from: enough to say what every later
\* part adds up to, and preserved because no part is made twice.
KeyInv ==
    musig # None => AggregateKey(secret, musig.coefficients) = musig.point

OutputInv ==
    output # None => /\ musig # None
                     /\ output.point = Plus(musig.point, output.tweak)

NonceInv ==
    nonce # None =>
        nonce.point = IF nonce.negated THEN Minus(Aggregate(nonce.k)) ELSE Aggregate(nonce.k)

PartialInv ==
    \A i \in Operators : partial[i] # None =>
        /\ output # None /\ nonce # None
        /\ partial[i] = Masked(i)

PresigInv ==
    presig # None =>
        /\ \A i \in Operators : partial[i] # None
        /\ presig = [r |-> nonce.point,
                     s |-> Plus(Aggregate(partial), Times(output.tweak, TheChallenge))]

FinalInv ==
    final # None =>
        /\ presig # None
        /\ final.sig.r = presig.r
        /\ final.sig.s = Plus(presig.s, RecoveredSum(final.with))

IInv == TypeOK /\ KeyInv /\ OutputInv /\ NonceInv /\ PartialInv /\ PresigInv /\ FinalInv

LEMMA IInvInit == Init => IInv
<1> SUFFICES ASSUME Init PROVE IInv
  OBVIOUS
<1>1. share \in [Operators -> Scalars]
  BY Basics DEF Init
<1>2. Aggregate(share) \in Points
  BY <1>1, AggregateType DEF Init, Points
<1> QED BY <1>2 DEF Init, IInv, TypeOK, KeyInv, OutputInv, NonceInv, PartialInv,
                    PresigInv, FinalInv

\* Before the output key and the nonce there is no partial signature, and
\* before the partials no pre-signature.
LEMMA NothingYet ==
    ASSUME IInv, musig = None \/ output = None \/ nonce = None
    PROVE  /\ \A i \in Operators : partial[i] = None
           /\ presig = None /\ final = None
           /\ musig = None => output = None
<1>1. \A i \in Operators : partial[i] = None
  BY DEF IInv, PartialInv, OutputInv
<1>2. presig = None
  BY <1>1, Basics DEF IInv, PresigInv
<1> QED BY <1>1, <1>2 DEF IInv, FinalInv, OutputInv

LEMMA KeyStep == ASSUME IInv, NEW c \in [Operators -> Hashes], AggregateKeys(c) PROVE IInv'
<1>1. /\ musig = None /\ AggregateKey(secret, c) # Zero
      /\ musig' = NormalizeKey(AggregateKey(secret, c), c)
      /\ UNCHANGED <<secret, output, share, nonce, partial, presig, recovered, final>>
  BY DEF AggregateKeys
<1>2. secret \in [Operators -> Secrets]
  BY DEF IInv, TypeOK
<1>3. /\ musig' \in [point : Even, coefficients : [Operators -> Scalars]]
      /\ AggregateKey(secret, musig'.coefficients) = musig'.point
  BY <1>1, <1>2, NormalizedKey
<1>4. /\ \A i \in Operators : partial[i] = None
      /\ output = None /\ presig = None /\ final = None
  BY <1>1, NothingYet
<1>5. TypeOK'
  BY <1>1, <1>3 DEF IInv, TypeOK, Aggregate
<1>6. KeyInv'
  BY <1>1, <1>3 DEF KeyInv, AggregateKey, Aggregate
<1>7. NonceInv'
  BY <1>1 DEF IInv, NonceInv, Aggregate
<1>8. OutputInv' /\ PartialInv' /\ PresigInv' /\ FinalInv'
  BY <1>1, <1>4 DEF OutputInv, PartialInv, PresigInv, FinalInv
<1> QED BY <1>5, <1>6, <1>7, <1>8 DEF IInv

LEMMA TweakStep == ASSUME IInv, NEW t \in Hashes, TweakKey(t) PROVE IInv'
<1>1. /\ musig # None /\ output = None
      /\ Plus(musig.point, t) # Zero
      /\ output' = [point |-> Plus(musig.point, t), tweak |-> t]
      /\ UNCHANGED <<secret, musig, share, nonce, partial, presig, recovered, final>>
  BY DEF TweakKey
<1>2. musig.point \in Scalars /\ t \in Scalars
  BY <1>1, Basics DEF IInv, TypeOK
<1>3. Plus(musig.point, t) \in Points
  BY <1>1, <1>2, Closure DEF Points
<1>4. /\ \A i \in Operators : partial[i] = None
      /\ presig = None /\ final = None
  BY <1>1, NothingYet
<1>5. TypeOK'
  BY <1>1, <1>3 DEF IInv, TypeOK, Aggregate
<1>6. KeyInv' /\ NonceInv'
  BY <1>1 DEF IInv, KeyInv, NonceInv, AggregateKey, Aggregate
<1>7. OutputInv'
  BY <1>1 DEF OutputInv
<1>8. PartialInv' /\ PresigInv' /\ FinalInv'
  BY <1>1, <1>4 DEF PartialInv, PresigInv, FinalInv
<1> QED BY <1>5, <1>6, <1>7, <1>8 DEF IInv

LEMMA NonceStep ==
    ASSUME IInv, NEW k \in [Operators -> Nonces], AggregateNonces(k)
    PROVE  IInv'
<1>1. /\ nonce = None /\ Aggregate(k) # Zero
      /\ nonce' = [k |-> k, point |-> LiftX(Aggregate(k)), negated |-> Aggregate(k) \notin Even]
      /\ UNCHANGED <<secret, musig, output, share, partial, presig, recovered, final>>
  BY DEF AggregateNonces
<1>2. k \in [Operators -> Scalars]
  BY Basics
<1>3. Aggregate(k) \in Points
  BY <1>1, <1>2, AggregateType DEF Points
<1>4. LiftX(Aggregate(k)) \in Even
  BY <1>3, LiftEven
<1>5. /\ \A i \in Operators : partial[i] = None
      /\ presig = None /\ final = None
  BY <1>1, NothingYet
<1>6. TypeOK'
  BY <1>1, <1>4 DEF IInv, TypeOK, Aggregate
<1>7. KeyInv' /\ OutputInv'
  BY <1>1 DEF IInv, KeyInv, OutputInv, AggregateKey, Aggregate
<1>8. NonceInv'
  BY <1>1 DEF NonceInv, LiftX, Aggregate
<1>9. PartialInv' /\ PresigInv' /\ FinalInv'
  BY <1>1, <1>5 DEF PartialInv, PresigInv, FinalInv
<1> QED BY <1>6, <1>7, <1>8, <1>9 DEF IInv

LEMMA TheChallengeType ==
    ASSUME IInv, output # None, nonce # None
    PROVE  /\ TheChallenge \in Scalars
           /\ nonce.point \in Points /\ output.point \in Points
           /\ output.tweak \in Scalars
<1>1. nonce.point \in Points /\ output.point \in Points /\ output.tweak \in Scalars
  BY Basics DEF IInv, TypeOK
<1> QED BY <1>1, ChallengeType DEF TheChallenge

\* The two summands of a masked partial, and the partial itself.
SignedNonce(i) == IF nonce.negated THEN Minus(nonce.k[i]) ELSE nonce.k[i]

LEMMA MaskedType ==
    ASSUME IInv, output # None, nonce # None, NEW i \in Operators
    PROVE  /\ SignedNonce(i) \in Scalars
           /\ Times(musig.coefficients[i], secret[i]) \in Scalars
           /\ Times(Times(musig.coefficients[i], secret[i]), TheChallenge) \in Scalars
           /\ Minus(share[i]) \in Scalars
           /\ Masked(i) \in Scalars
<1>1. /\ nonce.k[i] \in Scalars /\ secret[i] \in Scalars /\ share[i] \in Scalars
  BY Basics DEF IInv, TypeOK
<1>2. musig.coefficients[i] \in Scalars
  BY DEF IInv, TypeOK, OutputInv
<1>3. TheChallenge \in Scalars
  BY TheChallengeType
<1>4. SignedNonce(i) \in Scalars
  BY <1>1, Closure DEF SignedNonce
<1>5. /\ Times(musig.coefficients[i], secret[i]) \in Scalars
      /\ Times(Times(musig.coefficients[i], secret[i]), TheChallenge) \in Scalars
      /\ Minus(share[i]) \in Scalars
  BY <1>1, <1>2, <1>3, Closure
<1>6. Plus(Plus(SignedNonce(i),
                Times(Times(musig.coefficients[i], secret[i]), TheChallenge)),
           Minus(share[i])) \in Scalars
  BY <1>4, <1>5, Closure
<1> QED BY <1>4, <1>5, <1>6 DEF Masked, SignedNonce

LEMMA PartialStep == ASSUME IInv, NEW i \in Operators, MaskPartial(i) PROVE IInv'
<1>1. /\ output # None /\ nonce # None /\ partial[i] = None
      /\ partial' = [partial EXCEPT ![i] = Masked(i)]
      /\ UNCHANGED <<secret, musig, output, share, nonce, presig, recovered, final>>
  BY DEF MaskPartial
<1>2. presig = None /\ final = None
  BY <1>1 DEF IInv, PresigInv, FinalInv
<1>3. partial \in [Operators -> Scalars \cup {None}]
  BY DEF IInv, TypeOK
<1>4. Masked(i) \in Scalars
  BY <1>1, MaskedType
<1>5. TypeOK'
  BY <1>1, <1>3, <1>4 DEF IInv, TypeOK, Aggregate
<1>6. KeyInv' /\ OutputInv' /\ NonceInv'
  BY <1>1 DEF IInv, KeyInv, OutputInv, NonceInv, AggregateKey, Aggregate
<1>7. PartialInv'
  <2>1. \A j \in Operators : Masked(j)' = Masked(j)
    BY <1>1 DEF Masked, TheChallenge
  <2>2. \A j \in Operators : partial'[j] = IF j = i THEN Masked(i) ELSE partial[j]
    BY <1>1, <1>3
  <2> QED BY <1>1, <2>1, <2>2 DEF IInv, PartialInv
<1>8. PresigInv' /\ FinalInv'
  BY <1>1, <1>2 DEF PresigInv, FinalInv
<1> QED BY <1>5, <1>6, <1>7, <1>8 DEF IInv

LEMMA PreSignStep == ASSUME IInv, PreSign PROVE IInv'
<1>1. /\ presig = None /\ \A i \in Operators : partial[i] # None
      /\ presig' = [r |-> nonce.point,
                    s |-> Plus(Aggregate(partial), Times(output.tweak, TheChallenge))]
      /\ UNCHANGED <<secret, musig, output, share, nonce, partial, recovered, final>>
  BY DEF PreSign
<1>2. output # None /\ nonce # None
  BY <1>1, Basics DEF IInv, PartialInv
<1>3. final = None
  BY <1>1 DEF IInv, FinalInv
<1>4. partial \in [Operators -> Scalars]
  BY <1>1 DEF IInv, TypeOK
<1>5. presig' \in Signatures
  <2>1. nonce.point \in Points /\ TheChallenge \in Scalars /\ output.tweak \in Scalars
    BY <1>2, TheChallengeType
  <2>2. Aggregate(partial) \in Scalars
    BY <1>4, AggregateType
  <2>3. Plus(Aggregate(partial), Times(output.tweak, TheChallenge)) \in Scalars
    BY <2>1, <2>2, Closure
  <2> QED BY <1>1, <2>1, <2>3 DEF Signatures
<1>6. TypeOK'
  BY <1>1, <1>5 DEF IInv, TypeOK, Aggregate
<1>7. KeyInv' /\ OutputInv' /\ NonceInv'
  BY <1>1 DEF IInv, KeyInv, OutputInv, NonceInv, AggregateKey, Aggregate
<1>8. PartialInv'
  BY <1>1 DEF IInv, PartialInv, Masked, TheChallenge
<1>9. PresigInv' /\ FinalInv'
  BY <1>1, <1>3 DEF PresigInv, FinalInv, Aggregate, TheChallenge
<1> QED BY <1>6, <1>7, <1>8, <1>9 DEF IInv

LEMMA RecoveredType ==
    ASSUME IInv, NEW S
    PROVE  RecoveredSum(S) \in Scalars
<1> DEFINE f == [i \in Operators |-> IF i \in S THEN share[i] ELSE Zero]
<1>1. f \in [Operators -> Scalars]
  BY Basics, Closure DEF IInv, TypeOK
<1> HIDE DEF f
<1>2. Aggregate(f) \in Scalars
  BY <1>1, AggregateType
<1> QED BY <1>2 DEF RecoveredSum, f

LEMMA RecoverStep == ASSUME IInv, NEW i \in Operators, RecoverShare(i) PROVE IInv'
<1>1. /\ recovered' = recovered \cup {i}
      /\ UNCHANGED <<secret, musig, output, share, nonce, partial, presig, final>>
  BY DEF RecoverShare
<1>2. TypeOK'
  BY <1>1 DEF IInv, TypeOK, Aggregate
<1>3. KeyInv' /\ OutputInv' /\ NonceInv'
  BY <1>1 DEF IInv, KeyInv, OutputInv, NonceInv, AggregateKey, Aggregate
<1>4. PartialInv'
  BY <1>1 DEF IInv, PartialInv, Masked, TheChallenge
<1>5. PresigInv'
  BY <1>1 DEF IInv, PresigInv, Aggregate, TheChallenge
<1>6. FinalInv'
  BY <1>1 DEF IInv, FinalInv, RecoveredSum, Aggregate
<1> QED BY <1>2, <1>3, <1>4, <1>5, <1>6 DEF IInv

LEMMA FinishStep == ASSUME IInv, Finish PROVE IInv'
<1>1. /\ presig # None
      /\ final' = [with |-> recovered,
                   sig  |-> [presig EXCEPT !.s = Plus(presig.s, RecoveredSum(recovered))]]
      /\ UNCHANGED <<secret, musig, output, share, nonce, partial, presig, recovered>>
  BY DEF Finish
<1>2. presig \in Signatures /\ recovered \in SUBSET Operators
  BY <1>1 DEF IInv, TypeOK
<1>3. RecoveredSum(recovered) \in Scalars
  BY RecoveredType
<1>4. Plus(presig.s, RecoveredSum(recovered)) \in Scalars
  BY <1>2, <1>3, Closure DEF Signatures
<1> DEFINE completed == Plus(presig.s, RecoveredSum(recovered))
<1>5. final' \in [with : SUBSET Operators, sig : Signatures]
  <2> HIDE DEF completed
  <2>1. [presig EXCEPT !.s = completed] \in Signatures
    BY <1>2, <1>4 DEF Signatures, completed
  <2> QED BY <1>1, <1>2, <2>1 DEF completed
<1>6. /\ final'.with = recovered
      /\ final'.sig.r = presig.r
      /\ final'.sig.s = Plus(presig.s, RecoveredSum(recovered))
  BY <1>1, <1>2 DEF Signatures
<1>7. TypeOK'
  BY <1>1, <1>5 DEF IInv, TypeOK, Aggregate
<1>8. KeyInv' /\ OutputInv' /\ NonceInv'
  BY <1>1 DEF IInv, KeyInv, OutputInv, NonceInv, AggregateKey, Aggregate
<1>9. PartialInv'
  BY <1>1 DEF IInv, PartialInv, Masked, TheChallenge
<1>10. PresigInv'
  BY <1>1 DEF IInv, PresigInv, Aggregate, TheChallenge
<1>11. FinalInv'
  BY <1>1, <1>6 DEF FinalInv, RecoveredSum, Aggregate
<1> QED BY <1>7, <1>8, <1>9, <1>10, <1>11 DEF IInv

LEMMA IInvStep == IInv /\ [Next]_vars => IInv'
<1> SUFFICES ASSUME IInv, [Next]_vars PROVE IInv'
  OBVIOUS
<1>1. ASSUME NEW c \in [Operators -> Hashes], AggregateKeys(c) PROVE IInv'
  BY <1>1, KeyStep
<1>2. ASSUME NEW t \in Hashes, TweakKey(t) PROVE IInv'
  BY <1>2, TweakStep
<1>3. ASSUME NEW k \in [Operators -> Nonces], AggregateNonces(k) PROVE IInv'
  BY <1>3, NonceStep
<1>4. ASSUME NEW i \in Operators, MaskPartial(i) PROVE IInv'
  BY <1>4, PartialStep
<1>5. ASSUME NEW i \in Operators, RecoverShare(i) PROVE IInv'
  BY <1>5, RecoverStep
<1>6. CASE PreSign
  BY <1>6, PreSignStep
<1>7. CASE Finish
  BY <1>7, FinishStep
<1>8. CASE UNCHANGED vars
  BY <1>8 DEF vars, IInv, TypeOK, KeyInv, OutputInv, NonceInv, PartialInv, PresigInv,
              FinalInv, AggregateKey, Masked, TheChallenge, RecoveredSum, Aggregate
<1> QED BY <1>1, <1>2, <1>3, <1>4, <1>5, <1>6, <1>7, <1>8 DEF Next

\* The inductive invariant holds in every reachable state.
THEOREM Invariance == Spec => []IInv
BY IInvInit, IInvStep, PTL DEF Spec

\* Type correctness: keys, nonces and coefficients stay normalised, for every
\* group and every number of operators.
THEOREM TypeCorrect == Spec => []TypeOK
<1>1. IInv => TypeOK
  BY DEF IInv
<1> QED BY <1>1, Invariance, PTL

--------------------------------------------------------------------------------
\* What the partials add up to: R + e * (aggregate key) - T.
LEMMA PartialSum ==
    ASSUME IInv, presig # None
    PROVE  Aggregate(partial)
             = Plus(Plus(nonce.point, Times(musig.point, TheChallenge)),
                    Minus(AdaptorPoint))
<1> DEFINE e == TheChallenge
           ks == [i \in Operators |-> SignedNonce(i)]
           xs == [i \in Operators |-> Times(secret[i], musig.coefficients[i])]
           es == [i \in Operators |-> Times(Times(musig.coefficients[i], secret[i]), e)]
           us == [i \in Operators |-> Plus(ks[i], es[i])]
           ts == [i \in Operators |-> Minus(share[i])]
<1>1. /\ output # None /\ nonce # None /\ musig # None
      /\ \A i \in Operators : partial[i] = Masked(i)
      /\ \A i \in Operators : partial[i] # None
  BY Basics DEF IInv, PresigInv, PartialInv, OutputInv
<1>2. partial \in [Operators -> Scalars] /\ share \in [Operators -> Scalars]
  BY <1>1, Basics DEF IInv, TypeOK
<1>3. e \in Scalars
  BY <1>1, TheChallengeType
<1>4. \A i \in Operators :
        /\ SignedNonce(i) \in Scalars
        /\ Times(Times(musig.coefficients[i], secret[i]), e) \in Scalars
        /\ Minus(share[i]) \in Scalars
  BY <1>1, MaskedType
<1>5. /\ ks \in [Operators -> Scalars] /\ es \in [Operators -> Scalars]
      /\ ts \in [Operators -> Scalars]
  BY <1>4
<1>6. us \in [Operators -> Scalars]
  BY <1>5, Closure
<1>7. \A i \in Operators : partial[i] = Plus(us[i], ts[i])
  BY <1>1 DEF Masked, SignedNonce
<1>8. xs \in [Operators -> Scalars]
  <2>1. musig.coefficients \in [Operators -> Scalars] /\ secret \in [Operators -> Secrets]
    BY <1>1 DEF IInv, TypeOK
  <2> QED BY <2>1, KeyType
<1>9. \A i \in Operators : es[i] = Times(xs[i], e)
  <2>1. ASSUME NEW i \in Operators
        PROVE  Times(musig.coefficients[i], secret[i])
                 = Times(secret[i], musig.coefficients[i])
    <3>1. musig.coefficients[i] \in Scalars /\ secret[i] \in Scalars
      BY <1>1, Basics DEF IInv, TypeOK
    <3> QED BY <3>1, TimesLaws
  <2> QED BY <2>1
<1>10. Aggregate(ks) = nonce.point
  <2>1. nonce.k \in [Operators -> Scalars]
    BY <1>1, Basics DEF IInv, TypeOK
  <2>2. CASE nonce.negated
    <3>1. \A i \in Operators : ks[i] = Minus(nonce.k[i])
      BY <2>2 DEF SignedNonce
    <3> HIDE DEF ks
    <3>2. Sum(ks, N) = Minus(Sum(nonce.k, N))
      BY <1>5, <2>1, <3>1, Basics, SumMinus
    <3> QED BY <1>1, <2>2, <3>2 DEF IInv, NonceInv, Aggregate
  <2>3. CASE ~ nonce.negated
    <3>1. ks = nonce.k
      BY <2>1, <2>3 DEF SignedNonce
    <3> HIDE DEF ks
    <3> QED BY <1>1, <2>3, <3>1 DEF IInv, NonceInv, Aggregate
  <2> QED BY <2>2, <2>3
<1>11. Aggregate(xs) = musig.point
  BY <1>1 DEF IInv, KeyInv, AggregateKey
<1> HIDE DEF ks, xs, es, us, ts, e
<1>12. Aggregate(es) = Times(musig.point, e)
  <2>1. Sum(es, N) = Times(Sum(xs, N), e)
    BY <1>3, <1>5, <1>8, <1>9, Basics, SumScale
  <2> QED BY <1>11, <2>1 DEF Aggregate
<1>13. Aggregate(us) = Plus(Aggregate(ks), Aggregate(es))
  <2>1. \A i \in Operators : us[i] = Plus(ks[i], es[i])
    BY DEF us
  <2> QED BY <1>5, <1>6, <2>1, Basics, SumPlus DEF Aggregate
<1>14. Aggregate(ts) = Minus(Aggregate(share))
  <2>1. \A i \in Operators : ts[i] = Minus(share[i])
    BY DEF ts
  <2> QED BY <1>2, <1>5, <2>1, Basics, SumMinus DEF Aggregate
<1>15. Aggregate(partial) = Plus(Aggregate(us), Aggregate(ts))
  BY <1>2, <1>5, <1>6, <1>7, Basics, SumPlus DEF Aggregate
<1> QED BY <1>10, <1>12, <1>13, <1>14, <1>15 DEF AdaptorPoint, e

LEMMA IInvPreSignatureOpens == IInv => PreSignatureOpens
<1> SUFFICES ASSUME IInv, presig # None
             PROVE  Plus(presig.s, AdaptorPoint)
                      = Plus(nonce.point, Times(output.point, TheChallenge))
  BY DEF PreSignatureOpens
<1> DEFINE e == TheChallenge
           R == nonce.point
           key == musig.point
           t == output.tweak
           T == AdaptorPoint
<1>1. output # None /\ nonce # None /\ musig # None
  BY Basics DEF IInv, PresigInv, PartialInv, OutputInv
<1>2. e \in Scalars /\ R \in Scalars /\ t \in Scalars
  BY <1>1, TheChallengeType, Basics
<1>3. key \in Scalars /\ T \in Scalars
  BY <1>1, Basics, AggregateType DEF IInv, TypeOK, AdaptorPoint
<1>4. presig.s = Plus(Aggregate(partial), Times(t, e))
  BY DEF IInv, PresigInv
<1>5. Aggregate(partial) = Plus(Plus(R, Times(key, e)), Minus(T))
  BY PartialSum
<1>6. Times(output.point, e) = Plus(Times(key, e), Times(t, e))
  <2>1. output.point = Plus(key, t)
    BY <1>1 DEF IInv, OutputInv
  <2> HIDE DEF e, key, t
  <2> QED BY <1>2, <1>3, <2>1, Distributes
<1> HIDE DEF e, R, key, t, T
<1> DEFINE ke == Times(key, e)
           te == Times(t, e)
<1>7. ke \in Scalars /\ te \in Scalars /\ Minus(T) \in Scalars
  BY <1>2, <1>3, Closure
<1> HIDE DEF ke, te
<1> DEFINE q == Plus(R, ke)
<1>8. q \in Scalars
  BY <1>2, <1>7, Closure
<1>9. Plus(R, Plus(ke, te)) = Plus(q, te)
  BY <1>2, <1>7, PlusLaws
<1> HIDE DEF q
<1>10. Plus(Plus(Plus(q, Minus(T)), te), T) = Plus(q, te)
  <2>1. Plus(q, Minus(T)) \in Scalars
    BY <1>7, <1>8, Closure
  <2>2. Plus(Plus(Plus(q, Minus(T)), te), T) = Plus(Plus(q, Minus(T)), Plus(te, T))
    BY <1>3, <1>7, <2>1, PlusLaws
  <2>3. Plus(te, T) = Plus(T, te)
    BY <1>3, <1>7, PlusLaws
  <2>4. Plus(Plus(q, Minus(T)), Plus(T, te)) = Plus(Plus(Plus(q, Minus(T)), T), te)
    BY <1>3, <1>7, <2>1, PlusLaws
  <2>5. Plus(Plus(q, Minus(T)), T) = q
    BY <1>3, <1>8, MinusPlus
  <2> QED BY <2>2, <2>3, <2>4, <2>5
<1> QED BY <1>4, <1>5, <1>6, <1>9, <1>10 DEF e, R, key, t, T, ke, te, q

\* The adaptor relation holds of every pre-signature, whatever the parities.
THEOREM PreSignatureSound == Spec => []PreSignatureOpens
BY Invariance, IInvPreSignatureOpens, PTL

LEMMA IInvSharesUnlock == IInv => SharesUnlock
<1> SUFFICES ASSUME IInv, final # None
             PROVE  VerifySchnorr(output.point, final.sig)
                      <=> RecoveredSum(final.with) = AdaptorPoint
  BY DEF SharesUnlock
<1> DEFINE e == TheChallenge
           R == nonce.point
           Pe == Times(output.point, e)
           T == AdaptorPoint
           got == RecoveredSum(final.with)
           r == Plus(final.sig.s, Minus(Pe))
<1>1. presig # None /\ final.sig.r = presig.r /\ final.sig.s = Plus(presig.s, got)
  BY DEF IInv, FinalInv
<1>2. output # None /\ nonce # None
  BY <1>1, Basics DEF IInv, PresigInv, PartialInv
<1>3. final.sig.r = R
  BY <1>1 DEF IInv, PresigInv
<1>4. R \in Even /\ R \in Points
  BY <1>2, Basics DEF IInv, TypeOK
<1>5. e \in Scalars /\ output.point \in Scalars /\ R \in Scalars
  BY <1>2, TheChallengeType, Basics
<1>6. Pe \in Scalars /\ T \in Scalars /\ got \in Scalars /\ presig.s \in Scalars
  <2>1. presig.s \in Scalars
    BY <1>1 DEF IInv, TypeOK, Signatures
  <2>2. share \in [Operators -> Scalars]
    BY Basics DEF IInv, TypeOK
  <2> QED BY <1>5, <2>1, <2>2, Closure, RecoveredType, AggregateType DEF AdaptorPoint
<1>7. Plus(presig.s, T) = Plus(R, Pe)
  BY <1>1, IInvPreSignatureOpens DEF PreSignatureOpens
<1>8. VerifySchnorr(output.point, final.sig) <=> r \in Even /\ (r = R \/ r = Minus(R))
  BY <1>3 DEF VerifySchnorr, SameX, TheChallenge
<1>9. Minus(R) \notin Even
  BY <1>4, ParityAssumption
<1>10. VerifySchnorr(output.point, final.sig) <=> r = R
  BY <1>4, <1>8, <1>9
<1> HIDE DEF e, R, T, got, r, Pe
<1>11. /\ r = Plus(Plus(presig.s, got), Minus(Pe))
       /\ Plus(presig.s, got) \in Scalars
       /\ r \in Scalars
  BY <1>1, <1>6, Closure DEF r
<1>12. Plus(r, Pe) = Plus(presig.s, got)
  BY <1>6, <1>11, MinusPlus
<1>13. ASSUME r = R PROVE got = T
  <2>1. Plus(presig.s, got) = Plus(presig.s, T)
    BY <1>7, <1>12, <1>13
  <2>2. Plus(got, presig.s) = Plus(T, presig.s)
    BY <1>6, <2>1, PlusLaws
  <2> QED BY <1>6, <2>2, Cancel
<1>14. ASSUME got = T PROVE r = R
  <2>1. Plus(r, Pe) = Plus(R, Pe)
    BY <1>7, <1>12, <1>14
  <2> QED BY <1>5, <1>6, <1>11, <2>1, Cancel
<1>15. (r = R) <=> (got = T)
  BY <1>13, <1>14
<1> QED BY <1>10, <1>15 DEF got, T

\* A completed signature is valid exactly when no share is missing: for every
\* number of operators, every group and every choice of parities.
THEOREM SharesComplete == Spec => []SharesUnlock
BY Invariance, IInvSharesUnlock, PTL

--------------------------------------------------------------------------------
(***************************************************************************)
(* Numbers, and the digits and bits they are written in.                   *)
(***************************************************************************)
\* Digits, and what the first of them are worth.
IsDigits(n, d, w) == n \in Nat /\ w \in Nat /\ \A i \in 0 .. n - 1 : d[i] \in Int
IsWorth(h, n, d, w) ==
    /\ h \in [0 .. n -> Int] /\ h[0] = 0
    /\ \A i \in 1 .. n : h[i] = h[i - 1] + d[i - 1] * TwoTo(w * (i - 1))
    /\ DigitsValue(n, d, w) = h[n]

\* The recursion behind DigitsValue is well defined.
LEMMA WorthExists ==
    ASSUME NEW n, NEW d, NEW w, IsDigits(n, d, w)
    PROVE  \E h : IsWorth(h, n, d, w)
<1> DEFINE D(p) == p = [i \in 0 .. n |-> IF i = 0 THEN 0
                                         ELSE p[i - 1] + d[i - 1] * TwoTo(w * (i - 1))]
           term == [i \in 1 .. n |-> d[i - 1] * TwoTo(w * (i - 1))]
           step == [i \in 1 .. n |-> [x \in Int |-> x + term[i]]]
<1>0. n \in Nat /\ w \in Nat /\ \A i \in 0 .. n - 1 : d[i] \in Int
  BY DEF IsDigits
<1>1. DigitsValue(n, d, w) = (CHOOSE p : D(p))[n]
  BY DEF DigitsValue
<1>2. \A i \in 1 .. n : term[i] = d[i - 1] * TwoTo(w * (i - 1)) /\ term[i] \in Int
  <2> TAKE i \in 1 .. n
  <2>1. i - 1 \in 0 .. n - 1 /\ i - 1 \in Nat
    BY <1>0
  <2>2. w * (i - 1) \in Nat /\ d[i - 1] \in Int
    BY <1>0, <2>1
  <2>3. TwoTo(w * (i - 1)) \in Int
    BY <2>2, TwoToLaws
  <2> QED BY <2>2, <2>3
<1> HIDE DEF term
<1>3. step \in [1 .. n -> [Int -> Int]]
  BY <1>2
<1>4. \A i \in 1 .. n, x \in Int : step[i][x] = x + term[i]
  OBVIOUS
<1> HIDE DEF step
<1>5. PICK g : IsCourse(g, n, Int, 0, step)
  <2>1. 0 \in Int
    OBVIOUS
  <2> QED BY <1>0, <1>3, <2>1, LoopExists
<1>6. g \in [0 .. n -> Int] /\ g[0] = 0 /\ \A i \in 1 .. n : g[i] = step[i][g[i - 1]]
  BY <1>5 DEF IsCourse
<1>7. \A i \in 1 .. n : g[i] = g[i - 1] + d[i - 1] * TwoTo(w * (i - 1))
  <2> TAKE i \in 1 .. n
  <2>1. i - 1 \in 0 .. n /\ g[i - 1] \in Int
    BY <1>0, <1>6
  <2> QED BY <1>2, <1>4, <1>6, <2>1
<1>8. D(g)
  <2>1. \A i \in 0 .. n : g[i] = IF i = 0 THEN 0 ELSE g[i - 1] + d[i - 1] * TwoTo(w * (i - 1))
    <3> TAKE i \in 0 .. n
    <3>1. CASE i = 0
      BY <1>6, <3>1
    <3>2. CASE i # 0
      <4>1. i \in 1 .. n
        BY <3>2
      <4> QED BY <1>7, <3>2, <4>1
    <3> QED BY <3>1, <3>2
  <2> QED BY <1>6, <2>1
<1> DEFINE h == CHOOSE p : D(p)
<1>9. D(h)
  BY <1>8
<1> HIDE DEF h
<1>10. /\ h[0] = 0
       /\ \A i \in 1 .. n : h[i] = h[i - 1] + d[i - 1] * TwoTo(w * (i - 1))
  <2>1. \A i \in 0 .. n : h[i] = IF i = 0 THEN 0 ELSE h[i - 1] + d[i - 1] * TwoTo(w * (i - 1))
    BY <1>9
  <2>2. 0 \in 0 .. n /\ \A i \in 1 .. n : i \in 0 .. n /\ i # 0
    BY <1>0
  <2> QED BY <2>1, <2>2
<1>11. h \in [0 .. n -> Int]
  <2> DEFINE Good == {i \in Nat : i <= n => h[i] \in Int}
  <2>1. 0 \in Good
    BY <1>10
  <2>2. ASSUME NEW i \in Nat, i \in Good PROVE i + 1 \in Good
    <3>1. CASE i + 1 <= n
      <4>1. i + 1 \in 1 .. n /\ (i + 1) - 1 = i /\ i <= n
        BY <1>0, <3>1
      <4>2. h[i + 1] = h[i] + term[i + 1] /\ term[i + 1] \in Int
        BY <1>2, <1>10, <4>1
      <4> QED BY <2>2, <4>1, <4>2
    <3> QED BY <3>1
  <2> HIDE DEF Good
  <2>3. Nat \subseteq Good
    BY <2>1, <2>2, SetInduction
  <2>4. \A i \in 0 .. n : h[i] \in Int
    BY <1>0, <2>3 DEF Good
  <2>5. h = [i \in 0 .. n |-> h[i]]
    <3>1. D(h) => h = [i \in 0 .. n |-> h[i]]
      OBVIOUS
    <3> QED BY <1>9, <3>1
  <2> QED BY <2>4, <2>5
<1>12. DigitsValue(n, d, w) = h[n]
  BY <1>1 DEF h
<1> QED BY <1>10, <1>11, <1>12 DEF IsWorth

\* Digits that agree are worth the same.
LEMMA WorthUnique ==
    ASSUME NEW n \in Nat, NEW d, NEW w, NEW m \in Nat, NEW e, NEW h, NEW g,
           IsWorth(h, n, d, w), IsWorth(g, m, e, w), n <= m,
           \A i \in 0 .. n - 1 : d[i] = e[i]
    PROVE  h[n] = g[n]
<1> DEFINE Good == {i \in Nat : i <= n => g[i] = h[i]}
<1>1. 0 \in Good
  BY DEF IsWorth
<1>2. ASSUME NEW i \in Nat, i \in Good PROVE i + 1 \in Good
  <2>1. CASE i + 1 <= n
    <3>1. i + 1 \in 1 .. n /\ i + 1 \in 1 .. m /\ (i + 1) - 1 = i /\ i <= n /\ i \in 0 .. n - 1
      BY <2>1
    <3>2. /\ g[i + 1] = g[i] + e[i] * TwoTo(w * i)
          /\ h[i + 1] = h[i] + d[i] * TwoTo(w * i)
      BY <3>1 DEF IsWorth
    <3>3. g[i] = h[i] /\ d[i] = e[i]
      BY <1>2, <3>1
    <3> QED BY <3>2, <3>3
  <2> QED BY <2>1
<1> HIDE DEF Good
<1>3. Nat \subseteq Good
  BY <1>1, <1>2, SetInduction
<1> QED BY <1>3 DEF Good

\* No digits are worth nothing.
LEMMA DigitsNone ==
    ASSUME NEW d, NEW w \in Nat
    PROVE  DigitsValue(0, d, w) = 0
<1>1. IsDigits(0, d, w)
  BY DEF IsDigits
<1>2. PICK h : IsWorth(h, 0, d, w)
  BY <1>1, WorthExists
<1> QED BY <1>2 DEF IsWorth

\* Digits are worth an integer.
LEMMA DigitsType ==
    ASSUME NEW n, NEW d, NEW w, IsDigits(n, d, w)
    PROVE  DigitsValue(n, d, w) \in Int
<1>1. PICK h : IsWorth(h, n, d, w)
  BY WorthExists
<1> QED BY <1>1 DEF IsWorth, IsDigits

\* Equal digits are worth the same.
LEMMA DigitsSame ==
    ASSUME NEW n, NEW d, NEW e, NEW w, IsDigits(n, d, w), \A i \in 0 .. n - 1 : d[i] = e[i]
    PROVE  DigitsValue(n, d, w) = DigitsValue(n, e, w)
<1>1. IsDigits(n, e, w) /\ n \in Nat /\ n <= n
  BY DEF IsDigits
<1>2. PICK h : IsWorth(h, n, d, w)
  BY WorthExists
<1>3. PICK g : IsWorth(g, n, e, w)
  BY <1>1, WorthExists
<1>4. h[n] = g[n]
  BY <1>1, <1>2, <1>3, WorthUnique
<1> QED BY <1>2, <1>3, <1>4 DEF IsWorth

\* One more digit.
LEMMA DigitsGrow ==
    ASSUME NEW n \in Nat, NEW d, NEW w, IsDigits(n + 1, d, w)
    PROVE  DigitsValue(n + 1, d, w) = DigitsValue(n, d, w) + d[n] * TwoTo(w * n)
<1>1. /\ IsDigits(n, d, w) /\ n \in Nat /\ n + 1 \in Nat /\ n <= n + 1
      /\ n + 1 \in 1 .. n + 1 /\ (n + 1) - 1 = n
  BY DEF IsDigits
<1>2. PICK h : IsWorth(h, n, d, w)
  BY <1>1, WorthExists
<1>3. PICK g : IsWorth(g, n + 1, d, w)
  BY WorthExists
<1>4. h[n] = g[n]
  BY <1>1, <1>2, <1>3, WorthUnique
<1>5. g[n + 1] = g[n] + d[n] * TwoTo(w * n)
  BY <1>1, <1>3 DEF IsWorth
<1> QED BY <1>2, <1>3, <1>4, <1>5 DEF IsWorth

\* The constants, and the powers of two among them.
LEMMA Shape ==
    /\ WindowSize \in Nat /\ WindowSize >= 2 /\ WindowSize - 1 \in Nat /\ WindowSize - 2 \in Nat
    /\ NumWindows \in Nat /\ NumWindows >= 1
    /\ TotalBits \in Nat /\ TotalBits <= WindowSize * NumWindows - 2 /\ Order \in Nat \ {0}
    /\ Half \in Nat /\ Half >= 2 /\ Base = 2 * Half
    /\ TwoTo(WindowSize - 1) = Half /\ TwoTo(WindowSize) = Base /\ 2 * TwoTo(WindowSize - 2) = Half
<1>1. /\ WindowSize \in Nat /\ WindowSize >= 2 /\ WindowSize - 1 \in Nat /\ WindowSize - 2 \in Nat
      /\ (WindowSize - 1) + 1 = WindowSize /\ (WindowSize - 2) + 1 = WindowSize - 1
  BY ShapeAssumption
<1>2. /\ Half = TwoTo(WindowSize - 1) /\ Base = TwoTo(WindowSize)
      /\ Half \in Nat /\ Base = 2 * Half
  BY <1>1, TwoToLaws DEF Half, Base
<1>3. TwoTo(WindowSize - 2) \in Nat \ {0} /\ Half = 2 * TwoTo(WindowSize - 2)
  BY <1>1, <1>2, TwoToLaws
<1> QED BY <1>1, <1>2, <1>3, ShapeAssumption

\* Bits, and the number they stand for.
IsBits(bits, n) == n \in Nat /\ \A i \in 0 .. n - 1 : bits[i] \in {0, 1}

\* One more bit.
LEMMA NumberGrows ==
    ASSUME NEW n \in Nat, NEW bits, IsBits(bits, n + 1)
    PROVE  /\ Number(bits, n + 1) = Number(bits, n) + bits[n] * TwoTo(n)
           /\ IsBits(bits, n) /\ bits[n] \in {0, 1}
<1>1. IsDigits(n + 1, bits, 1)
  BY DEF IsBits, IsDigits
<1>2. 1 * n = n
  OBVIOUS
<1>3. Number(bits, n + 1) = Number(bits, n) + bits[n] * TwoTo(1 * n)
  BY <1>1, DigitsGrow DEF Number
<1> QED BY <1>2, <1>3 DEF IsBits

\* It is below the power of two that it has bits.
LEMMA NumberRange ==
    ASSUME NEW n, NEW bits, IsBits(bits, n)
    PROVE  Number(bits, n) \in Nat /\ Number(bits, n) < TwoTo(n) /\ TwoTo(n) \in Nat
<1> DEFINE Good == {i \in Nat : i <= n => Number(bits, i) \in Nat /\ Number(bits, i) < TwoTo(i)}
<1>0. n \in Nat
  BY DEF IsBits
<1>1. 0 \in Good
  <2>1. Number(bits, 0) = 0
    BY DigitsNone DEF Number
  <2> QED BY <2>1, TwoToLaws
<1>2. ASSUME NEW i \in Nat, i \in Good PROVE i + 1 \in Good
  <2>1. CASE i + 1 <= n
    <3>1. IsBits(bits, i + 1) /\ i <= n
      BY <1>0, <2>1 DEF IsBits
    <3>2. Number(bits, i + 1) = Number(bits, i) + bits[i] * TwoTo(i) /\ bits[i] \in {0, 1}
      BY <3>1, NumberGrows
    <3>3. TwoTo(i + 1) = 2 * TwoTo(i) /\ TwoTo(i) \in Nat
      BY TwoToLaws
    <3>4. Number(bits, i) \in Nat /\ Number(bits, i) < TwoTo(i)
      BY <1>2, <3>1
    <3>5. CASE bits[i] = 0
      BY <3>2, <3>3, <3>4, <3>5
    <3>6. CASE bits[i] = 1
      BY <3>2, <3>3, <3>4, <3>6
    <3> QED BY <3>2, <3>5, <3>6
  <2> QED BY <2>1
<1> HIDE DEF Good
<1>3. Nat \subseteq Good
  BY <1>1, <1>2, SetInduction
<1> QED BY <1>0, <1>3, TwoToLaws DEF Good

\* Without bits that are set it is zero.
LEMMA NumberZero ==
    ASSUME NEW n \in Nat, NEW bits, \A i \in 0 .. n - 1 : bits[i] = 0
    PROVE  Number(bits, n) = 0
<1> DEFINE Good == {i \in Nat : i <= n => Number(bits, i) = 0}
<1>1. 0 \in Good
  BY DigitsNone DEF Number
<1>2. ASSUME NEW i \in Nat, i \in Good PROVE i + 1 \in Good
  <2>1. CASE i + 1 <= n
    <3>1. IsBits(bits, i + 1) /\ i <= n /\ bits[i] = 0
      BY <2>1 DEF IsBits
    <3>2. Number(bits, i + 1) = Number(bits, i) + bits[i] * TwoTo(i)
      BY <3>1, NumberGrows
    <3>3. TwoTo(i) \in Nat
      BY TwoToLaws
    <3> QED BY <1>2, <3>1, <3>2, <3>3
  <2> QED BY <2>1
<1> HIDE DEF Good
<1>3. Nat \subseteq Good
  BY <1>1, <1>2, SetInduction
<1> QED BY <1>3 DEF Good

\* Bits that agree stand for the same number.
LEMMA NumberSame ==
    ASSUME NEW n, NEW bits, NEW other, IsBits(bits, n), \A i \in 0 .. n - 1 : bits[i] = other[i]
    PROVE  Number(bits, n) = Number(other, n)
<1>1. IsDigits(n, bits, 1)
  BY DEF IsBits, IsDigits
<1> QED BY <1>1, DigitsSame DEF Number

\* The two highest bits of a chunk, apart.
LEMMA ChunkSplit ==
    ASSUME NEW bits, IsBits(bits, WindowSize + 1)
    PROVE  LET low == Number(bits, WindowSize - 1)
           IN  /\ low \in Nat /\ low < Half
               /\ bits[WindowSize - 1] \in {0, 1} /\ bits[WindowSize] \in {0, 1}
               /\ Number(bits, WindowSize + 1)
                    = low + bits[WindowSize - 1] * Half + bits[WindowSize] * Base
<1> DEFINE low == Number(bits, WindowSize - 1)
<1>1. /\ WindowSize \in Nat /\ WindowSize - 1 \in Nat /\ (WindowSize - 1) + 1 = WindowSize
      /\ TwoTo(WindowSize - 1) = Half /\ TwoTo(WindowSize) = Base
  BY Shape
<1>2. /\ Number(bits, WindowSize + 1) = Number(bits, WindowSize) + bits[WindowSize] * TwoTo(WindowSize)
      /\ IsBits(bits, WindowSize) /\ bits[WindowSize] \in {0, 1}
  BY <1>1, NumberGrows
<1>3. /\ Number(bits, WindowSize) = low + bits[WindowSize - 1] * TwoTo(WindowSize - 1)
      /\ IsBits(bits, WindowSize - 1) /\ bits[WindowSize - 1] \in {0, 1}
  <2> DEFINE n == WindowSize - 1
  <2>1. n \in Nat /\ IsBits(bits, n + 1) /\ n + 1 = WindowSize
    BY <1>1, <1>2
  <2> HIDE DEF n
  <2>2. /\ Number(bits, n + 1) = Number(bits, n) + bits[n] * TwoTo(n)
        /\ IsBits(bits, n) /\ bits[n] \in {0, 1}
    BY <2>1, NumberGrows
  <2> QED BY <2>1, <2>2 DEF n
<1>4. low \in Nat /\ low < Half
  BY <1>1, <1>3, NumberRange
<1> QED BY <1>1, <1>2, <1>3, <1>4

--------------------------------------------------------------------------------
(***************************************************************************)
(* enforce_secp_fixed_base_mul: carries, borrows and muxes.                *)
(***************************************************************************)
\* The carries of ChunkBits.
IsRipple(h, bits, carry) ==
    /\ h \in [0 .. WindowSize -> {0, 1}] /\ h[0] = carry
    /\ \A b \in 1 .. WindowSize : h[b] = bits[b - 1] * h[b - 1]
    /\ ChunkBits(bits, carry) = [b \in 0 .. WindowSize |->
                                    IF b = WindowSize THEN h[b] ELSE (bits[b] + h[b]) % 2]

\* The recursion behind ChunkBits is well defined.
LEMMA RippleExists ==
    ASSUME NEW bits, IsBits(bits, WindowSize), NEW carry \in {0, 1}
    PROVE  \E h : IsRipple(h, bits, carry)
<1> DEFINE D(q) == q = [b \in 0 .. WindowSize |-> IF b = 0 THEN carry ELSE bits[b - 1] * q[b - 1]]
           T == {0, 1}
           step == [b \in 1 .. WindowSize |-> [x \in T |-> bits[b - 1] * x]]
           h == CHOOSE q : D(q)
<1>0. WindowSize \in Nat /\ 0 \in T
      /\ \A b \in 1 .. WindowSize : b - 1 \in 0 .. WindowSize /\ bits[b - 1] \in {0, 1}
  <2>1. WindowSize \in Nat
    BY Shape
  <2> QED BY <2>1 DEF IsBits
<1>1. step \in [1 .. WindowSize -> [T -> T]]
  <2>1. \A b \in 1 .. WindowSize : \A x \in T : bits[b - 1] * x \in T
    BY <1>0
  <2> HIDE DEF T
  <2> QED BY <2>1
<1>2. \A b \in 1 .. WindowSize : \A x \in T : step[b][x] = bits[b - 1] * x
  OBVIOUS
<1> HIDE DEF step
<1>3. PICK g : IsCourse(g, WindowSize, T, carry, step)
  <2> HIDE DEF T
  <2>1. carry \in T
    BY DEF T
  <2> QED BY <1>0, <1>1, <2>1, LoopExists
<1>4. /\ g \in [0 .. WindowSize -> T] /\ g[0] = carry
      /\ \A b \in 1 .. WindowSize : g[b] = step[b][g[b - 1]]
  BY <1>3 DEF IsCourse
<1>5. \A b \in 1 .. WindowSize : g[b] = bits[b - 1] * g[b - 1]
  <2> TAKE b \in 1 .. WindowSize
  <2>1. b - 1 \in 0 .. WindowSize /\ g[b - 1] \in T
    BY <1>0, <1>4
  <2> HIDE DEF T
  <2> QED BY <1>2, <1>4, <2>1
<1>6. D(g)
  <2>1. \A b \in 0 .. WindowSize : g[b] = IF b = 0 THEN carry ELSE bits[b - 1] * g[b - 1]
    <3> TAKE b \in 0 .. WindowSize
    <3>1. CASE b = 0
      BY <1>4, <3>1
    <3>2. CASE b # 0
      <4>1. b \in 1 .. WindowSize
        BY <3>2
      <4> QED BY <1>5, <3>2, <4>1
    <3> QED BY <3>1, <3>2
  <2> QED BY <1>4, <2>1
<1>7. D(h)
  BY <1>6
<1>8. ChunkBits(bits, carry) = [b \in 0 .. WindowSize |->
                                 IF b = WindowSize THEN h[b] ELSE (bits[b] + h[b]) % 2]
  BY DEF ChunkBits 
<1> HIDE DEF h
<1>9. h[0] = carry /\ \A b \in 1 .. WindowSize : h[b] = bits[b - 1] * h[b - 1]
  <2>1. \A b \in 0 .. WindowSize : h[b] = IF b = 0 THEN carry ELSE bits[b - 1] * h[b - 1]
    BY <1>7
  <2>2. 0 \in 0 .. WindowSize /\ \A b \in 1 .. WindowSize : b \in 0 .. WindowSize /\ b # 0
    BY <1>0
  <2> QED BY <2>1, <2>2
<1> DEFINE Good == {i \in Nat : i <= WindowSize => h[i] = g[i]}
<1>10. 0 \in Good
  BY <1>4, <1>9
<1>11. ASSUME NEW i \in Nat, i \in Good PROVE i + 1 \in Good
  <2>1. CASE i + 1 <= WindowSize
    <3>1. i + 1 \in 1 .. WindowSize /\ (i + 1) - 1 = i /\ i <= WindowSize
      BY <1>0, <2>1
    <3>2. h[i] = g[i]
      BY <1>11, <3>1
    <3>3. h[i + 1] = bits[i] * h[i] /\ g[i + 1] = bits[i] * g[i]
      BY <1>5, <1>9, <3>1
    <3> QED BY <3>2, <3>3
  <2> QED BY <2>1
<1> HIDE DEF Good
<1>12. Nat \subseteq Good
  BY <1>10, <1>11, SetInduction
<1>13. \A b \in 0 .. WindowSize : h[b] \in {0, 1}
  <2> TAKE b \in 0 .. WindowSize
  <2>1. b \in Nat /\ b <= WindowSize
    BY <1>0
  <2>2. h[b] = g[b]
    BY <1>12, <2>1 DEF Good
  <2> QED BY <1>4, <2>2
<1>14. h = [b \in 0 .. WindowSize |-> h[b]]
  <2>1. D(h) => h = [b \in 0 .. WindowSize |-> h[b]]
    OBVIOUS
  <2> QED BY <1>7, <2>1
<1>15. h \in [0 .. WindowSize -> {0, 1}]
  BY <1>13, <1>14
<1> QED BY <1>8, <1>9, <1>15 DEF IsRipple

\* The borrows of SubtractFromBase.
Minuend(b) == IF b = WindowSize THEN 1 ELSE 0
BorrowOut(bits, b, x) ==
    IF \/ Minuend(b) = 0 /\ (bits[b] = 1 \/ x = 1)
       \/ bits[b] = 1 /\ x = 1
    THEN 1 ELSE 0
IsBorrow(h, bits) ==
    /\ h \in [0 .. WindowSize -> {0, 1}] /\ h[0] = 0
    /\ \A b \in 1 .. WindowSize : h[b] = BorrowOut(bits, b - 1, h[b - 1])
    /\ SubtractFromBase(bits) = [b \in 0 .. WindowSize - 2 |-> (Minuend(b) + bits[b] + h[b]) % 2]

\* The recursion behind SubtractFromBase is well defined.
LEMMA BorrowExists ==
    ASSUME NEW bits, IsBits(bits, WindowSize + 1)
    PROVE  \E h : IsBorrow(h, bits)
<1> DEFINE D(q) == q = [b \in 0 .. WindowSize |-> IF b = 0 THEN 0 ELSE BorrowOut(bits, b - 1, q[b - 1])]
           T == {0, 1}
           step == [b \in 1 .. WindowSize |-> [x \in T |-> BorrowOut(bits, b - 1, x)]]
           h == CHOOSE q : D(q)
<1>0. WindowSize \in Nat /\ 0 \in T
      /\ \A b \in 1 .. WindowSize : b - 1 \in 0 .. WindowSize /\ bits[b - 1] \in {0, 1}
  <2>1. WindowSize \in Nat
    BY Shape
  <2> QED BY <2>1 DEF IsBits
<1>1. step \in [1 .. WindowSize -> [T -> T]]
  <2>1. \A b \in 1 .. WindowSize : \A x \in T : BorrowOut(bits, b - 1, x) \in T
    BY DEF BorrowOut
  <2> HIDE DEF T
  <2> QED BY <2>1
<1>2. \A b \in 1 .. WindowSize : \A x \in T : step[b][x] = BorrowOut(bits, b - 1, x)
  OBVIOUS
<1> HIDE DEF step
<1>3. PICK g : IsCourse(g, WindowSize, T, 0, step)
  <2> HIDE DEF T
  <2>1. 0 \in T
    BY DEF T
  <2> QED BY <1>0, <1>1, <2>1, LoopExists
<1>4. /\ g \in [0 .. WindowSize -> T] /\ g[0] = 0
      /\ \A b \in 1 .. WindowSize : g[b] = step[b][g[b - 1]]
  BY <1>3 DEF IsCourse
<1>5. \A b \in 1 .. WindowSize : g[b] = BorrowOut(bits, b - 1, g[b - 1])
  <2> TAKE b \in 1 .. WindowSize
  <2>1. b - 1 \in 0 .. WindowSize /\ g[b - 1] \in T
    BY <1>0, <1>4
  <2> HIDE DEF T
  <2> QED BY <1>2, <1>4, <2>1
<1>6. D(g)
  <2>1. \A b \in 0 .. WindowSize : g[b] = IF b = 0 THEN 0 ELSE BorrowOut(bits, b - 1, g[b - 1])
    <3> TAKE b \in 0 .. WindowSize
    <3>1. CASE b = 0
      BY <1>4, <3>1
    <3>2. CASE b # 0
      <4>1. b \in 1 .. WindowSize
        BY <3>2
      <4> QED BY <1>5, <3>2, <4>1
    <3> QED BY <3>1, <3>2
  <2> QED BY <1>4, <2>1
<1>7. D(h)
  BY <1>6
<1>8. SubtractFromBase(bits) = [b \in 0 .. WindowSize - 2 |-> (Minuend(b) + bits[b] + h[b]) % 2]
  BY DEF SubtractFromBase, BorrowOut, Minuend 
<1> HIDE DEF h
<1>9. h[0] = 0 /\ \A b \in 1 .. WindowSize : h[b] = BorrowOut(bits, b - 1, h[b - 1])
  <2>1. \A b \in 0 .. WindowSize : h[b] = IF b = 0 THEN 0 ELSE BorrowOut(bits, b - 1, h[b - 1])
    BY <1>7
  <2>2. 0 \in 0 .. WindowSize /\ \A b \in 1 .. WindowSize : b \in 0 .. WindowSize /\ b # 0
    BY <1>0
  <2> QED BY <2>1, <2>2
<1> DEFINE Good == {i \in Nat : i <= WindowSize => h[i] = g[i]}
<1>10. 0 \in Good
  BY <1>4, <1>9
<1>11. ASSUME NEW i \in Nat, i \in Good PROVE i + 1 \in Good
  <2>1. CASE i + 1 <= WindowSize
    <3>1. i + 1 \in 1 .. WindowSize /\ (i + 1) - 1 = i /\ i <= WindowSize
      BY <1>0, <2>1
    <3>2. h[i] = g[i]
      BY <1>11, <3>1
    <3>3. h[i + 1] = BorrowOut(bits, i, h[i]) /\ g[i + 1] = BorrowOut(bits, i, g[i])
      BY <1>5, <1>9, <3>1
    <3> QED BY <3>2, <3>3
  <2> QED BY <2>1
<1> HIDE DEF Good
<1>12. Nat \subseteq Good
  BY <1>10, <1>11, SetInduction
<1>13. \A b \in 0 .. WindowSize : h[b] \in {0, 1}
  <2> TAKE b \in 0 .. WindowSize
  <2>1. b \in Nat /\ b <= WindowSize
    BY <1>0
  <2>2. h[b] = g[b]
    BY <1>12, <2>1 DEF Good
  <2> QED BY <1>4, <2>2
<1>14. h = [b \in 0 .. WindowSize |-> h[b]]
  <2>1. D(h) => h = [b \in 0 .. WindowSize |-> h[b]]
    OBVIOUS
  <2> QED BY <1>7, <2>1
<1>15. h \in [0 .. WindowSize -> {0, 1}]
  BY <1>13, <1>14
<1> QED BY <1>8, <1>9, <1>15 DEF IsBorrow

\* The circuit's chunk is the window's number plus the carry.
LEMMA ChunkIs ==
    ASSUME NEW bits, IsBits(bits, WindowSize), NEW carry \in {0, 1}
    PROVE  /\ IsBits(ChunkBits(bits, carry), WindowSize + 1)
           /\ Number(ChunkBits(bits, carry), WindowSize + 1) = carry + Number(bits, WindowSize)
<1> DEFINE w == ChunkBits(bits, carry)
           N1(i) == Number(w, i)
           N2(i) == Number(bits, i)
<1>0. WindowSize \in Nat
  BY Shape
<1>1. PICK h : IsRipple(h, bits, carry)
  BY RippleExists
<1>2. /\ h \in [0 .. WindowSize -> {0, 1}] /\ h[0] = carry
      /\ \A b \in 1 .. WindowSize : h[b] = bits[b - 1] * h[b - 1]
      /\ w = [b \in 0 .. WindowSize |-> IF b = WindowSize THEN h[b] ELSE (bits[b] + h[b]) % 2]
  BY <1>1 DEF IsRipple
<1> HIDE DEF w
<1>3. \A b \in 0 .. WindowSize - 1 : bits[b] \in {0, 1}
  BY DEF IsBits
<1>4. \A b \in 0 .. WindowSize - 1 :
         /\ h[b] \in {0, 1} /\ h[b + 1] \in {0, 1}
         /\ w[b] \in {0, 1} /\ bits[b] + h[b] = w[b] + 2 * h[b + 1]
  <2> TAKE b \in 0 .. WindowSize - 1
  <2>1. b \in 0 .. WindowSize /\ b # WindowSize /\ b + 1 \in 1 .. WindowSize /\ (b + 1) - 1 = b
        /\ b + 1 \in 0 .. WindowSize
    BY <1>0
  <2>2. h[b] \in {0, 1} /\ h[b + 1] \in {0, 1} /\ h[b + 1] = bits[b] * h[b] /\ bits[b] \in {0, 1}
    BY <1>2, <1>3, <2>1
  <2>3. w[b] = (bits[b] + h[b]) % 2
    BY <1>2, <2>1
  <2> QED BY <2>2, <2>3
<1>5. w[WindowSize] = h[WindowSize] /\ h[WindowSize] \in {0, 1}
  BY <1>0, <1>2
<1>6. IsBits(w, WindowSize + 1)
  <2>1. ASSUME NEW i \in 0 .. (WindowSize + 1) - 1 PROVE w[i] \in {0, 1}
    <3>1. i = WindowSize \/ i \in 0 .. WindowSize - 1
      BY <1>0
    <3> QED BY <1>4, <1>5, <3>1
  <2> QED BY <1>0, <2>1 DEF IsBits
<1> DEFINE Good == {i \in Nat : i <= WindowSize => N1(i) + h[i] * TwoTo(i) = carry + N2(i)}
<1>7. 0 \in Good
  <2>1. N1(0) = 0 /\ N2(0) = 0 /\ TwoTo(0) = 1
    BY DigitsNone, TwoToLaws DEF Number
  <2>2. h[0] = carry /\ carry \in Nat
    BY <1>2
  <2> QED BY <2>1, <2>2
<1>8. ASSUME NEW i \in Nat, i \in Good PROVE i + 1 \in Good
  <2>1. CASE i + 1 <= WindowSize
    <3>1. i \in 0 .. WindowSize - 1 /\ i <= WindowSize /\ IsBits(w, i + 1) /\ IsBits(bits, i + 1)
      BY <1>0, <1>6, <2>1 DEF IsBits
    <3> DEFINE t == TwoTo(i)
               n1 == N1(i)
               n2 == N2(i)
    <3>2. /\ N1(i + 1) = n1 + w[i] * t /\ IsBits(w, i)
          /\ N2(i + 1) = n2 + bits[i] * t /\ IsBits(bits, i)
      BY <3>1, NumberGrows
    <3>3. n1 \in Nat /\ n2 \in Nat /\ t \in Nat /\ TwoTo(i + 1) = 2 * t
      BY <3>2, NumberRange, TwoToLaws
    <3>4. n1 + h[i] * t = carry + n2
      BY <1>8, <3>1
    <3> HIDE DEF t, n1, n2
    <3>5. /\ h[i] \in {0, 1} /\ h[i + 1] \in {0, 1} /\ w[i] \in {0, 1} /\ bits[i] \in {0, 1}
          /\ bits[i] + h[i] = w[i] + 2 * h[i + 1]
      BY <1>3, <1>4, <3>1
    <3>6. (n1 + w[i] * t) + h[i + 1] * (2 * t) = carry + (n2 + bits[i] * t)
      <4>1. h[i] * t + bits[i] * t = w[i] * t + h[i + 1] * (2 * t)
        <5> DEFINE a == h[i]
                   b == bits[i]
                   c == w[i]
                   d == h[i + 1]
        <5>1. a \in Int /\ b \in Int /\ c \in Int /\ d \in Int /\ b + a = c + 2 * d
          BY <3>5
        <5> HIDE DEF a, b, c, d
        <5>2. (b + a) * t = (c + 2 * d) * t
          BY <5>1
        <5>3. a * t + b * t = c * t + d * (2 * t)
          BY <3>3, <5>1, <5>2
        <5> QED BY <5>3 DEF a, b, c, d
      <4>2. h[i] * t \in Int /\ bits[i] * t \in Int /\ w[i] * t \in Int /\ h[i + 1] * (2 * t) \in Int
            /\ carry \in Int
        <5>1. h[i] \in Int /\ bits[i] \in Int /\ w[i] \in Int /\ h[i + 1] \in Int /\ carry \in Int
          BY <3>5
        <5>2. \A x, y \in Int : x * y \in Int
          OBVIOUS
        <5>3. t \in Int /\ 2 * t \in Int
          BY <3>3
        <5> QED BY <5>1, <5>2, <5>3
      <4> DEFINE p == h[i] * t
                 q == bits[i] * t
                 r == w[i] * t
                 s == h[i + 1] * (2 * t)
      <4>3. /\ p \in Int /\ q \in Int /\ r \in Int /\ s \in Int /\ p + q = r + s
            /\ n1 + p = carry + n2
        BY <3>4, <4>1, <4>2
      <4> HIDE DEF p, q, r, s
      <4>4. (n1 + r) + s = carry + (n2 + q)
        BY <3>3, <4>2, <4>3
      <4> QED BY <4>4 DEF q, r, s
    <3> QED BY <3>2, <3>3, <3>6
  <2> QED BY <2>1
<1> HIDE DEF Good
<1>9. Nat \subseteq Good
  BY <1>7, <1>8, SetInduction
<1>10. N1(WindowSize) + h[WindowSize] * TwoTo(WindowSize) = carry + N2(WindowSize)
  BY <1>0, <1>9 DEF Good
<1>11. Number(w, WindowSize + 1) = N1(WindowSize) + w[WindowSize] * TwoTo(WindowSize)
  BY <1>0, <1>6, NumberGrows
<1> QED BY <1>5, <1>6, <1>10, <1>11 DEF w

\* The bits of SubtractFromBase, with the last borrow.
LEMMA BorrowIs ==
    ASSUME NEW bits, IsBits(bits, WindowSize + 1)
    PROVE  /\ IsBits(SubtractFromBase(bits), WindowSize - 1)
           /\ \E x \in {0, 1} : Number(SubtractFromBase(bits), WindowSize - 1)
                                  + Number(bits, WindowSize - 1) = x * Half
<1> DEFINE d == SubtractFromBase(bits)
           N1(i) == Number(d, i)
           N2(i) == Number(bits, i)
           n == WindowSize - 1
<1>0. WindowSize \in Nat /\ n \in Nat /\ n < WindowSize /\ WindowSize - 2 = n - 1 /\ TwoTo(n) = Half
  BY Shape
<1>1. PICK h : IsBorrow(h, bits)
  BY BorrowExists
<1>2. /\ h \in [0 .. WindowSize -> {0, 1}] /\ h[0] = 0
      /\ \A b \in 1 .. WindowSize : h[b] = BorrowOut(bits, b - 1, h[b - 1])
      /\ d = [b \in 0 .. WindowSize - 2 |-> (Minuend(b) + bits[b] + h[b]) % 2]
  BY <1>1 DEF IsBorrow
<1> HIDE DEF d, n
<1>3. \A b \in 0 .. n - 1 :
         /\ h[b] \in {0, 1} /\ h[b + 1] \in {0, 1} /\ bits[b] \in {0, 1}
         /\ d[b] \in {0, 1} /\ d[b] + bits[b] + h[b] = 2 * h[b + 1]
  <2> TAKE b \in 0 .. n - 1
  <2>1. b \in 0 .. WindowSize /\ b # WindowSize /\ b + 1 \in 1 .. WindowSize /\ (b + 1) - 1 = b
        /\ b + 1 \in 0 .. WindowSize /\ b \in 0 .. WindowSize - 2 /\ b \in 0 .. (WindowSize + 1) - 1
    BY <1>0
  <2>2. /\ h[b] \in {0, 1} /\ h[b + 1] \in {0, 1} /\ bits[b] \in {0, 1}
        /\ h[b + 1] = BorrowOut(bits, b, h[b])
    BY <1>2, <2>1 DEF IsBits
  <2>3. Minuend(b) = 0
    BY <2>1 DEF Minuend
  <2>4. d[b] = (0 + bits[b] + h[b]) % 2
    BY <1>2, <2>1, <2>3
  <2>5. h[b + 1] = IF bits[b] = 1 \/ h[b] = 1 THEN 1 ELSE 0
    BY <2>2, <2>3 DEF BorrowOut
  <2> QED BY <2>2, <2>4, <2>5
<1>4. IsBits(d, n) /\ IsBits(bits, n)
  BY <1>0, <1>3 DEF IsBits
<1> DEFINE Good == {i \in Nat : i <= n => N1(i) + N2(i) = h[i] * TwoTo(i)}
<1>7. 0 \in Good
  <2>1. N1(0) = 0 /\ N2(0) = 0 /\ TwoTo(0) = 1
    BY DigitsNone, TwoToLaws DEF Number
  <2> QED BY <1>2, <2>1
<1>8. ASSUME NEW i \in Nat, i \in Good PROVE i + 1 \in Good
  <2>1. CASE i + 1 <= n
    <3>1. i \in 0 .. n - 1 /\ i <= n /\ IsBits(d, i + 1) /\ IsBits(bits, i + 1)
      BY <1>0, <1>4, <2>1 DEF IsBits
    <3> DEFINE t == TwoTo(i)
               n1 == N1(i)
               n2 == N2(i)
    <3>2. /\ N1(i + 1) = n1 + d[i] * t /\ IsBits(d, i)
          /\ N2(i + 1) = n2 + bits[i] * t /\ IsBits(bits, i)
      BY <3>1, NumberGrows
    <3>3. n1 \in Nat /\ n2 \in Nat /\ t \in Nat /\ TwoTo(i + 1) = 2 * t
      BY <3>2, NumberRange, TwoToLaws
    <3>4. n1 + n2 = h[i] * t
      BY <1>8, <3>1
    <3> HIDE DEF t, n1, n2
    <3>5. /\ h[i] \in {0, 1} /\ h[i + 1] \in {0, 1} /\ d[i] \in {0, 1} /\ bits[i] \in {0, 1}
          /\ d[i] + bits[i] + h[i] = 2 * h[i + 1]
      BY <1>3, <3>1
    <3>6. (n1 + d[i] * t) + (n2 + bits[i] * t) = h[i + 1] * (2 * t)
      <4> DEFINE a == h[i]
                 b == bits[i]
                 c == d[i]
                 e == h[i + 1]
      <4>1. a \in Int /\ b \in Int /\ c \in Int /\ e \in Int /\ c + b + a = 2 * e /\ n1 + n2 = a * t
        BY <3>4, <3>5
      <4> HIDE DEF a, b, c, e
      <4>2. (c + b + a) * t = (2 * e) * t
        BY <4>1
      <4>3. (n1 + c * t) + (n2 + b * t) = e * (2 * t)
        BY <3>3, <4>1, <4>2
      <4> QED BY <4>3 DEF a, b, c, e
    <3> QED BY <3>2, <3>3, <3>6
  <2> QED BY <2>1
<1> HIDE DEF Good
<1>9. Nat \subseteq Good
  BY <1>7, <1>8, SetInduction
<1>10. N1(n) + N2(n) = h[n] * TwoTo(n)
  BY <1>0, <1>9 DEF Good
<1>11. h[n] \in {0, 1}
  BY <1>0, <1>2
<1> QED BY <1>0, <1>4, <1>10, <1>11 DEF d, n

--------------------------------------------------------------------------------
(***************************************************************************)
(* Host and circuit recode alike.                                          *)
(***************************************************************************)
\* Digit and carry of a chunk.
SignedDigit(chunk) ==
    IF chunk = Half THEN 0 ELSE IF chunk > Half THEN chunk - Base ELSE chunk
CarryOut(chunk) == IF chunk >= Half THEN 1 ELSE 0

\* The digit is a sign and an index into the table, and a chunk of Half gains Half.
LEMMA SignedDigitIs ==
    ASSUME NEW chunk \in 0 .. Base
    PROVE  /\ SignedDigit(chunk) \in Digits /\ CarryOut(chunk) \in {0, 1}
           /\ SignedDigit(chunk) + CarryOut(chunk) * Base = chunk + (IF chunk = Half THEN Half ELSE 0)
<1>1. Half \in Nat /\ Half >= 2 /\ Base = 2 * Half /\ chunk \in Nat /\ chunk <= Base
  BY Shape
<1>2. CASE chunk = Half
  BY <1>1, <1>2 DEF SignedDigit, CarryOut, Digits
<1>3. CASE chunk > Half
  BY <1>1, <1>3 DEF SignedDigit, CarryOut, Digits
<1>4. CASE chunk < Half
  BY <1>1, <1>4 DEF SignedDigit, CarryOut, Digits
<1> QED BY <1>1, <1>2, <1>3, <1>4

\* recode_signed_window6_inner computes them.
LEMMA HostIs ==
    ASSUME NEW chunk \in 0 .. Base, NEW carry \in {0, 1}
    PROVE  HostDigit(chunk) = SignedDigit(chunk) /\ HostCarry(chunk, carry) = CarryOut(chunk)
<1>1. Half \in Nat /\ Half >= 2 /\ Base = 2 * Half /\ chunk \in Nat /\ chunk <= Base
  BY Shape
<1>2. HostDigit(chunk) = SignedDigit(chunk)
  BY <1>1 DEF HostDigit, SignedDigit
<1>3. 0 \div Base = 0 /\ Base \div Base = 1
  <2>1. Base \in Nat \ {0} /\ 0 \in 0 .. Base - 1 /\ 0 * Base + 0 = 0 /\ 1 * Base + 0 = Base
    BY <1>1
  <2>2. (0 * Base + 0) \div Base = 0 /\ (1 * Base + 0) \div Base = 1
    BY <2>1, DivMod
  <2> QED BY <2>1, <2>2
<1>4. CASE chunk < Half
  <2>1. HostDigit(chunk) = chunk /\ chunk - chunk = 0
    BY <1>1, <1>2, <1>4 DEF SignedDigit
  <2> QED BY <1>1, <1>2, <1>3, <1>4, <2>1 DEF HostCarry, CarryOut
<1>5. CASE chunk = Half
  BY <1>1, <1>2, <1>5 DEF HostCarry, CarryOut
<1>6. CASE chunk > Half
  <2>1. HostDigit(chunk) = chunk - Base /\ chunk - (chunk - Base) = Base
    BY <1>1, <1>2, <1>6 DEF SignedDigit
  <2> QED BY <1>1, <1>2, <1>3, <1>6, <2>1 DEF HostCarry, CarryOut
<1> QED BY <1>1, <1>2, <1>4, <1>5, <1>6

\* And so do the wires of enforce_secp_fixed_base_mul.
LEMMA CircuitIs ==
    ASSUME NEW bits, IsBits(bits, WindowSize + 1), Number(bits, WindowSize + 1) <= Base
    PROVE  LET chunk == Number(bits, WindowSize + 1)
           IN  CircuitDigit(bits) = SignedDigit(chunk) /\ CircuitCarry(bits) = CarryOut(chunk)
<1> DEFINE chunk == Number(bits, WindowSize + 1)
           low == Number(bits, WindowSize - 1)
           hi == bits[WindowSize - 1]
           top == bits[WindowSize]
           n == WindowSize - 1
<1>1. /\ Half \in Nat /\ Half >= 2 /\ Base = 2 * Half /\ n \in Nat /\ TwoTo(n) = Half
      /\ WindowSize - 2 = n - 1 /\ n - 1 \in Nat
  BY Shape
<1>2. /\ low \in Nat /\ low < Half /\ hi \in {0, 1} /\ top \in {0, 1}
      /\ chunk = low + hi * Half + top * Base
  BY ChunkSplit
<1>3. IsBits(bits, n)
  <2>1. WindowSize \in Nat /\ n \in Nat /\ n = WindowSize - 1
    BY Shape
  <2> HIDE DEF n
  <2>2. \A i \in 0 .. n - 1 : i \in 0 .. (WindowSize + 1) - 1
    BY <2>1
  <2> QED BY <2>1, <2>2 DEF IsBits
<1>4. chunk \in Nat /\ chunk <= Base
  BY <1>1, <1>2
<1>5. CircuitCarry(bits) = CarryOut(chunk)
  BY DEF CircuitCarry, CarryOut
<1>6. CASE chunk > Half
  <2> DEFINE mag == SubtractFromBase(bits)
  <2>1. CircuitDigit(bits) = - Number(mag, n)
    BY <1>6 DEF CircuitDigit
  <2>2. IsBits(mag, n) /\ \E x \in {0, 1} : Number(mag, n) + low = x * Half
    BY BorrowIs
  <2>3. Number(mag, n) \in Nat /\ Number(mag, n) < Half
    BY <1>1, <2>2, NumberRange
  <2> DEFINE y == Number(mag, n)
  <2> HIDE DEF mag, y
  <2>4. PICK x \in {0, 1} : y + low = x * Half
    BY <2>2 DEF y
  <2>5. y \in Nat /\ y < Half /\ CircuitDigit(bits) = - y
    BY <2>1, <2>3 DEF y
  <2> HIDE DEF chunk, low, hi, top
  <2>6. y = Base - chunk
    <3>1. CASE top = 1
      BY <1>1, <1>2, <1>4, <2>4, <2>5, <3>1
    <3>2. CASE top = 0
      BY <1>1, <1>2, <1>4, <1>6, <2>4, <2>5, <3>2
    <3> QED BY <1>2, <3>1, <3>2
  <2>7. SignedDigit(chunk) = chunk - Base
    BY <1>1, <1>4, <1>6 DEF SignedDigit
  <2>8. CircuitDigit(bits) = SignedDigit(chunk)
    BY <1>1, <1>4, <2>5, <2>6, <2>7
  <2> QED BY <1>5, <2>8 DEF chunk
<1>7. CASE ~ chunk > Half
  <2> DEFINE mag == [b \in 0 .. WindowSize - 2 |-> IF chunk = Half THEN 0 ELSE bits[b]]
  <2>1. CircuitDigit(bits) = Number(mag, n)
    BY <1>7 DEF CircuitDigit
  <2>2. CASE chunk = Half
    <3>1. \A b \in 0 .. n - 1 : mag[b] = 0
      BY <1>1, <2>2
    <3> HIDE DEF mag, n
    <3>2. Number(mag, n) = 0
      BY <1>1, <3>1, NumberZero
    <3> QED BY <1>5, <2>1, <2>2, <3>2 DEF SignedDigit
  <2>3. CASE chunk # Half
    <3>1. \A b \in 0 .. n - 1 : bits[b] = mag[b]
      BY <1>1, <2>3
    <3> HIDE DEF mag, n
    <3>2. Number(mag, n) = Number(bits, n)
      BY <1>3, <3>1, NumberSame
    <3>3. Number(bits, n) = chunk
      <4>1. Number(bits, n) = low
        BY DEF n
      <4> HIDE DEF chunk, low, hi, top
      <4>2. low = chunk
        BY <1>1, <1>2, <1>4, <1>7, <2>3
      <4> QED BY <4>1, <4>2
    <3> QED BY <1>5, <1>7, <2>1, <2>3, <3>2, <3>3 DEF SignedDigit
  <2> QED BY <2>2, <2>3
<1> QED BY <1>6, <1>7

\* The bits of a window are bits.
LEMMA BitIs ==
    ASSUME NEW m \in Nat, NEW i \in Nat
    PROVE  Bit(m, i) \in {0, 1}
<1>1. TwoTo(i) \in Nat \ {0}
  BY TwoToLaws
<1>2. m \div TwoTo(i) \in Int
  BY <1>1
<1>3. (m \div TwoTo(i)) % 2 \in {0, 1}
  BY <1>2
<1> QED BY <1>3 DEF Bit

\* Those of a window stand for a number below Base.
LEMMA WindowBitsAre ==
    ASSUME NEW m \in Nat, NEW w \in Nat
    PROVE  /\ IsBits(WindowBits(m, w), WindowSize)
           /\ Number(WindowBits(m, w), WindowSize) \in Nat
           /\ Number(WindowBits(m, w), WindowSize) < Base
<1>1. WindowSize \in Nat /\ TwoTo(WindowSize) = Base
  BY Shape
<1>2. \A b \in 0 .. WindowSize - 1 : WindowBits(m, w)[b] \in {0, 1}
  <2> TAKE b \in 0 .. WindowSize - 1
  <2>1. w * WindowSize + b \in Nat
    BY <1>1
  <2>2. Bit(m, w * WindowSize + b) \in {0, 1}
    BY <2>1, BitIs
  <2> QED BY <2>2 DEF WindowBits
<1>3. IsBits(WindowBits(m, w), WindowSize)
  BY <1>1, <1>2 DEF IsBits
<1> QED BY <1>1, <1>3, NumberRange

\* The slack of the last window: its two highest bits are zero.
LEMMA LastWindow ==
    ASSUME NEW m \in Nat
    PROVE  Number(WindowBits(m, NumWindows - 1), WindowSize) < TwoTo(WindowSize - 2)
<1> DEFINE w == NumWindows - 1
           bits == WindowBits(m, w)
           k == WindowSize - 2
<1>1. /\ WindowSize \in Nat /\ NumWindows \in Nat /\ k \in Nat /\ w \in Nat
      /\ WindowSize - 1 = k + 1 /\ WindowSize = (k + 1) + 1 /\ TotalBits \in Nat
      /\ TotalBits <= WindowSize * NumWindows - 2
  BY Shape
<1>2. \A b \in {k, k + 1} : bits[b] = 0
  <2> TAKE b \in {k, k + 1}
  <2>1. b \in 0 .. WindowSize - 1
    BY <1>1
  <2>2. w * WindowSize + b >= TotalBits
    <3>1. w * WindowSize = WindowSize * NumWindows - WindowSize
      BY <1>1
    <3>2. WindowSize * NumWindows \in Int
      BY <1>1
    <3> DEFINE p == WindowSize * NumWindows
    <3>3. p \in Int /\ w * WindowSize = p - WindowSize /\ TotalBits <= p - 2
      BY <1>1, <3>1, <3>2
    <3> HIDE DEF p
    <3> QED BY <1>1, <3>3
  <2>3. Bit(m, w * WindowSize + b) = 0
    <3>1. w * WindowSize + b \in Int
      BY <1>1
    <3> QED BY <1>1, <2>2, <3>1 DEF Bit
  <2> QED BY <2>1, <2>3 DEF WindowBits
<1>3. IsBits(bits, WindowSize)
  BY <1>1, WindowBitsAre
<1> HIDE DEF w, bits, k
<1>4. Number(bits, (k + 1) + 1) = Number(bits, k + 1) + bits[k + 1] * TwoTo(k + 1) /\ IsBits(bits, k + 1)
  BY <1>1, <1>3, NumberGrows
<1>5. Number(bits, k + 1) = Number(bits, k) + bits[k] * TwoTo(k) /\ IsBits(bits, k)
  BY <1>1, <1>4, NumberGrows
<1>6. TwoTo(k) \in Nat /\ TwoTo(k + 1) \in Nat
  BY <1>1, TwoToLaws
<1>7. Number(bits, k) \in Nat /\ Number(bits, k) < TwoTo(k)
  BY <1>5, NumberRange
<1>8. Number(bits, WindowSize) = Number(bits, k)
  BY <1>1, <1>2, <1>4, <1>5, <1>6, <1>7
<1> QED BY <1>7, <1>8 DEF bits, w, k

\* The two loops in step, with no carry left after the last window.
RecodeInv ==
    /\ scalar \in Nat /\ window \in 0 .. NumWindows
    /\ host = circuit
    /\ host.digits \in [0 .. NumWindows - 1 -> Digits] /\ host.carry \in {0, 1}
    /\ window = NumWindows => host.carry = 0

Chunk == host.carry + Number(WindowBits(scalar, window), WindowSize)

\* One turn of the two loops is the same turn.
LEMMA StepIs ==
    ASSUME RecodeInv, Step
    PROVE  /\ window \in 0 .. NumWindows - 1 /\ window' = window + 1 /\ scalar' = scalar
           /\ Chunk \in 0 .. Base
           /\ host' = Accumulate(host, window, SignedDigit(Chunk), CarryOut(Chunk))
           /\ circuit' = host'
<1> DEFINE bits == WindowBits(scalar, window)
           wires == ChunkBits(bits, host.carry)
<1>1. /\ scalar \in Nat /\ window \in 0 .. NumWindows - 1 /\ window \in Nat
      /\ host.carry \in {0, 1} /\ circuit = host
  BY Shape DEF RecodeInv, Step
<1>2. IsBits(bits, WindowSize) /\ Number(bits, WindowSize) \in Nat /\ Number(bits, WindowSize) < Base
  BY <1>1, WindowBitsAre
<1>3. Chunk = host.carry + Number(bits, WindowSize) /\ Chunk \in 0 .. Base
  <2>1. Base \in Nat
    BY Shape
  <2> QED BY <1>1, <1>2, <2>1 DEF Chunk
<1>4. IsBits(wires, WindowSize + 1) /\ Number(wires, WindowSize + 1) = Chunk
  BY <1>1, <1>2, <1>3, ChunkIs
<1>5. Number(wires, WindowSize + 1) <= Base
  BY <1>3, <1>4, Shape
<1>6. CircuitDigit(wires) = SignedDigit(Chunk) /\ CircuitCarry(wires) = CarryOut(Chunk)
  BY <1>4, <1>5, CircuitIs
<1>7. HostDigit(Chunk) = SignedDigit(Chunk) /\ HostCarry(Chunk, host.carry) = CarryOut(Chunk)
  BY <1>1, <1>3, HostIs
<1>8. /\ host' = Accumulate(host, window, HostDigit(Chunk), HostCarry(Chunk, host.carry))
      /\ circuit' = Accumulate(host, window, CircuitDigit(wires), CircuitCarry(wires))
      /\ window' = window + 1 /\ scalar' = scalar
  BY <1>1, <1>3 DEF Step
<1> QED BY <1>1, <1>3, <1>6, <1>7, <1>8

\* It holds in every reachable state.
LEMMA RecodeInvCorrect == RecodeSpec => []RecodeInv
<1>1. RecodeInit => RecodeInv
  <2> SUFFICES ASSUME RecodeInit PROVE RecodeInv
    OBVIOUS
  <2>1. scalar \in Nat
    <3>1. TwoTo(TotalBits) \in Nat
      BY Shape, TwoToLaws
    <3> QED BY <3>1 DEF RecodeInit
  <2>2. window = 0 /\ host = Fresh /\ circuit = Fresh
    BY DEF RecodeInit
  <2>3. 0 \in Digits
    BY Shape DEF Digits
  <2>4. Fresh.digits \in [0 .. NumWindows - 1 -> Digits] /\ Fresh.carry = 0
    BY <2>3 DEF Fresh
  <2> QED BY <2>1, <2>2, <2>4, Shape DEF RecodeInv
<1>2. RecodeInv /\ [RecodeNext]_recodeVars => RecodeInv'
  <2> SUFFICES ASSUME RecodeInv, [RecodeNext]_recodeVars PROVE RecodeInv'
    OBVIOUS
  <2>1. CASE Step
    <3> DEFINE digit == SignedDigit(Chunk)
               carry == CarryOut(Chunk)
    <3>1. /\ window \in 0 .. NumWindows - 1 /\ window' = window + 1 /\ scalar' = scalar
          /\ Chunk \in 0 .. Base /\ circuit' = host'
          /\ host' = Accumulate(host, window, digit, carry)
      BY <2>1, StepIs
    <3>2. digit \in Digits /\ carry \in {0, 1}
      BY <3>1, SignedDigitIs
    <3> HIDE DEF digit, carry
    <3>3. host'.digits = [host.digits EXCEPT ![window] = digit] /\ host'.carry = carry
      <4>1. /\ Accumulate(host, window, digit, carry).digits = [host.digits EXCEPT ![window] = digit]
            /\ Accumulate(host, window, digit, carry).carry = carry
        BY DEF Accumulate
      <4> QED BY <3>1, <4>1
    <3>4. scalar \in Nat /\ host.digits \in [0 .. NumWindows - 1 -> Digits] /\ host.carry \in {0, 1}
      BY DEF RecodeInv
    <3>5. host'.digits \in [0 .. NumWindows - 1 -> Digits]
      BY <3>2, <3>3, <3>4
    <3>6. window' \in 0 .. NumWindows
      BY <3>1, Shape
    <3>7. ASSUME window' = NumWindows PROVE carry = 0
      <4>1. window = NumWindows - 1
        BY <3>1, <3>7, Shape
      <4> DEFINE k == TwoTo(WindowSize - 2)
                 d == Number(WindowBits(scalar, window), WindowSize)
      <4>2. d < k
        BY <3>4, <4>1, LastWindow
      <4>3. d \in Nat
        <5>1. window \in Nat
          BY <3>1
        <5> QED BY <3>4, <5>1, WindowBitsAre
      <4>4. k \in Nat /\ 2 * k = Half /\ Half \in Nat
        <5>1. WindowSize - 2 \in Nat
          BY Shape
        <5> QED BY <5>1, Shape, TwoToLaws
      <4>5. Chunk = host.carry + d
        BY DEF Chunk
      <4> HIDE DEF k, d
      <4>6. Chunk < Half
        BY <3>4, <4>2, <4>3, <4>4, <4>5
      <4> QED BY <3>1, <4>4, <4>6 DEF carry, CarryOut
    <3> QED BY <3>1, <3>2, <3>3, <3>4, <3>5, <3>6, <3>7 DEF RecodeInv
  <2>2. CASE UNCHANGED recodeVars
    BY <2>2 DEF RecodeInv, recodeVars
  <2> QED BY <2>1, <2>2 DEF RecodeNext
<1> QED BY <1>1, <1>2, PTL DEF RecodeSpec

\* scalar_bytes_to_point and enforce_secp_fixed_base_mul: for every scalar, window size and
\* number of windows with two bits of slack, the host's digits and carries are those of the
\* circuit's wires after every window, and no carry is left, so the bytes satisfy the
\* circuit for the point the host made from them.
THEOREM HostAlwaysMatches == RecodeSpec => []HostMatchesCircuit
<1>1. RecodeInv => HostMatchesCircuit
  BY DEF RecodeInv, HostMatchesCircuit, Done, Satisfied
<1> QED BY <1>1, RecodeInvCorrect, PTL

--------------------------------------------------------------------------------
(***************************************************************************)
(* What the digits are worth.                                              *)
(***************************************************************************)
\* Division by a product.
LEMMA DivDiv ==
    ASSUME NEW a \in Nat, NEW b \in Nat \ {0}, NEW c \in Nat \ {0}
    PROVE  /\ a \div (b * c) = (a \div b) \div c
           /\ a % (b * c) = b * ((a \div b) % c) + (a % b)
           /\ a \div b \in Nat /\ a % b \in 0 .. b - 1 /\ (a \div b) % c \in 0 .. c - 1
<1> DEFINE q == a \div b
           r == a % b
           s == q \div c
           t == q % c
<1>1. q \in Nat /\ r \in Nat /\ r < b /\ a = b * q + r
  <2>1. q \in Int /\ r \in 0 .. b - 1 /\ a = b * q + r
    OBVIOUS
  <2> HIDE DEF q, r
  <2>2. q >= 0
    <3>1. CASE q < 0
      <4>1. q <= -1 /\ b * q <= b * (-1)
        BY <2>1, <3>1
      <4> QED BY <2>1, <4>1
    <3> QED BY <2>1, <3>1
  <2> QED BY <2>1, <2>2
<1> HIDE DEF q, r
<1>2. s \in Nat /\ t \in Nat /\ t < c /\ q = c * s + t
  <2>1. s \in Int /\ t \in 0 .. c - 1 /\ q = c * s + t
    BY <1>1
  <2> HIDE DEF s, t
  <2>2. s >= 0
    <3>1. CASE s < 0
      <4>1. s <= -1 /\ c * s <= c * (-1)
        BY <2>1, <3>1
      <4> QED BY <1>1, <2>1, <4>1
    <3> QED BY <2>1, <3>1
  <2> QED BY <2>1, <2>2
<1> HIDE DEF s, t
<1> DEFINE m == b * c
           i == b * t + r
<1>3. m \in Nat \ {0} /\ i \in 0 .. m - 1
  <2>1. b * c \in Nat /\ b * c # 0 /\ b * t \in Nat /\ b * (t + 1) <= b * c
    BY <1>1, <1>2
  <2>2. b * (t + 1) = b * t + b
    BY <1>2
  <2> QED BY <1>1, <2>1, <2>2
<1>4. a = s * m + i
  <2>1. b * (c * s + t) = s * (b * c) + b * t
    BY <1>2
  <2>2. b * (c * s + t) \in Int /\ s * (b * c) \in Int /\ b * t \in Int
    BY <1>2
  <2> QED BY <1>1, <1>2, <2>1, <2>2
<1> HIDE DEF m, i
<1>5. a % m = i /\ a \div m = s
  BY <1>2, <1>3, <1>4, DivMod
<1>6. a \div (b * c) = q \div c
  BY <1>5 DEF m, s
<1>7. a % (b * c) = b * (q % c) + r
  BY <1>5 DEF m, i, t
<1>8. q \in Nat /\ r \in 0 .. b - 1 /\ q % c \in 0 .. c - 1
  <2>1. t \in 0 .. c - 1
    BY <1>2
  <2> QED BY <1>1, <2>1 DEF t
<1>9. a \div (b * c) = (a \div b) \div c
  BY <1>6 DEF q
<1>10. a % (b * c) = b * ((a \div b) % c) + (a % b)
  <2>1. r = a % b
    BY DEF r
  <2>2. q % c = (a \div b) % c
    BY DEF q
  <2> QED BY <1>7, <2>1, <2>2
<1>11. a \div b \in Nat /\ a % b \in 0 .. b - 1 /\ (a \div b) % c \in 0 .. c - 1
  BY <1>8 DEF q, r
<1> HIDE DEF q, r
<1> QED BY <1>9, <1>10, <1>11

\* The weights of the windows are powers of Base.
LEMMA WeightIs ==
    ASSUME NEW w \in Nat
    PROVE  /\ Weight(0) = 1 /\ Weight(w) \in Nat \ {0} /\ Weight(w) \in Nat
           /\ Weight(w + 1) = Weight(w) * Base
<1>1. WindowSize \in Nat /\ WindowSize * 0 = 0 /\ WindowSize * w \in Nat
      /\ WindowSize * (w + 1) = WindowSize * w + WindowSize
      /\ TwoTo(WindowSize) = Base
  BY Shape
<1>2. TwoTo(WindowSize * w + WindowSize) = TwoTo(WindowSize * w) * TwoTo(WindowSize)
  BY <1>1, TwoToPlus
<1> QED BY <1>1, <1>2, TwoToLaws DEF Weight

\* The low windows of a scalar.
LEMMA LowWindows ==
    ASSUME NEW m \in Nat, NEW w \in Nat
    PROVE  /\ Window(m, w) \in 0 .. Base - 1 /\ m % Weight(w) \in 0 .. Weight(w) - 1
           /\ m % Weight(w + 1) = Window(m, w) * Weight(w) + (m % Weight(w))
<1> DEFINE b == Weight(w)
           c == Base
<1>1. b \in Nat \ {0} /\ c \in Nat \ {0} /\ Weight(w + 1) = b * c
  BY WeightIs, Shape
<1>2. Window(m, w) = (m \div b) % c
  BY DEF Window
<1> HIDE DEF b, c
<1>3. /\ m % (b * c) = b * ((m \div b) % c) + (m % b)
      /\ m % b \in 0 .. b - 1 /\ (m \div b) % c \in 0 .. c - 1
  BY <1>1, DivDiv
<1>4. b * ((m \div b) % c) = ((m \div b) % c) * b
  BY <1>1, <1>3
<1> QED BY <1>1, <1>2, <1>3, <1>4 DEF b, c

\* Powers of two are ordered as their exponents.
LEMMA TwoToRises ==
    ASSUME NEW a \in Nat, NEW b \in Nat, a <= b
    PROVE  TwoTo(a) <= TwoTo(b)
<1>1. b - a \in Nat /\ b = a + (b - a)
  OBVIOUS
<1> DEFINE x == TwoTo(a)
           y == TwoTo(b - a)
<1>2. x \in Nat /\ y \in Nat \ {0}
  BY <1>1, TwoToLaws
<1>3. TwoTo(b) = x * y
  BY <1>1, TwoToPlus
<1> HIDE DEF x, y
<1>4. x <= x * y
  BY <1>2
<1> QED BY <1>3, <1>4 DEF x

\* A bit of a window, the padding of the last one included.
LEMMA BitOf ==
    ASSUME NEW m \in Nat, m < TwoTo(TotalBits), NEW i \in Nat
    PROVE  Bit(m, i) = (m \div TwoTo(i)) % 2
<1>1. CASE i < TotalBits
  BY <1>1 DEF Bit
<1>2. CASE ~ i < TotalBits
  <2> DEFINE t == TwoTo(i)
  <2>1. t \in Nat \ {0} /\ m < t
    <3>1. TotalBits \in Nat /\ TotalBits <= i
      BY <1>2, Shape
    <3>2. TwoTo(TotalBits) <= t
      BY <3>1, TwoToRises
    <3> QED BY <3>1, <3>2, TwoToLaws
  <2> HIDE DEF t
  <2>2. (0 * t + m) \div t = 0
    <3>1. m \in 0 .. t - 1 /\ 0 \in Nat
      BY <2>1
    <3> QED BY <2>1, <3>1, DivMod
  <2>3. 0 * t + m = m
    BY <2>1
  <2>4. m \div t = 0
    BY <2>2, <2>3
  <2> QED BY <1>2, <2>4 DEF Bit, t
<1> QED BY <1>1, <1>2

\* The number of a window's bits.
LEMMA WindowIs ==
    ASSUME NEW m \in Nat, m < TwoTo(TotalBits), NEW w \in Nat
    PROVE  Number(WindowBits(m, w), WindowSize) = Window(m, w)
<1> DEFINE bits == WindowBits(m, w)
           b == Weight(w)
           x == m \div b
           Good == {i \in Nat : i <= WindowSize => Number(bits, i) = x % TwoTo(i)}
<1>0. WindowSize \in Nat /\ TwoTo(WindowSize) = Base /\ b \in Nat \ {0} /\ x \in Nat
      /\ w * WindowSize \in Nat /\ b = TwoTo(w * WindowSize)
  <2>1. WindowSize \in Nat /\ w * WindowSize = WindowSize * w
    BY Shape
  <2>2. b \in Nat \ {0} /\ 1 \in Nat \ {0}
    BY WeightIs
  <2>3. x \in Nat
    <3> HIDE DEF b
    <3> QED BY <2>2, DivDiv
  <2> QED BY <2>1, <2>2, <2>3, Shape DEF Weight
<1>1. IsBits(bits, WindowSize)
  BY WindowBitsAre
<1> HIDE DEF x
<1>2. 0 \in Good
  <2>1. Number(bits, 0) = 0 /\ TwoTo(0) = 1
    BY DigitsNone, TwoToLaws DEF Number
  <2>2. x % 1 = 0
    BY <1>0
  <2> QED BY <2>1, <2>2
<1>3. ASSUME NEW i \in Nat, i \in Good PROVE i + 1 \in Good
  <2>1. CASE i + 1 <= WindowSize
    <3> DEFINE t == TwoTo(i)
    <3>1. i <= WindowSize /\ i \in 0 .. WindowSize - 1 /\ IsBits(bits, i + 1)
      BY <1>0, <1>1, <2>1 DEF IsBits
    <3>2. Number(bits, i + 1) = Number(bits, i) + bits[i] * t
      BY <3>1, NumberGrows
    <3>3. t \in Nat \ {0} /\ TwoTo(i + 1) = t * 2
      BY TwoToLaws
    <3>4. bits[i] = (x \div t) % 2
      <4>1. bits[i] = Bit(m, w * WindowSize + i)
        BY <3>1 DEF WindowBits
      <4>2. w * WindowSize + i \in Nat
        BY <1>0
      <4>3. Bit(m, w * WindowSize + i) = (m \div TwoTo(w * WindowSize + i)) % 2
        BY <4>2, BitOf
      <4>4. TwoTo(w * WindowSize + i) = b * t
        BY <1>0, TwoToPlus
      <4> HIDE DEF b, t
      <4>5. m \div (b * t) = (m \div b) \div t
        BY <1>0, <3>3, DivDiv
      <4> QED BY <4>1, <4>3, <4>4, <4>5 DEF x
    <3> HIDE DEF t
    <3>5. /\ x % (t * 2) = t * ((x \div t) % 2) + (x % t)
          /\ x % t \in 0 .. t - 1 /\ (x \div t) % 2 \in 0 .. 2 - 1
      <4>1. 2 \in Nat \ {0}
        OBVIOUS
      <4> QED BY <1>0, <3>3, <4>1, DivDiv
    <3>6. Number(bits, i) = x % t
      BY <1>3, <3>1 DEF t
    <3> DEFINE y == x % t
               z == (x \div t) % 2
    <3>7. y \in Int /\ z \in Int /\ Number(bits, i + 1) = y + z * t /\ x % (t * 2) = t * z + y
      <4>1. Number(bits, i + 1) = y + z * t
        <5>1. Number(bits, i) = y
          BY <3>6
        <5>2. bits[i] = z
          BY <3>4
        <5> HIDE DEF y, z
        <5> QED BY <3>2, <5>1, <5>2
      <4>2. x % (t * 2) = t * z + y /\ y \in 0 .. t - 1 /\ z \in 0 .. 2 - 1
        BY <3>5
      <4> HIDE DEF y, z
      <4>3. y \in Int /\ z \in Int
        BY <3>3, <4>2
      <4> QED BY <4>1, <4>2, <4>3
    <3> HIDE DEF y, z
    <3>8. y + z * t = t * z + y
      BY <3>3, <3>7
    <3> QED BY <3>3, <3>7, <3>8
  <2> QED BY <2>1
<1> HIDE DEF Good
<1>4. Nat \subseteq Good
  BY <1>2, <1>3, SetInduction
<1> QED BY <1>0, <1>4 DEF Good, Window, x

\* The number whose digits are all 1.
LEMMA RepunitIs ==
    ASSUME NEW w \in Nat
    PROVE  /\ Repunit(0) = 0 /\ Repunit(w) \in Nat
           /\ Weight(w) - 1 = (Base - 1) * Repunit(w)
           /\ Repunit(w + 1) = Weight(w) + Repunit(w)
<1> DEFINE d == Base - 1
           Good == {i \in Nat : Repunit(i) \in Nat /\ Weight(i) - 1 = d * Repunit(i)}
<1>0. d \in Nat \ {0} /\ Base = d + 1
  BY Shape
<1> HIDE DEF d
<1>1. \A q \in Nat : (q * d) \div d = q
  <2> TAKE q \in Nat
  <2>1. 0 \in 0 .. d - 1 /\ q * d + 0 = q * d
    BY <1>0
  <2>2. (q * d + 0) \div d = q
    BY <1>0, <2>1, DivMod
  <2> QED BY <2>1, <2>2
<1>2. \A i \in Nat : Repunit(i) = (Weight(i) - 1) \div d
  BY DEF Repunit, d
<1>3. Repunit(0) = 0 /\ 0 \in Good
  <2>1. Weight(0) - 1 = 0 * d /\ 0 = 0 * d /\ d * 0 = 0
    BY <1>0, WeightIs
  <2>2. Repunit(0) = 0
    BY <1>1, <1>2, <2>1
  <2> QED BY <2>1, <2>2
<1>4. ASSUME NEW i \in Nat, i \in Good
      PROVE  i + 1 \in Good /\ Repunit(i + 1) = Weight(i) + Repunit(i)
  <2> DEFINE x == Weight(i)
             r == Repunit(i)
  <2>1. x \in Nat /\ r \in Nat /\ x - 1 = d * r /\ Weight(i + 1) = x * Base
    BY <1>4, WeightIs
  <2> HIDE DEF x, r
  <2>2. x * Base - 1 = (x + r) * d
    BY <1>0, <2>1
  <2>3. Repunit(i + 1) = ((x + r) * d) \div d /\ x + r \in Nat
    BY <1>2, <2>1, <2>2
  <2>4. Repunit(i + 1) = x + r
    BY <1>1, <2>3
  <2>5. (x + r) * d = d * (x + r)
    BY <1>0, <2>1
  <2>6. Weight(i + 1) - 1 = d * Repunit(i + 1)
    BY <2>1, <2>2, <2>4, <2>5
  <2> QED BY <2>3, <2>4, <2>6 DEF x, r
<1> HIDE DEF Good
<1>5. Nat \subseteq Good
  BY <1>3, <1>4, SetInduction
<1>6. w \in Good
  BY <1>5
<1>7. Repunit(w + 1) = Weight(w) + Repunit(w)
  BY <1>4, <1>6
<1>8. Repunit(w) \in Nat /\ Weight(w) - 1 = d * Repunit(w)
  BY <1>6 DEF Good
<1> QED BY <1>3, <1>7, <1>8 DEF d

\* The reference carry, window by window.
LEMMA CarryIntoIs ==
    ASSUME NEW m \in Nat, NEW w \in Nat
    PROVE  /\ CarryInto(m, 0) = 0 /\ CarryInto(m, w) \in {0, 1}
           /\ CarryInto(m, w + 1) = CarryOut(Window(m, w) + CarryInto(m, w))
<1> DEFINE x == Weight(w)
           r == Repunit(w)
           l == m % Weight(w)
           d == Window(m, w)
           g == Half - 1
           u == g * r
<1>1. /\ x \in Nat /\ x >= 1 /\ r \in Nat /\ x - 1 = (Base - 1) * r /\ Repunit(w + 1) = x + r
      /\ l \in 0 .. x - 1 /\ d \in 0 .. Base - 1 /\ m % Weight(w + 1) = d * x + l
      /\ Half \in Nat /\ g \in Nat /\ Half = g + 1 /\ Base = 2 * Half
  <2>1. x \in Nat /\ x >= 1
    BY WeightIs
  <2>2. r \in Nat /\ x - 1 = (Base - 1) * r /\ Repunit(w + 1) = x + r
    BY RepunitIs
  <2>3. l \in 0 .. x - 1 /\ d \in 0 .. Base - 1 /\ m % Weight(w + 1) = d * x + l
    BY LowWindows
  <2>4. Half \in Nat /\ g \in Nat /\ Half = g + 1 /\ Base = 2 * Half
    BY Shape
  <2> QED BY <2>1, <2>2, <2>3, <2>4
<1>2. CarryInto(m, 0) = 0
  <2>1. Weight(0) = 1 /\ Repunit(0) = 0
    BY WeightIs, RepunitIs
  <2>2. m % 1 = 0 /\ (Half - 1) * 0 = 0
    BY <1>1
  <2> QED BY <2>1, <2>2 DEF CarryInto
<1>3. CarryInto(m, w) = IF l > u THEN 1 ELSE 0
  BY DEF CarryInto
<1>4. CarryInto(m, w + 1) = IF d * x + l > g * (x + r) THEN 1 ELSE 0
  BY <1>1 DEF CarryInto
<1> HIDE DEF x, r, l, d, g
<1>5. u \in Nat /\ u < x /\ g * (x + r) = g * x + u
  <2>1. u \in Nat /\ g * (x + r) = g * x + u
    BY <1>1
  <2>2. (Base - 1) * r = u + u + r
    BY <1>1
  <2> HIDE DEF u
  <2> QED BY <1>1, <2>1, <2>2
<1> HIDE DEF u
<1> DEFINE c == CarryInto(m, w)
<1>6. c \in {0, 1} /\ (c = 1 <=> l > u)
  BY <1>3
<1> HIDE DEF c
<1>7. g * x \in Nat /\ d * x \in Nat
  BY <1>1
<1>8. d * x + l > g * x + u <=> d + c >= Half
  <2>1. CASE d >= Half
    <3>1. d * x >= (g + 1) * x
      BY <1>1, <2>1
    <3>2. (g + 1) * x = g * x + x
      BY <1>1
    <3> DEFINE p == d * x
               q == g * x
    <3>3. p \in Nat /\ q \in Nat /\ p >= q + x
      BY <1>7, <3>1, <3>2
    <3> HIDE DEF p, q
    <3>4. p + l > q + u
      BY <1>1, <1>5, <3>3
    <3> QED BY <1>1, <1>6, <2>1, <3>4 DEF p, q
  <2>2. CASE d = g
    <3> DEFINE q == g * x
    <3>1. q \in Nat /\ d * x = q
      BY <1>7, <2>2
    <3> HIDE DEF q
    <3>2. q + l > q + u <=> l > u
      BY <1>1, <1>5, <3>1
    <3>3. d + c >= Half <=> c = 1
      BY <1>1, <1>6, <2>2
    <3> QED BY <1>6, <3>1, <3>2, <3>3 DEF q
  <2>3. CASE d < g
    <3>1. (d + 1) * x <= g * x /\ (d + 1) * x = d * x + x
      BY <1>1, <2>3
    <3> DEFINE p == d * x
               q == g * x
    <3>2. p \in Nat /\ q \in Nat /\ p + x <= q
      BY <1>7, <3>1
    <3> HIDE DEF p, q
    <3>3. ~ (p + l > q + u)
      BY <1>1, <1>5, <3>2
    <3>4. ~ (d + c >= Half)
      BY <1>1, <1>6, <2>3
    <3> QED BY <3>3, <3>4 DEF p, q
  <2> QED BY <1>1, <2>1, <2>2, <2>3
<1>9. CarryInto(m, w + 1) = CarryOut(d + c)
  BY <1>4, <1>5, <1>8 DEF CarryOut
<1> QED BY <1>2, <1>6, <1>9 DEF c, d

\* The windows that came to exactly Half, at their weights.
Extra(m, n) == [w \in 0 .. n - 1 |-> IF IsHalf(m, w) THEN Half ELSE 0]

\* One more window.
LEMMA ExtraGrows ==
    ASSUME NEW m, NEW n \in Nat
    PROVE  /\ DigitsValue(n, Extra(m, n), WindowSize) \in Int
           /\ DigitsValue(n + 1, Extra(m, n + 1), WindowSize)
                = DigitsValue(n, Extra(m, n), WindowSize)
                    + (IF IsHalf(m, n) THEN Half ELSE 0) * Weight(n)
<1> DEFINE e == Extra(m, n)
           f == Extra(m, n + 1)
           k == WindowSize
<1>1. k \in Nat /\ Half \in Int /\ 0 \in Int
  BY Shape
<1>2. /\ \A i \in 0 .. n - 1 : e[i] \in Int /\ e[i] = f[i]
      /\ \A i \in 0 .. (n + 1) - 1 : f[i] \in Int
      /\ f[n] = IF IsHalf(m, n) THEN Half ELSE 0
  <2>1. /\ \A i \in 0 .. n - 1 : i \in 0 .. (n + 1) - 1
        /\ n \in 0 .. (n + 1) - 1
    OBVIOUS
  <2>2. \A i \in 0 .. n - 1 : e[i] = IF IsHalf(m, i) THEN Half ELSE 0
    BY DEF Extra
  <2>3. \A i \in 0 .. (n + 1) - 1 : f[i] = IF IsHalf(m, i) THEN Half ELSE 0
    BY DEF Extra
  <2> QED BY <1>1, <2>1, <2>2, <2>3
<1> HIDE DEF e, f, k
<1>3. IsDigits(n, e, k) /\ IsDigits(n + 1, f, k)
  BY <1>1, <1>2 DEF IsDigits
<1>4. DigitsValue(n, e, k) = DigitsValue(n, f, k) /\ DigitsValue(n, e, k) \in Int
  BY <1>2, <1>3, DigitsSame, DigitsType
<1>5. DigitsValue(n + 1, f, k) = DigitsValue(n, f, k) + f[n] * TwoTo(k * n)
  BY <1>3, DigitsGrow
<1> QED BY <1>2, <1>4, <1>5 DEF e, f, k, Weight

\* What the digits and the carry are worth, window by window.
ValueInv ==
    /\ scalar < TwoTo(TotalBits)
    /\ host.carry = CarryInto(scalar, window)
    /\ DigitsValue(window, host.digits, WindowSize) + host.carry * Weight(window)
         = (scalar % Weight(window)) + DigitsValue(window, Extra(scalar, window), WindowSize)

\* It holds at the start,
LEMMA ValueInvInit == RecodeInit => ValueInv
<1> SUFFICES ASSUME RecodeInit PROVE ValueInv
  OBVIOUS
<1>1. window = 0 /\ host.carry = 0 /\ scalar \in 0 .. TwoTo(TotalBits) - 1
  BY DEF RecodeInit, Fresh
<1>2. TwoTo(TotalBits) \in Nat
  BY Shape, TwoToLaws
<1>3. scalar \in Nat /\ scalar < TwoTo(TotalBits)
  BY <1>1, <1>2
<1>4. CarryInto(scalar, 0) = 0
  <2>1. 0 \in Nat
    OBVIOUS
  <2> QED BY <1>3, <2>1, CarryIntoIs
<1>5. Weight(0) = 1 /\ scalar % 1 = 0
  <2>1. 0 \in Nat
    OBVIOUS
  <2> QED BY <1>3, <2>1, WeightIs
<1>6. \A d : DigitsValue(0, d, WindowSize) = 0
  BY Shape, DigitsNone
<1> QED BY <1>1, <1>3, <1>4, <1>5, <1>6 DEF ValueInv

\* The digits and the carry after one more window.
LEMMA ValueStep ==
    ASSUME RecodeInv, ValueInv, Step
    PROVE  ValueInv'
<1> DEFINE m == scalar
           w == window
           s == SignedDigit(Chunk)
           k == WindowSize
           d == host.digits
           e == [d EXCEPT ![w] = s]
           x == Weight(w)
           c == host.carry
           f == CarryOut(Chunk)
           y == Window(m, w)
           l == m % Weight(w)
           z == IF Chunk = Half THEN Half ELSE 0
<1>1. /\ w \in 0 .. NumWindows - 1 /\ window' = w + 1 /\ scalar' = m
      /\ Chunk \in 0 .. Base /\ host' = Accumulate(host, w, s, f)
  BY StepIs
<1>2. s \in Digits /\ f \in {0, 1} /\ s + f * Base = Chunk + z
  BY <1>1, SignedDigitIs
<1>3. m \in Nat /\ d \in [0 .. NumWindows - 1 -> Digits] /\ c \in {0, 1} /\ m < TwoTo(TotalBits)
      /\ c = CarryInto(m, w) /\ w \in Nat
  BY <1>1, Shape DEF RecodeInv, ValueInv
<1>4. Chunk = c + y
  <2>1. Number(WindowBits(m, w), WindowSize) = y
    BY <1>3, WindowIs
  <2> QED BY <2>1 DEF Chunk
<1>5. host'.digits = e /\ host'.carry = f
  <2>1. Accumulate(host, w, s, f).digits = e /\ Accumulate(host, w, s, f).carry = f
    BY DEF Accumulate
  <2> QED BY <1>1, <2>1
<1>6. f = CarryInto(m, w + 1)
  <2>1. y \in Nat
    <3>1. y \in 0 .. Base - 1
      BY <1>3, LowWindows
    <3> QED BY <3>1
  <2>2. Chunk = y + c
    BY <1>3, <1>4, <2>1
  <2>3. CarryInto(m, w + 1) = CarryOut(y + c)
    BY <1>3, CarryIntoIs
  <2> QED BY <2>2, <2>3
<1>7. z = IF IsHalf(m, w) THEN Half ELSE 0
  <2>1. y \in 0 .. Base - 1
    BY <1>3, LowWindows
  <2>2. y + c = Chunk
    BY <1>3, <1>4, <2>1
  <2> QED BY <1>3, <2>2 DEF IsHalf
<1>8. /\ x \in Nat /\ Weight(w + 1) = x * Base
      /\ l \in 0 .. x - 1 /\ y \in 0 .. Base - 1 /\ m % Weight(w + 1) = y * x + l
  <2>1. x \in Nat /\ Weight(w + 1) = x * Base
    BY <1>3, WeightIs
  <2>2. l \in 0 .. x - 1 /\ y \in 0 .. Base - 1 /\ m % Weight(w + 1) = y * x + l
    BY <1>3, LowWindows
  <2> QED BY <2>1, <2>2
<1> DEFINE V == DigitsValue(w, d, k)
           E == DigitsValue(w, Extra(m, w), k)
<1>9. V \in Int /\ DigitsValue(w + 1, e, k) = V + s * x
  <2>1. Digits \subseteq Int /\ k \in Nat
    BY Shape DEF Digits
  <2>2. /\ \A i \in 0 .. w - 1 : d[i] \in Int /\ d[i] = e[i]
        /\ \A i \in 0 .. (w + 1) - 1 : e[i] \in Int
        /\ e[w] = s
    <3> HIDE DEF s, w, d
    <3>1. \A i \in 0 .. (w + 1) - 1 : i \in 0 .. NumWindows - 1 /\ (i = w \/ i \in 0 .. w - 1)
      BY <1>1, <1>3, Shape
    <3>2. \A i \in 0 .. w - 1 : i \in 0 .. (w + 1) - 1 /\ i # w
      BY <1>3
    <3>3. \A i \in 0 .. NumWindows - 1 : e[i] = IF i = w THEN s ELSE d[i]
      BY <1>3
    <3> HIDE DEF e
    <3>4. \A i \in 0 .. NumWindows - 1 : d[i] \in Int
      BY <1>3, <2>1
    <3>5. s \in Int
      BY <1>2, <2>1
    <3> QED BY <1>1, <3>1, <3>2, <3>3, <3>4, <3>5
  <2> HIDE DEF s, w, d, e, k
  <2>3. IsDigits(w, d, k) /\ IsDigits(w + 1, e, k)
    BY <1>3, <2>1, <2>2 DEF IsDigits
  <2>4. DigitsValue(w, d, k) = DigitsValue(w, e, k) /\ DigitsValue(w, d, k) \in Int
    BY <2>2, <2>3, DigitsSame, DigitsType
  <2>5. DigitsValue(w + 1, e, k) = DigitsValue(w, e, k) + e[w] * TwoTo(k * w)
    BY <1>3, <2>3, DigitsGrow
  <2> QED BY <2>2, <2>4, <2>5 DEF Weight, k
<1>10. E \in Int /\ DigitsValue(w + 1, Extra(m, w + 1), k) = E + z * x
  <2>1. /\ E \in Int
        /\ DigitsValue(w + 1, Extra(m, w + 1), k)
             = E + (IF IsHalf(m, w) THEN Half ELSE 0) * x
    BY <1>3, ExtraGrows
  <2> HIDE DEF z
  <2> QED BY <1>7, <2>1
<1>11. V + c * x = l + E
  BY DEF ValueInv
<1>12. s \in Int /\ z \in Int /\ Base \in Nat /\ f \in Int /\ c \in Int /\ l \in Int /\ y \in Int
  <2>1. Half \in Nat /\ Base \in Nat /\ Digits \subseteq Int
    BY Shape DEF Digits
  <2>2. s \in Int /\ f \in Int /\ c \in Int
    <3> HIDE DEF s, f, c
    <3>1. s \in Int
      BY <1>2, <2>1
    <3>2. f \in Int /\ c \in Int
      BY <1>2, <1>3
    <3> QED BY <3>1, <3>2
  <2>3. z \in Int
    BY <2>1
  <2>4. l \in Int /\ y \in Int
    <3> HIDE DEF x, l, y
    <3> QED BY <1>8, <2>1
  <2> QED BY <2>1, <2>2, <2>3, <2>4
<1>13. DigitsValue(w + 1, e, k) + f * Weight(w + 1)
         = (m % Weight(w + 1)) + DigitsValue(w + 1, Extra(m, w + 1), k)
  <2>1. s + f * Base = c + y + z
    <3> HIDE DEF s, f, c, y, z
    <3> QED BY <1>2, <1>4
  <2> DEFINE B == Base
             T1 == DigitsValue(w + 1, e, k)
             T2 == m % Weight(w + 1)
             T3 == DigitsValue(w + 1, Extra(m, w + 1), k)
             X == Weight(w + 1)
  <2>2. /\ T1 = V + s * x /\ X = x * B /\ T2 = y * x + l /\ T3 = E + z * x
        /\ V \in Int /\ E \in Int /\ x \in Int /\ B \in Int /\ s + f * B = c + y + z
    <3>1. T1 = V + s * x /\ V \in Int
      BY <1>9
    <3>2. X = x * B /\ T2 = y * x + l
      BY <1>8
    <3>3. T3 = E + z * x /\ E \in Int
      BY <1>10
    <3>4. x \in Int /\ B \in Int
      <4> HIDE DEF x
      <4> QED BY <1>8, <1>12
    <3> HIDE DEF s, f, c, y, z, l, x, V, E, T1, T2, T3, X
    <3> QED BY <2>1, <3>1, <3>2, <3>3, <3>4
  <2> HIDE DEF s, f, c, y, z, l, x, V, E, T1, T2, T3, X, B
  <2>3. (s + f * B) * x = (c + y + z) * x
    BY <2>2
  <2>4. /\ (s + f * B) * x = s * x + f * (x * B)
        /\ (c + y + z) * x = c * x + y * x + z * x
    BY <1>12, <2>2
  <2> DEFINE p1 == s * x
             p2 == f * (x * B)
             p3 == c * x
             p4 == y * x
             p5 == z * x
  <2>5. /\ p1 \in Int /\ p2 \in Int /\ p3 \in Int /\ p4 \in Int /\ p5 \in Int
        /\ p1 + p2 = p3 + p4 + p5 /\ V + p3 = l + E
        /\ T1 = V + p1 /\ f * X = p2 /\ T2 = p4 + l /\ T3 = E + p5
    <3>1. \A i, j \in Int : i * j \in Int
      OBVIOUS
    <3>2. x * B \in Int
      BY <2>2, <3>1
    <3>3. p1 \in Int /\ p2 \in Int /\ p3 \in Int /\ p4 \in Int /\ p5 \in Int
      BY <1>12, <2>2, <3>1, <3>2
    <3>4. p1 + p2 = p3 + p4 + p5
      BY <2>3, <2>4
    <3> QED BY <1>11, <2>2, <3>3, <3>4
  <2> HIDE DEF p1, p2, p3, p4, p5
  <2>6. T1 + f * X = T2 + T3
    BY <1>12, <2>2, <2>5
  <2> QED BY <2>6 DEF T1, T2, T3, X
<1>14. /\ scalar' = m /\ window' = w + 1 /\ host'.digits = e /\ host'.carry = f
  BY <1>1, <1>5
<1> HIDE DEF e, f, k
<1> QED BY <1>3, <1>6, <1>13, <1>14 DEF ValueInv, k

\* and in every reachable state.
LEMMA ValueInvCorrect == RecodeSpec => []ValueInv
<1>1. RecodeInv /\ ValueInv /\ [RecodeNext]_recodeVars => ValueInv'
  <2> SUFFICES ASSUME RecodeInv, ValueInv, [RecodeNext]_recodeVars PROVE ValueInv'
    OBVIOUS
  <2>1. CASE Step
    BY <2>1, ValueStep
  <2>2. CASE UNCHANGED recodeVars
    BY <2>2 DEF ValueInv, recodeVars
  <2> QED BY <2>1, <2>2 DEF RecodeNext
<1> QED BY <1>1, ValueInvInit, RecodeInvCorrect, PTL DEF RecodeSpec

\* recode_signed_window6_inner, for every scalar and every window size: the digits are indices
\* into the table with a sign, and they are worth the scalar plus half a base for each window
\* that came to exactly Half.
THEOREM RecodedAlways == RecodeSpec => []RecodedValue
<1>1. RecodeInv /\ ValueInv => RecodedValue
  BY DEF RecodeInv, ValueInv, RecodedValue, Extra
<1> QED BY <1>1, RecodeInvCorrect, ValueInvCorrect, PTL

================================================================================
