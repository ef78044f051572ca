---------------------------- MODULE AdaptorSignature ---------------------------
(***************************************************************************)
(* The adaptor signature a bridge withdrawal waits for.                    *)
(*                                                                         *)
(* Operators aggregate their keys, tweak the aggregate into a Taproot      *)
(* output key, publish a pre-signature from which the sum of their adaptor *)
(* shares is missing, and whoever recovers the shares finishes it.  The    *)
(* steps are those of the bridge harness (test_pvugc_bitcoin_adaptor), the *)
(* helpers those of bitcoin.rs.                                            *)
(*                                                                         *)
(* Points of secp256k1 are written as exponents, in the representation of  *)
(* PairingRing.  Even is the set of points with an even y, of which each   *)
(* pair P, -P has one; only the x coordinate enters hashes and signatures. *)
(* Hash outputs that nothing refers to again are any scalar.               *)
(***************************************************************************)
EXTENDS PairingRing, Sequences

CONSTANTS
    N,                  \* number of operators
    Even,               \* points whose y coordinate is even
    Challenge(_, _),    \* bip340_challenge(R_x, P_x, m), for the frozen m
    Secrets, Shares, Nonces,    \* what operators may draw
    Hashes,             \* key aggregation coefficients and tweaks
    None

Points == Scalars \ {Zero}
SameX(p, q) == p = q \/ p = Minus(q)

ASSUME OperatorsAssumption ==
    /\ N \in Nat \ {0}
    /\ Secrets \subseteq Points /\ Shares \subseteq Points
    /\ Nonces \subseteq Scalars /\ Hashes \subseteq Scalars
ASSUME ParityAssumption ==
    /\ Even \subseteq Points
    /\ \A p \in Points : p \in Even <=> Minus(p) \notin Even
ASSUME ChallengeAssumption ==
    \A r, p \in Points : /\ Challenge(r, p) \in Scalars
                         /\ Challenge(Minus(r), p) = Challenge(r, p)
                         /\ Challenge(r, Minus(p)) = Challenge(r, p)

Operators == 1 .. N
Aggregate(f) == Sum(f, N)

--------------------------------------------------------------------------------
\* Mutant: no look at the parity of y.
BugVerifySchnorr(pk, sig) ==
    LET r == Plus(sig.s, Minus(Times(pk, Challenge(sig.r, pk))))
    IN  r # Zero /\ SameX(r, sig.r)

\* verify_schnorr_signature: pk is a full point, sig carries only x(R).
VerifySchnorr(pk, sig) ==
    LET r == Plus(sig.s, Minus(Times(pk, Challenge(sig.r, pk))))
    IN  r \in Even /\ SameX(r, sig.r)

\* The point with even y and the x coordinate of p.
LiftX(p) == IF p \in Even THEN p ELSE Minus(p)

AggregateKey(x, c) == Aggregate([i \in Operators |-> Times(x[i], c[i])])

\* Mutant: the key is negated, the coefficients are not.
BugNormalizeKey(key, c) == [point |-> LiftX(key), coefficients |-> c]

\* musig_coefficients negates the coefficients along with the key.
NormalizeKey(key, c) ==
    [point |-> LiftX(key),
     coefficients |-> IF key \in Even THEN c
                      ELSE [i \in Operators |-> Minus(c[i])]]

--------------------------------------------------------------------------------
VARIABLES
    secret,     \* operator -> signing key
    musig,      \* None, or the aggregated key with the normalised coefficients
    output,     \* None, or the Taproot output key with its tweak
    share,      \* operator -> adaptor share
    nonce,      \* None, or operator -> nonce, with the aggregate and its flip
    partial,    \* operator -> None or the masked partial signature
    presig,     \* None, or the pre-signature
    recovered,  \* operators whose share decapsulation has given
    final       \* None, or the last finished signature with the shares in it

vars == <<secret, musig, output, share, nonce, partial, presig, recovered, final>>

Signatures == [r : Points, s : Scalars]

Init ==
    /\ secret \in [Operators -> Secrets]
    /\ share \in [Operators -> Shares]
    /\ Aggregate(share) # Zero
    /\ musig = None /\ output = None /\ nonce = None /\ presig = None /\ final = None
    /\ partial = [i \in Operators |-> None]
    /\ recovered = {}

AdaptorPoint == Aggregate(share)

\* An aggregate, an output key or a nonce that is the identity panics.
AggregateKeys(c) ==
    /\ musig = None
    /\ AggregateKey(secret, c) # Zero
    /\ musig' = NormalizeKey(AggregateKey(secret, c), c)
    /\ UNCHANGED <<secret, output, share, nonce, partial, presig, recovered, final>>

TweakKey(t) ==
    /\ musig # None /\ output = None
    /\ Plus(musig.point, t) # Zero
    /\ output' = [point |-> Plus(musig.point, t), tweak |-> t]
    /\ UNCHANGED <<secret, musig, share, nonce, partial, presig, recovered, final>>

\* Mutant: the flip is recorded, the point is not negated.
BugAggregateNonces(k) ==
    /\ nonce = None
    /\ Aggregate(k) # Zero
    /\ nonce' = [k |-> k, point |-> Aggregate(k), negated |-> Aggregate(k) \notin Even]
    /\ UNCHANGED <<secret, musig, output, share, partial, presig, recovered, final>>

\* aggregate_nonces: the point is normalised to even y, the flip remembered.
AggregateNonces(k) ==
    /\ nonce = None
    /\ Aggregate(k) # Zero
    /\ nonce' = [k |-> k, point |-> LiftX(Aggregate(k)), negated |-> Aggregate(k) \notin Even]
    /\ UNCHANGED <<secret, musig, output, share, partial, presig, recovered, final>>

TheChallenge == Challenge(nonce.point, output.point)

\* Mutant: the nonce keeps its sign when the aggregate lost it.
BugMasked(i) ==
    Plus(Plus(nonce.k[i],
              Times(Times(musig.coefficients[i], secret[i]), TheChallenge)),
         Minus(share[i]))

Masked(i) ==
    Plus(Plus(IF nonce.negated THEN Minus(nonce.k[i]) ELSE nonce.k[i],
              Times(Times(musig.coefficients[i], secret[i]), TheChallenge)),
         Minus(share[i]))

MaskPartial(i) ==
    /\ output # None /\ nonce # None /\ partial[i] = None
    /\ partial' = [partial EXCEPT ![i] = Masked(i)]
    /\ UNCHANGED <<secret, musig, output, share, nonce, presig, recovered, final>>

\* s' = sum of the partials + tweak * e
PreSign ==
    /\ presig = None /\ \A i \in Operators : partial[i] # None
    /\ presig' = [r |-> nonce.point,
                  s |-> Plus(Aggregate(partial), Times(output.tweak, TheChallenge))]
    /\ UNCHANGED <<secret, musig, output, share, nonce, partial, recovered, final>>

\* Decapsulation and decryption of one operator's share.
RecoverShare(i) ==
    /\ presig # None
    /\ recovered' = recovered \cup {i}
    /\ UNCHANGED <<secret, musig, output, share, nonce, partial, presig, final>>

RecoveredSum(S) == Aggregate([i \in Operators |-> IF i \in S THEN share[i] ELSE Zero])

\* The pre-signature completed with the shares at hand, all of them or not.
Finish ==
    /\ presig # None
    /\ final' = [with |-> recovered,
                 sig  |-> [presig EXCEPT !.s = Plus(presig.s, RecoveredSum(recovered))]]
    /\ UNCHANGED <<secret, musig, output, share, nonce, partial, presig, recovered>>

Next ==
    \/ \E c \in [Operators -> Hashes] : AggregateKeys(c)
    \/ \E t \in Hashes : TweakKey(t)
    \/ \E k \in [Operators -> Nonces] : AggregateNonces(k)
    \/ \E i \in Operators : MaskPartial(i) \/ RecoverShare(i)
    \/ PreSign
    \/ Finish

Spec == Init /\ [][Next]_vars

--------------------------------------------------------------------------------
\* The aggregates are points with even y (debug_assert in musig_coefficients).
TypeOK ==
    /\ secret \in [Operators -> Secrets]
    /\ share \in [Operators -> Shares] /\ Aggregate(share) \in Points
    /\ musig \in [point : Even, coefficients : [Operators -> Scalars]] \cup {None}
    /\ output \in [point : Points, tweak : Hashes] \cup {None}
    /\ nonce \in [k : [Operators -> Nonces], point : Even, negated : BOOLEAN] \cup {None}
    /\ partial \in [Operators -> Scalars \cup {None}]
    /\ presig \in Signatures \cup {None}
    /\ recovered \in SUBSET Operators
    /\ final \in [with : SUBSET Operators, sig : Signatures] \cup {None}

\* The adaptor relation s'G = R + eP - T, which nobody checks before the
\* deposit: it is what makes the pre-signature worth funding.
PreSignatureOpens ==
    presig # None =>
        Plus(presig.s, AdaptorPoint)
          = Plus(nonce.point, Times(output.point, TheChallenge))

\* A completed signature passes verify_schnorr_signature under the output key
\* exactly when the missing shares sum to zero: all shares suffice, and "missing
\* share blocks the spend", the lone pre-signature included.
SharesUnlock ==
    final # None =>
        (VerifySchnorr(output.point, final.sig)
           <=> RecoveredSum(final.with) = AdaptorPoint)

================================================================================
