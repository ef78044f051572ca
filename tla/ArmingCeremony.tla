----------------------------- MODULE ArmingCeremony ----------------------------
(***************************************************************************)
(* From arming to spend: the calls operators make into the library, in the *)
(* setting of the bridge harness (test_pvugc_bitcoin_adaptor).             *)
(*                                                                         *)
(* The library is stateless, so what an operator passes to one call is     *)
(* whatever it kept from earlier ones: shares and exponents may be drawn   *)
(* again, arms refreshed without their key, packages frozen while that     *)
(* happens.  In a behaviour with inOrder, operators keep the order of the   *)
(* harness; in one without, they make the same calls in any order the      *)
(* signatures allow.                                                       *)
(*                                                                         *)
(* Cryptography is symbolic.  The d-th value an operator draws is d; the   *)
(* arms Y^rho and the key R^rho are the draw of rho.  A ciphertext with its *)
(* tag is the record of what it was made from: the tag is a commitment to  *)
(* key, AD_core and ciphertext.  That the commitments of a valid proof open *)
(* R^rho, and nothing else does, is proved in OneSidedPpe_proofs.          *)
(***************************************************************************)
EXTENDS Naturals

CONSTANTS
    Operators,
    MaxDraws,       \* bound: shares, and exponents, an operator draws
    None

ASSUME OperatorsAssumption == Operators # {} /\ MaxDraws \in Nat \ {0}
ASSUME NoneAssumption == None \notin {"refused", "valid", "invalid"}

VARIABLES
    inOrder,    \* operators call in the harness's order
    draws,      \* operator -> [share, rho]: how many it has drawn
    arming,     \* operator -> its OperatorArming record
    target,     \* adaptor_point: None or the shares summed into T
    presig,     \* None or the shares subtracted in the pre-signature
    ctx,        \* ctx_hash: None or what it was hashed from
    attested,   \* operators whose attestation verify_column_arming accepted
    package,    \* None or the deposit package
    signed,     \* operators that signed the ready digest
    funded,     \* the deposit is made
    proof,      \* a valid proof of the statement is public
    recovered,  \* operator -> None or its decrypted share
    spend       \* None, "refused" or "valid"/"invalid", the finished signature

vars == <<inOrder, draws, arming, target, presig, ctx, attested, package, signed,
          funded, proof, recovered, spend>>

Draws == 1 .. MaxDraws
Maybe(S) == S \cup {None}
Shares == [Operators -> Draws]
Contexts == [arms : Shares, target : Shares]
AdCores == [ctx : Contexts, idx : Operators, t : Draws, target : Shares, arms : Draws]
Ciphers == [key : Draws, ad : AdCores, share : Draws]
Armings == [share : Maybe(Draws), arms : Maybe(Draws), key : Maybe(Draws),
            cipher : Maybe(Ciphers)]
Packages == [ctx : Contexts, target : Shares, armers : [Operators -> Armings]]

Unarmed == [share |-> None, arms |-> None, key |-> None, cipher |-> None]

Init ==
    /\ inOrder \in BOOLEAN
    /\ draws = [p \in Operators |-> [share |-> 0, rho |-> 0]]
    /\ arming = [p \in Operators |-> Unarmed]
    /\ target = None /\ presig = None /\ ctx = None /\ package = None
    /\ attested = {} /\ signed = {}
    /\ funded = FALSE /\ proof = FALSE
    /\ recovered = [p \in Operators |-> None]
    /\ spend = None

Armed(p) == None \notin {arming[p].share, arming[p].arms, arming[p].key}

--------------------------------------------------------------------------------
\* An operator's own calls.  A refused call returns Err and changes nothing.

DrawShare(p) ==
    /\ package = None /\ draws[p].share < MaxDraws
    /\ inOrder => target = None
    /\ draws' = [draws EXCEPT ![p].share = @ + 1]
    /\ arming' = [arming EXCEPT ![p].share = draws[p].share + 1]
    /\ UNCHANGED <<inOrder, target, presig, ctx, attested, package, signed, funded,
                   proof, recovered, spend>>

\* Mutant: columns are armed again after the commitments were summed.
BugArmColumns(p) ==
    /\ package = None /\ draws[p].rho < MaxDraws
    /\ draws' = [draws EXCEPT ![p].rho = @ + 1]
    /\ arming' = [arming EXCEPT ![p].arms = draws[p].rho + 1]
    /\ UNCHANGED <<inOrder, target, presig, ctx, attested, package, signed, funded,
                   proof, recovered, spend>>

\* arm_columns under a fresh rho.
ArmColumns(p) ==
    /\ package = None /\ draws[p].rho < MaxDraws
    /\ inOrder => target = None
    /\ draws' = [draws EXCEPT ![p].rho = @ + 1]
    /\ arming' = [arming EXCEPT ![p].arms = draws[p].rho + 1]
    /\ UNCHANGED <<inOrder, target, presig, ctx, attested, package, signed, funded,
                   proof, recovered, spend>>

\* compute_r_to_rho: the key that goes with the arms.
ComputeKey(p) ==
    /\ package = None /\ arming[p].arms # None
    /\ arming' = [arming EXCEPT ![p].key = arming[p].arms]
    /\ UNCHANGED <<inOrder, draws, target, presig, ctx, attested, package, signed,
                   funded, proof, recovered, spend>>

\* The AD_core rebuilt from the context and a record.
AdCore(c, p, t, sum, rec) ==
    [ctx |-> c, idx |-> p, t |-> t, target |-> sum, arms |-> rec.arms]

\* encrypt_with_key_dem and compute_key_commitment_tag_dem, of some share drawn
\* so far.  The ciphertext is new, so it is not attested.
Encrypt(p, d) ==
    /\ package = None /\ ctx # None /\ Armed(p)
    /\ inOrder => d = arming[p].share /\ arming[p].key = arming[p].arms
    /\ arming' = [arming EXCEPT ![p].cipher =
         [key   |-> arming[p].key,
          ad    |-> AdCore(ctx, p, arming[p].share, target, arming[p]),
          share |-> d]]
    /\ attested' = attested \ {p}
    /\ UNCHANGED <<inOrder, draws, target, presig, ctx, package, signed, funded,
                   proof, recovered, spend>>

\* Mutant: the plaintext is not tied to the T_i of the AD_core.
BugAttestationHolds(rec, ad) == rec.cipher.key = rec.key /\ rec.cipher.ad = ad

\* attest_column_arming succeeds and verify_column_arming accepts.  PoCE asks
\* that one rho made all the arms, which arm_columns sees to; the VE proof, that
\* under the expected key ciphertext, tag and this AD_core fit together and the
\* plaintext has the T_i in the AD_core (one share per T_i, though shares with
\* a window of 32 are an exception: see WindowRecoding).
AttestationHolds(rec, ad) ==
    /\ rec.cipher.key = rec.key /\ rec.cipher.ad = ad
    /\ rec.cipher.share = ad.t

Attest(p) ==
    /\ package = None /\ ctx # None /\ Armed(p) /\ arming[p].cipher # None
    /\ attested' = IF AttestationHolds(arming[p],
                        AdCore(ctx, p, arming[p].share, target, arming[p]))
                   THEN attested \cup {p} ELSE attested \ {p}
    /\ UNCHANGED <<inOrder, draws, arming, target, presig, ctx, package, signed,
                   funded, proof, recovered, spend>>

--------------------------------------------------------------------------------
\* The harness's steps between the operators' loops.

\* Mutant: the sum does not wait for every operator.
BugSumCommitments ==
    /\ target = None /\ \E p \in Operators : Armed(p)
    /\ target' = [p \in Operators |-> arming[p].share]
    /\ UNCHANGED <<inOrder, draws, arming, presig, ctx, attested, package, signed,
                   funded, proof, recovered, spend>>

\* adaptor_point and the assertion that it is the sum of the T_i.
SumCommitments ==
    /\ target = None /\ \A p \in Operators : Armed(p)
    /\ inOrder => \A p \in Operators : arming[p].key = arming[p].arms
    /\ target' = [p \in Operators |-> arming[p].share]
    /\ UNCHANGED <<inOrder, draws, arming, presig, ctx, attested, package, signed,
                   funded, proof, recovered, spend>>

\* Every masked partial subtracts the operator's current share.
PreSign ==
    /\ target # None /\ presig = None
    /\ presig' = [p \in Operators |-> arming[p].share]
    /\ UNCHANGED <<inOrder, draws, arming, target, ctx, attested, package, signed,
                   funded, proof, recovered, spend>>

\* ctx_hash over the arming package and the pre-signature package.
FinalizeContext ==
    /\ presig # None /\ ctx = None
    /\ ctx' = [arms |-> [p \in Operators |-> arming[p].arms], target |-> target]
    /\ UNCHANGED <<inOrder, draws, arming, target, presig, attested, package,
                   signed, funded, proof, recovered, spend>>

\* The deposit package, from the records as they are now.
FreezePackage ==
    /\ package = None /\ attested = Operators
    /\ package' = [ctx |-> ctx, target |-> target, armers |-> arming]
    /\ UNCHANGED <<inOrder, draws, arming, target, presig, ctx, attested, signed,
                   funded, proof, recovered, spend>>

\* Every operator signs the digest of context, package and pre-signature.
SignReady(p) ==
    /\ package # None
    /\ signed' = signed \cup {p}
    /\ UNCHANGED <<inOrder, draws, arming, target, presig, ctx, attested, package,
                   funded, proof, recovered, spend>>

\* Mutant: the deposit does not wait for every signature.
BugDeposit ==
    /\ package # None /\ ~ funded
    /\ funded' = TRUE
    /\ UNCHANGED <<inOrder, draws, arming, target, presig, ctx, attested, package,
                   signed, proof, recovered, spend>>

\* The deposit is made when the ready attestation verifies.
Deposit ==
    /\ signed = Operators /\ ~ funded
    /\ funded' = TRUE
    /\ UNCHANGED <<inOrder, draws, arming, target, presig, ctx, attested, package,
                   signed, proof, recovered, spend>>

\* prove_and_build_commitments, accepted by verify: whoever holds a witness.
Prove ==
    /\ ~ proof
    /\ proof' = TRUE
    /\ UNCHANGED <<inOrder, draws, arming, target, presig, ctx, attested, package,
                   signed, funded, recovered, spend>>

--------------------------------------------------------------------------------
\* After the deposit, from the package alone.

PackagedAd(p) == AdCore(package.ctx, p, package.armers[p].share, package.target,
                        package.armers[p])

\* verify_key_commitment_dem under the derived key, which the arms determine.
TagHolds(p) ==
    LET c == package.armers[p].cipher
    IN  c.key = package.armers[p].arms /\ c.ad = PackagedAd(p)

\* decapsulate, check the tag, decrypt.  A tag that does not hold ends the run.
RecoverShare(p) ==
    /\ funded /\ proof /\ recovered[p] = None
    /\ TagHolds(p)
    /\ recovered' = [recovered EXCEPT ![p] = package.armers[p].cipher.share]
    /\ UNCHANGED <<inOrder, draws, arming, target, presig, ctx, attested, package,
                   signed, funded, proof, spend>>

\* Mutant: the recovered sum is not compared with the adaptor point.
BugSumMatches == TRUE

\* The recovered shares sum to the registered adaptor point.  Shares are random,
\* so different vectors do not have the same sum.
SumMatches == recovered = package.target

\* final_s = s' + alpha, valid when exactly the subtracted shares were added.
Finish ==
    /\ spend = None /\ \A p \in Operators : recovered[p] # None
    /\ spend' = IF ~ SumMatches THEN "refused"
                ELSE IF recovered = presig THEN "valid" ELSE "invalid"
    /\ UNCHANGED <<inOrder, draws, arming, target, presig, ctx, attested, package,
                   signed, funded, proof, recovered>>

Next ==
    \/ \E p \in Operators :
          \/ DrawShare(p) \/ ArmColumns(p) \/ ComputeKey(p)
          \/ \E d \in 1 .. draws[p].share : Encrypt(p, d)
          \/ Attest(p) \/ SignReady(p) \/ RecoverShare(p)
    \/ SumCommitments \/ PreSign \/ FinalizeContext \/ FreezePackage
    \/ Deposit \/ Prove \/ Finish

\* Whoever decapsulates runs its loop to the end.  Nothing obliges operators to
\* go on, a depositor to fund or a prover to prove.
Fairness == WF_vars(Finish) /\ \A p \in Operators : WF_vars(RecoverShare(p))

Spec == Init /\ [][Next]_vars /\ Fairness

--------------------------------------------------------------------------------
TypeOK ==
    /\ inOrder \in BOOLEAN
    /\ draws \in [Operators -> [share : 0 .. MaxDraws, rho : 0 .. MaxDraws]]
    /\ arming \in [Operators -> Armings]
    /\ target \in Maybe(Shares) /\ presig \in Maybe(Shares)
    /\ ctx \in Maybe(Contexts)
    /\ attested \in SUBSET Operators /\ signed \in SUBSET Operators
    /\ package \in Maybe(Packages)
    /\ funded \in BOOLEAN /\ proof \in BOOLEAN
    /\ recovered \in [Operators -> Maybe(Draws)]
    /\ spend \in {None, "refused", "valid", "invalid"}

\* Whatever the order of the calls, a finished signature is never a broken one:
\* the comparison of the recovered sum with the registered adaptor point also
\* protects against a pre-signature made with other shares than the point.
NeverInvalid == spend # "invalid"

\* Whatever the order of the calls, and whatever was sealed by mistake, a share
\* that decapsulation recovers is the one committed to in its package: the VE
\* proof when arming and the tag when decapsulating leave no other way.
RecoveredAsCommitted ==
    \A p \in Operators : recovered[p] # None =>
        recovered[p] = package.armers[p].share

\* In the harness's order every deposit can be spent once a proof exists: each
\* share opens under the key its arms give, and is the one the pre-signature and
\* the adaptor point were made with.
DepositSpendable ==
    inOrder /\ funded =>
        \A p \in Operators : /\ TagHolds(p)
                             /\ package.armers[p].cipher.share = presig[p]
                             /\ package.target[p] = presig[p]

\* The promise to bridge users: see WitnessRelease.
Release ==
    INSTANCE WitnessRelease WITH
        stage <- IF ~ inOrder THEN "open"
                 ELSE IF spend = "valid" THEN "released"
                 ELSE IF funded THEN "locked"
                 ELSE IF signed = Operators THEN "registered" ELSE "open",
        witness <- proof

\* In the harness's order the ceremony implements it, liveness included: with a
\* proof, a deposit is eventually spent.
ImplementsRelease == Release!Spec

================================================================================
