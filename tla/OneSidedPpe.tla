------------------------------- MODULE OneSidedPpe -----------------------------
(***************************************************************************)
(* The one-sided product of pairings: setup_and_arm, the prover's          *)
(* commitments, verify_with_limits and decapsulate, over exponents.        *)
(*                                                                         *)
(* An armer raises the column bases of a statement x to a secret rho and   *)
(* keeps K = R_baked(x)^rho.  A prover publishes a Groth16 proof and the   *)
(* commitments built from it; the commitments may be altered before they   *)
(* arrive.  A verifier checks the bundle against any statement, a          *)
(* decapper pairs the commitments with the arms.  What the modules of the  *)
(* ceremony take for granted, namely which commitments open which key, is  *)
(* decided here.                                                           *)
(*                                                                         *)
(* Vectors are sequences, so b_g2_query[0] is b[1].                        *)
(***************************************************************************)
EXTENDS PairingRing, Sequences

CONSTANTS
    Keys,               \* pairs of a Groth16 VK and the PvugcVk made for it
    Inputs,             \* public input vectors
    Witnesses,          \* witness assignments
    Rhos,               \* exponents an armer may draw
    Points,             \* values of the proof element A
    Randomizers,        \* values of s and r_theta
    MaxBColumns, MaxThetaRows, MaxTotalPairings,    \* VerifyLimits
    None

Vectors == Seq(Scalars)

VerifyingKeys == [alpha : Scalars, beta : Scalars, gamma : Scalars,
                  delta : Scalars, ic : Vectors]
PvugcVks == [beta : Scalars, delta : Scalars, b : Vectors, t : Vectors]

ASSUME KeysAssumption ==
    \A k \in Keys : /\ k.vk \in VerifyingKeys /\ k.vk.ic # << >>
                    /\ k.pvk \in PvugcVks
ASSUME InputsAssumption ==
    /\ Inputs \subseteq Vectors /\ Witnesses \subseteq Vectors
    /\ Rhos \subseteq Scalars /\ Points \subseteq Scalars
    /\ Randomizers \subseteq Scalars
ASSUME LimitsAssumption ==
    MaxBColumns \in Nat /\ MaxThetaRows \in Nat /\ MaxTotalPairings \in Nat

--------------------------------------------------------------------------------
\* points[0] + sum x_i points[i + 1]: IC(x), T_const(x) and b_0 + sum x_i b_i.
Affine(points, x) ==
    Plus(points[1], Sum([i \in 1 .. Len(x) |-> Times(points[i + 1], x[i])], Len(x)))

RawTarget(vk, x) ==
    Plus(Times(vk.alpha, vk.beta), Times(Affine(vk.ic, x), vk.gamma))

BakedTarget(k, x) == Plus(RawTarget(k.vk, x), Affine(k.pvk.t, x))

\* compute_baked_target returns Ok.
TargetDefined(k, x) ==
    /\ Len(x) = Len(k.vk.ic) - 1
    /\ Affine(k.vk.ic, x) # Zero
    /\ RawTarget(k.vk, x) # Zero
    /\ Len(k.pvk.t) = Len(x) + 1

GoodPvugcVk(pvk) == pvk.b # << >> /\ pvk.beta # Zero /\ pvk.delta # Zero

GoodVk(vk) == Zero \notin {vk.alpha, vk.beta, vk.gamma, vk.delta}

\* split_statement_only_bases returns Ok.
SplitDefined(k, x) ==
    /\ Len(x) = Len(k.vk.ic) - 1
    /\ Len(k.pvk.b) >= 1 + Len(k.vk.ic)

PublicLeg(k, x) == Plus(k.pvk.beta, Affine(k.pvk.b, x))

NumColumns(k) == 1 + (Len(k.pvk.b) - Len(k.vk.ic))

\* y_cols: the aggregated public leg, then the witness columns.
Columns(k, x) ==
    [j \in 1 .. NumColumns(k) |->
        IF j = 1 THEN PublicLeg(k, x) ELSE k.pvk.b[Len(k.vk.ic) + j - 1]]

AuditPasses(ys, delta) ==
    LET live == {j \in DOMAIN ys : ys[j] # Zero}
    IN  /\ 1 \in live /\ delta # Zero
        /\ \A j \in live : ys[j] \notin {delta, Minus(delta)}
        /\ \A i, j \in live : i < j => ys[j] \notin {ys[i], Minus(ys[i])}

ArmColumn(ys, rho) == [j \in DOMAIN ys |-> Times(ys[j], rho)]

--------------------------------------------------------------------------------
Limbs(c, y) == Plus(Times(c[1], y), Times(c[2], y))

\* Mutant: the canceller left out of the schedule.
BugPairingProduct(com, ys, d) ==
    Plus(Sum([j \in 1 .. Len(ys) |-> Limbs(com.cols[j], ys[j])], Len(ys)),
         Sum([j \in 1 .. Len(com.theta) |-> Limbs(com.theta[j], d)],
             Len(com.theta)))

\* The pairing schedule of verify (plain bases) and of decap (armed bases).
PairingProduct(com, ys, d) ==
    Plus(Plus(Sum([j \in 1 .. Len(ys) |-> Limbs(com.cols[j], ys[j])], Len(ys)),
              Sum([j \in 1 .. Len(com.theta) |-> Limbs(com.theta[j], d)],
                  Len(com.theta))),
         Limbs(com.cancel, d))

\* Mutant: the witness columns without their second limb.
BugColumnCommitments(a, w) ==
    [j \in 1 .. 1 + Len(w) |->
        IF j = 1 THEN <<a, Zero>> ELSE <<Times(a, w[j - 1])>>]

ColumnCommitments(a, w) ==
    [j \in 1 .. 1 + Len(w) |->
        IF j = 1 THEN <<a, Zero>> ELSE <<Times(a, w[j - 1]), Zero>>]

\* Mutant: theta = C + sA, as a comment in verify_with_limits has it.
BugBuildCommitments(a, c, s, rTheta, w) ==
    [cols   |-> ColumnCommitments(a, w),
     theta  |-> << <<Plus(Times(a, s), c), Times(a, rTheta)>> >>,
     cancel |-> <<Minus(Times(a, rTheta)), Zero>>]

BuildCommitments(a, c, s, rTheta, w) ==
    [cols   |-> ColumnCommitments(a, w),
     theta  |-> << <<Plus(Times(a, s), Minus(c)), Times(a, rTheta)>> >>,
     cancel |-> <<Minus(Times(a, rTheta)), Zero>>]

\* full_assignment = [1, public inputs, witness].
FullAssignment(x, w) ==
    [j \in 1 .. 1 + Len(x) + Len(w) |->
        IF j = 1 THEN One
        ELSE IF j <= 1 + Len(x) THEN x[j - 1] ELSE w[j - 1 - Len(x)]]

\* The multi-scalar multiplication sum a_j b_j.
AssignmentSum(k, x, w) ==
    Sum([j \in 1 .. Len(k.pvk.b) |-> Times(k.pvk.b[j], FullAssignment(x, w)[j])],
        Len(k.pvk.b))

\* Mutant: the randomizer s left out of B.
BugProverB(k, x, w, s) == Plus(k.vk.beta, AssignmentSum(k, x, w))

\* B = beta + sum a_j b_j + s delta.
ProverB(k, x, w, s) ==
    Plus(Plus(k.vk.beta, AssignmentSum(k, x, w)), Times(k.vk.delta, s))

Groth16Equation(vk, target, proof) ==
    Times(proof.a, proof.b) = Plus(target, Times(proof.c, vk.delta))

Groth16Verify(vk, x, proof) ==
    Len(x) + 1 = Len(vk.ic) /\ Groth16Equation(vk, RawTarget(vk, x), proof)

WithinLimits(k, com) ==
    /\ Len(k.pvk.b) <= MaxBColumns
    /\ Len(com.theta) <= MaxThetaRows
    /\ 2 * NumColumns(k) + 2 * Len(com.theta) + 2 <= MaxTotalPairings

GammaExcluded(k, x) ==
    \A j \in 1 .. NumColumns(k) : Columns(k, x)[j] # k.vk.gamma

\* Mutant: the product is only tested against the identity.
BugPpeHolds(k, x, com) ==
    PairingProduct(com, Columns(k, x), k.pvk.delta) # Zero

PpeHolds(k, x, com) ==
    LET lhs == PairingProduct(com, Columns(k, x), k.pvk.delta)
    IN  lhs # Zero /\ lhs = BakedTarget(k, x)

VerifyBundle(k, x, bun) ==
    /\ GoodPvugcVk(k.pvk) /\ GoodVk(k.vk)
    /\ Groth16Verify(k.vk, x, bun.proof)
    /\ SplitDefined(k, x)
    /\ TargetDefined(k, x) /\ BakedTarget(k, x) # Zero
    /\ Len(bun.com.cols) = NumColumns(k)
    /\ bun.com.theta # << >>
    /\ WithinLimits(k, bun.com)
    /\ GammaExcluded(k, x)
    /\ PpeHolds(k, x, bun.com)

--------------------------------------------------------------------------------
VARIABLES
    key,        \* the pinned key pair
    arming,     \* what setup_and_arm returned, with its rho and statement
    bundle,     \* the published bundle, with the statement it was made for
    verdict,    \* the last answer of verify
    derived     \* the last answer of decapsulate

vars == <<key, arming, bundle, verdict, derived>>

Armings == [x : Inputs, rho : Rhos, ys : Vectors, delta : Scalars, key : Scalars]
Limb == Scalars \X Scalars
Commitments == [cols : Seq(Limb), theta : Seq(Limb), cancel : Limb]
Groth16Proofs == [a : Scalars, b : Scalars, c : Scalars]
\* A standard proof carries its own C twice, a lean one the lean C twice; a
\* holder of both proving keys can pair the standard proof with lean
\* commitments.
Kinds == {"standard", "lean", "paired"}
Bundles == [x : Inputs, kind : Kinds \cup {"altered"},
            proof : Groth16Proofs, com : Commitments]
Verdicts == [x : Inputs, bundle : Bundles, ok : BOOLEAN]
Derivations == [arming : Armings, bundle : Bundles, k : Scalars \cup {None}]

Init ==
    /\ key \in Keys
    /\ arming = None /\ bundle = None /\ verdict = None /\ derived = None

\* Mutant: rho is not checked.
BugArmingAllowed(k, x, rho) ==
    /\ GoodPvugcVk(k.pvk) /\ GoodVk(k.vk)
    /\ TargetDefined(k, x) /\ BakedTarget(k, x) # Zero
    /\ SplitDefined(k, x)
    /\ AuditPasses(Columns(k, x), k.pvk.delta)

\* The checks of setup_and_arm and arm_columns, in the code's order.
ArmingAllowed(k, x, rho) ==
    /\ GoodPvugcVk(k.pvk) /\ GoodVk(k.vk)
    /\ TargetDefined(k, x) /\ BakedTarget(k, x) # Zero
    /\ SplitDefined(k, x)
    /\ AuditPasses(Columns(k, x), k.pvk.delta)
    /\ rho # Zero

\* An Err return leaves nothing behind, so a refused arming is no step.
SetupAndArm(x, rho) ==
    /\ arming = None
    /\ ArmingAllowed(key, x, rho)
    /\ arming' = [x |-> x, rho |-> rho,
                  ys |-> ArmColumn(Columns(key, x), rho),
                  delta |-> Times(key.pvk.delta, rho),
                  key |-> Times(BakedTarget(key, x), rho)]
    /\ UNCHANGED <<key, bundle, verdict, derived>>

\* The randomizer r makes A any point; a sound prover's C then solves the
\* Groth16 equation: with the quotient in it (standard), or without (lean).
ProveAndBuild(x, w, a, s, rTheta, cStd, cLean, kind) ==
    LET b == ProverB(key, x, w, s)
        c == [proof |-> IF kind = "lean" THEN cLean ELSE cStd,
              com   |-> IF kind = "standard" THEN cStd ELSE cLean]
    IN  /\ bundle = None
        /\ Len(x) + 1 = Len(key.vk.ic) /\ Len(key.pvk.t) = Len(key.vk.ic)
        /\ 1 + Len(x) + Len(w) = Len(key.pvk.b)
        /\ Groth16Equation(key.vk, RawTarget(key.vk, x), [a |-> a, b |-> b, c |-> cStd])
        /\ Groth16Equation(key.vk, BakedTarget(key, x), [a |-> a, b |-> b, c |-> cLean])
        /\ bundle' = [x |-> x, kind |-> kind,
                      proof |-> [a |-> a, b |-> b, c |-> c.proof],
                      com |-> BuildCommitments(a, c.com, s, rTheta, w)]
        /\ UNCHANGED <<key, arming, verdict, derived>>

\* The bundle travels outside the library and is altered: rerandomised without
\* changing the product, a limb changed, a row added, or rows cut off.
AlteredCommitments(com) ==
    {[com EXCEPT !.cancel = <<Plus(com.cancel[1], One), Plus(com.cancel[2], Minus(One))>>],
     [com EXCEPT !.cols = [com.cols EXCEPT ![1] = <<com.cols[1][1], Plus(com.cols[1][2], One)>>]],
     [com EXCEPT !.theta = com.theta \o << <<One, Minus(One)>> >>],
     [com EXCEPT !.theta = << >>],
     [com EXCEPT !.cols = SubSeq(com.cols, 1, Len(com.cols) - 1)]}

Alter ==
    /\ bundle # None /\ bundle.kind # "altered"
    /\ \E com \in AlteredCommitments(bundle.com) :
          bundle' = [bundle EXCEPT !.kind = "altered", !.com = com]
    /\ UNCHANGED <<key, arming, verdict, derived>>

Verify(x) ==
    /\ bundle # None
    /\ verdict' = [x |-> x, bundle |-> bundle, ok |-> VerifyBundle(key, x, bundle)]
    /\ UNCHANGED <<key, arming, bundle, derived>>

Decapsulate ==
    /\ arming # None /\ bundle # None
    /\ derived' = [arming |-> arming, bundle |-> bundle,
                   k |-> IF Len(bundle.com.cols) # Len(arming.ys) THEN None
                         ELSE PairingProduct(bundle.com, arming.ys, arming.delta)]
    /\ UNCHANGED <<key, arming, bundle, verdict>>

Next ==
    \/ \E x \in Inputs, rho \in Rhos : SetupAndArm(x, rho)
    \/ \E x \in Inputs, w \in Witnesses, a \in Points, s, rTheta \in Randomizers,
          cStd, cLean \in Scalars, kind \in Kinds :
             ProveAndBuild(x, w, a, s, rTheta, cStd, cLean, kind)
    \/ Alter
    \/ \E x \in Inputs : Verify(x)
    \/ Decapsulate

Spec == Init /\ [][Next]_vars

--------------------------------------------------------------------------------
\* Every record has its shape; in particular decapsulate returns a group
\* element or MismatchedSizes.
TypeOK ==
    /\ key \in Keys
    /\ arming \in Armings \cup {None}
    /\ bundle \in Bundles \cup {None}
    /\ verdict \in Verdicts \cup {None}
    /\ derived \in Derivations \cup {None}

\* The PvugcVk was assembled from the same proving key as the VK.
Consistent(k) == k.pvk.beta = k.vk.beta /\ k.pvk.delta = k.vk.delta

\* What makes decapsulation worth the name (README 6.2, "same for any valid
\* proof of same statement"): commitments verify accepted for x open exactly
\* the key of every arming of x, whoever built them.
VerifiedKey ==
    /\ verdict # None /\ verdict.ok
    /\ derived # None
    /\ derived.bundle.com = verdict.bundle.com
    /\ derived.arming.x = verdict.x
    => derived.k = derived.arming.key

\* prove_lean + build_commitments + decap is proof-agnostic: any honest lean
\* proof of the armed statement opens the armed key, although decap checks
\* nothing; a standard proof does so when T_const(x) is the identity.
HonestKey ==
    /\ derived # None /\ Consistent(key)
    /\ derived.bundle.x = derived.arming.x
    /\ \/ derived.bundle.kind \in {"lean", "paired"}
       \/ /\ derived.bundle.kind = "standard"
          /\ Affine(key.pvk.t, derived.bundle.x) = Zero
    => derived.k = derived.arming.key

\* A lean proof of another statement does not open the arms of x when public
\* inputs stay out of the B polynomials (equal public legs) and the two
\* targets differ: the binding setup_and_arm relies on.
StatementBinding ==
    /\ derived # None /\ Consistent(key)
    /\ derived.bundle.kind \in {"lean", "paired"}
    /\ PublicLeg(key, derived.bundle.x) = PublicLeg(key, derived.arming.x)
    /\ BakedTarget(key, derived.bundle.x) # BakedTarget(key, derived.arming.x)
    => derived.k # derived.arming.key

\* When verify accepts an unaltered bundle for a statement setup_and_arm armed:
\* exactly when the bundle is within the limits, gamma is no column (neither is
\* checked when arming), and the commitments are on the side of the baked term
\* that their equation wants.  Lean proofs over a T_const(x) that is not the
\* identity are left to LeanAccepted.
HonestVerdict ==
    /\ verdict # None /\ Consistent(key)
    /\ verdict.bundle.kind \in Kinds /\ verdict.bundle.x = verdict.x
    /\ arming # None /\ arming.x = verdict.x
    /\ verdict.bundle.kind # "lean" \/ Affine(key.pvk.t, verdict.x) = Zero
    => (verdict.ok <=>
          /\ WithinLimits(key, verdict.bundle.com)
          /\ GammaExcluded(key, verdict.x)
          /\ \/ verdict.bundle.kind = "paired"
             \/ Affine(key.pvk.t, verdict.x) = Zero)

\* What docs/security/algebraic_framework.md, section 5.1 ("GT-baking compensates
\* so verification still succeeds") and the head of tests/test_lean_prover.rs say:
\* verify accepts the bundle of an honest lean proof, the quotient rows it has no
\* handles for being in T_const.  verify checks the raw Groth16 equation first,
\* which has no T_const in it.
LeanAccepted ==
    /\ verdict # None /\ Consistent(key)
    /\ verdict.bundle.kind = "lean" /\ verdict.bundle.x = verdict.x
    /\ arming # None /\ arming.x = verdict.x
    /\ WithinLimits(key, verdict.bundle.com) /\ GammaExcluded(key, verdict.x)
    => verdict.ok

\* setup_and_arm never hands out the identity as a key, and its arms have the
\* shape verify_column_arming asks for: the identity exactly on the columns
\* whose base is the identity, and never on delta.
ArmsWellFormed ==
    arming # None =>
        /\ arming.key # Zero
        /\ arming.delta # Zero
        /\ Len(arming.ys) = NumColumns(key)
        /\ \A j \in 1 .. NumColumns(key) :
              arming.ys[j] = Zero <=> Columns(key, arming.x)[j] = Zero

================================================================================
