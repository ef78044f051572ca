# Verification of PVUGC

PVUGC locks Bitcoin funds behind a proof. Operators ("armers") each hold a share
of an adaptor secret, seal it under a key that anybody who has a Groth16 proof
of a fixed statement can compute, and go away. The program is a Rust library
(`src/src`), a fork of `ark-groth16` (`src/ark-groth16-pvugc`), two command line
tools and a set of integration tests; the largest of these, the bridge harness
`src/tests/test_bitcoin_adaptor.rs`, is the only place where the whole protocol
is put together, and it is treated here as the reference for the order of calls.

This directory holds TLA+ models of the program, TLC configurations that check
them on small instances, and proofs that TLAPS checks for every instance.
`PROJECT.json` maps each definition to the lines it stands for.

## 1. Inventory

Paths are relative to `src/src` unless they start with `src/`.

| Component | State | Operations | What makes it correct |
|---|---|---|---|
| **One-sided PPE**: `api.rs`, `arming.rs`, `decap.rs`, `ppe.rs` | none kept; arms, keys and bundles are values callers keep | `setup_and_arm`, `arm_columns`, `build_commitments`, `prove_and_build_commitments`, `verify`/`verify_with_limits`, `decap` | accepted commitments open the armed key; honest ones do for the armed statement and for no other; verify and arm agree on what is usable |
| **secp256k1 fixed base**: `secp256k1.rs` | a table, and loop state (carry, accumulator) | `scalar_bytes_to_point` on the host, `enforce_secp_fixed_base_mul` in the circuit | the two recode every scalar alike; the result is mG |
| **Setup cache**: `pvugc_outer.rs`, `test_fixtures.rs` | files in a shared directory | exists, load, compute, create, write | a loaded setup is a whole setup of the circuit asked for |
| **Adaptor signature**: `bitcoin.rs` and the harness | keys, nonces, partials, pre-signature | key aggregation, Taproot tweak, nonce aggregation, masked partials, pre-signature, completion | the pre-signature satisfies the adaptor relation for every combination of parities; only the missing shares complete it |
| **Arming ceremony**: `api.rs` (attestation), `adaptor_ve.rs`, `poce.rs`, `ct.rs`, the harness | operators' records, context, deposit package, ready signatures | draw, arm, compute the key, encrypt, attest, freeze, sign, deposit, decapsulate, finish | a funded deposit can be spent once a proof exists; a recovered share is the committed one |
| **PoCE-A and column attestation**: `poce.rs`, `api.rs` | none | prove, verify, `attest_column_arming`, `verify_column_arming` | accepted arms have one exponent; an honest attestation is accepted; accepted pieces belong together |
| **DEM, tag, AD_core**: `ct.rs`, `adaptor_ve.rs` | none | encoding, parser, encrypt, tag, VE statement | different AD_cores encode differently; the parser finds T_i |
| **Context layers**: `ctx.rs` | `EpochNonceRegistry` (a set in memory) | builder, layered hash, NUMS challenge, nonce check | layers cannot be confused; a nonce is never accepted twice |
| **Gap and target setup**: `pvugc_outer.rs` | none | q_const points, linear solve over samples, `T_const`, witness bases, audits | lean and standard quotient differ by exactly `T_const(x)` |
| **Lean prover**: `prover_lean.rs`; **Groth16 fork** | none | generate, prove, reduce, verify | the Groth16 equation; the QAP identity |
| **Bounty CLI**: `bin/pvugc_bounty.rs` | a package file | arm, decap | a key is printed for the passphrase it was locked under and for no other; a finished package opens |
| **Audit CLI**: `bin/audit_circuit.rs` | bases under elimination | structure, span and independence tests | verdicts agree with what the spans are |
| **Bitcoin scripts**: `bitcoin.rs` | none | timeout script, leaf hash, sighash | the script says what its comment says |
| **SP1 bridge**: `sp1_bridge/` | none | parse gnark keys and proofs, armed digest | offsets and lengths |
| **Outer circuit**, Poseidon, IO, errors | none | constraints, absorption | outside the reach of a state model |

Interaction is by values only: the library has no locks, tasks or callbacks.
Whatever concurrency there is comes from outside, in three forms: several
operators calling the library on behalf of one deposit; processes and threads
that share a file, of the setup cache or of a bounty; and the path of bundles
and attestations from one party to another, on which nothing in the library
protects them. Hence the behaviours
that are hard to test:

* *staleness across calls*: arms, key, share, T_i, AD_core and ciphertext are
  separate arguments of separate calls, and an operator who refreshes one of
  them can leave the others behind;
* *order*: sum of commitments, pre-signature, context, attestation and package
  are each taken from the operators' records at a different moment;
* *crashes*: cache files and packages are created, truncated and written in
  place; a bounty's address is printed before its package is written; the nonce
  registry is gone with its process;
* *numeric edges*: carries that run through all windows, windows of exactly 32,
  points of odd parity, identity columns, limits;
* *liveness*: after the deposit nobody else helps; the shares must open.

The full list, each at its line and with the properties meant to catch it, is
`hazards` in `PROJECT.json`.

## 2. Modules

Lines lead from a module to those that extend it (or, where it says so,
instantiate it).

    PairingRing ─┬─ OneSidedPpe ── OneSidedPpe_proofs (with FieldSums)
                 ├─ AdaptorSignature ── AdaptorSignature_proofs (with WindowRecoding, FieldSums)
                 ├─ ColumnAttestation ── ColumnAttestation_proofs (with FieldSums)
                 │      └ also extends ContextLayers
                 └─ EvaluationDomain ─┬─ LeanSetup ── LeanSetup_proofs (with FieldSums)
                                      ├─ PublicationAudit ── PublicationAudit_proofs (with FieldSums)
                                      └─ FieldSums (the laws the proofs share)
    Positional ── WindowRecoding, LeanSetup, FieldSums
    WitnessRelease ── instantiated by ArmingCeremony ── ArmingCeremony_proofs
    SharedFile ── SetupCache, BountyPackage ── SharedFile_proofs

An `MC` module next to a module gives its constants values for TLC; `SmallField`
is the field of 17 elements for those over an `EvaluationDomain`.

### PairingRing, EvaluationDomain, Positional, FieldSums

Group elements are written as exponents: the group operation is `Plus`, scalar
multiplication, GT powers and the pairing are `Times`, the identity is `Zero`.
All the code asks of the curves is then that exponents form a commutative ring
(`RingAssumption`), in places one without zero divisors (`DomainAssumption`);
both are constants with laws, integers modulo 7 in the runs and arbitrary in the
proofs. `Sum` is the accumulation loop behind every multi-scalar multiplication
and every product of pairings. `EvaluationDomain` adds what needs a field with roots of
unity: the domain of a circuit, Lagrange values, evaluation and interpolation.
`Positional` has powers of two and the number that digits stand for; the recoding uses
it, and the bit reversal of the FFT.

`FieldSums` proves the laws the theorems use: sums (scaling, splitting, changing
places), powers and roots, transforms and their inverse, inner products, division of
polynomials, powers of two. It extends `EvaluationDomain`; proofs that need the ring alone
do not cite what the field assumes.

The representation has one blind spot. Points outside the prime-order subgroup
have no exponent, so the subgroup checks of `ppe.rs` are not modelled beyond the
identity checks in them; neither is the refusal of some pairing implementations
to accept the identity.

### OneSidedPpe

State: the pinned key pair, the arming, the bundle, the last verdict and the last
derived key. Actions: `SetupAndArm`, `ProveAndBuild`, `Alter` (the bundle changes
on its way), `Verify`, `Decapsulate`; a call that returns `Err` changes nothing.
`VerifyBundle` and `ArmingAllowed` list the checks of `verify_with_limits` and
`setup_and_arm` in the code's order. Both the standard Groth16 equation and the
one with the baked term `T_const(x)` are there, because the code uses both: a
proof is of kind *standard* or *lean*, and *paired* when somebody holding both
proving keys publishes the standard proof with lean commitments.

### WindowRecoding

One behaviour per scalar. Host and circuit run window by window, side by side:
the host's `i32` digit with its carry (whose branch for a negative digit leaves
the old carry in place), and the circuit's ripple-carry adder, comparison,
borrow-chain subtraction and table lookup. A curve point is its logarithm. The windows
have two bits more than the scalar at least (43 of 6 bits for 256), which keeps the
last carry at 0.

### SetupCache

`SharedFile` is the file: opening, writing at an offset, reading; the bounty's package is
another. A file is the sequence of blocks that reached it. `Call` is the only existence
check; `Create` truncates, `Write` writes at the caller's own offset, leaving a
hole if the file was truncated meanwhile; `Read` fails on a short file, where the
code's `expect` panics; `Kill` stops a caller anywhere. Callers call again.

### AdaptorSignature

The signing session of the harness over exponents, with an arbitrary set `Even`
of even points: aggregation and normalisation of key and nonce, tweak, masked
partials, pre-signature, recovery of shares, completion with whatever shares are
at hand. `VerifySchnorr` is `verify_schnorr_signature` of `bitcoin.rs`.

### ArmingCeremony and WitnessRelease

The calls of all operators and the steps of the harness between them, with
symbolic cryptography: the d-th value drawn is d, a ciphertext is the record of
what it was made from. A behaviour begins with a choice: with `inOrder`, operators
keep the harness's order (records stay as they are once commitments were summed,
and the key matches the arms); without, they call in every order that the values
passed make possible.
`WitnessRelease` is the abstract promise: funds are locked after every operator
registered, leave only when a witness is known, and then do leave. `Release`
in `ArmingCeremony` is the refinement mapping.

Two simplifications to know about. The harness asserts that the derived key is
the expected one (`test_bitcoin_adaptor.rs:1006`); a decapper has no expected
key, so the model does not use that assertion. And T_i determines the share,
which `WindowRecoding` shows to be false for shares with a window of 32.

### ColumnAttestation and ContextLayers

One armer opens instances, arms their columns under a rho, seals a share and
publishes attestations; between any two calls it may arm again (`Arm`), arm one
column under another exponent (`Mix`), or restart and forget its nonces
(`Restart`). Whoever verifies chooses: `Collected` is every combination of arms,
T, ciphertext, PoCE proof and VE proof out of what was published, under any
builder, and `Accepts` is `verify_column_arming` of one. The Fiat-Shamir hash is
an oracle filled as transcripts are hashed; a ciphertext with its tag is the
record of what it was made from, and a VE proof the statement it was made for.
`Transcript` concatenates what `compute_poce_challenge` hashes without adding the
lengths it does not hash.

`ContextLayers` has the byte strings themselves, a byte for each field of fixed
width: `CtxCore`, `CtxHash`, `NumsChallenge` of `ctx.rs`, the encoder of `ct.rs`
and `extract_t_from_ad_core`, which walks over its lengths. Hashes are injective;
the strings under them need not be, and one pair is not: see section 6.

### LeanSetup

One behaviour is one run of `build_pvugc_setup_from_pk_for_with_samples` after key
generation, followed by one proof. The stages of `compute_witness_bases` are
actions of their own, because each leaves a vector behind: the Lagrange points
(`ConvertSrs`), the diagonal (`CorrectDiagonal`), the bases
(`ComputeWitnessBases`). `Audit` collects the asserts before publication, `Sample`
is one turn of the gap loop, `Solve` either branch of
`solve_q_const_from_samples`. A panic is a phase. The FFTs are the code's
butterflies where the repository wrote its own (`parallel_fft_g1`) and their
mathematical effect where arkworks does them; a circuit is its matrices with the
assignments its synthesis can produce. `tau` is kept as a history variable, so
that `BasesRight` can say what the bases should be.

`OneSidedPpe` assumes that the C of a lean proof solves the baked equation.
`LeanVerifies` is that assumption, shown for circuits whose omitted columns are
bound by rows `1 * x_wit = x_pub` (`Bound`), at a tau where no column of A with a public
input in it happens to vanish (`NoAccident`). For other circuits it is false (a row
`w1 * w2 = x` leaves out `w2`, which x does not determine), and no assert of the
setup notices; the outer circuit is of the first kind.

### PublicationAudit

One behaviour is one run of `run_audit` on one circuit. The tests on the structure
of the matrices are operators; the two eliminations are steps, one per column:
`InsertWitness` and `ReducePublic` for the span tests of B, A and C (with
`RowBasis`, which stays reduced), `AddHandles` and `FinishCheck` for the check of
the target against the handles (with `Basis`, which does not). Handles and target
are vectors over the 24 monomials of the code. `EvaluateColumn` is the barycentric
formula with its exception for points of the domain, `PolynomialAt` the evaluation
by coefficients that the code uses for the target.

### BountyPackage

Several runs of `arm` and `decap` on one path. A run of `arm` prints its address,
opens the file (which truncates it) and writes at its own offset; it may be
interrupted anywhere. A run of `decap` reads the file as it is then, and `Decap` is
everything from the last byte to the exit code: parse, statement hash, proof, tags, sum
of the shares, address.

The file is a sequence of units, each known by the run that wrote it. The head (address
and statement hash) is one unit for every command line, because it has one size for every
command line; the proving key and the shares take as many units as `PkUnits` and
`ShareUnits` say of their command line. `ReadPackage` walks over what it is given as
`read_bounty_package` does: the proving key that lies behind the head says how much
follows, whoever wrote the head, and what comes after the second share is not looked
at. A section with a hole or with units of two runs has no writer. The statement hash is
translated byte by byte, because the end of the passphrase and the start of the context are
not marked in it, nor are zeros that fill a block; two command lines with one hash, whose
packages differ in size, are among the inputs.

## 3. Runs

Each passing run checks its properties on every reachable state; each violation
run exhibits one disagreement between the code and what a comment, a document
or a test says of it (section 6). A property of a passing run has a mutant: a
definition with a plausible bug, under which the property fails.

| Run | States | Shows |
|---|---|---|
| `one_sided_ppe` | 75,866 | `VerifiedKey`: commitments verify accepts open the armed key. `HonestKey`, `StatementBinding`: honest commitments open the key of their statement and of no other. `HonestVerdict`: exactly which honest bundles verify accepts for an armed statement, but for lean proofs over a `T_const(x)` other than the identity. `ArmsWellFormed`: identities among the arms |
| `lean_verdict` | violation | of those it refuses every one |
| `window_recoding` | 262,144 | host and circuit recode every scalar alike (`HostMatchesCircuit`); the digits stay within the table and the value is m plus 32 times the weight of each window that comes to 32 with its carry (`RecodedValue`) |
| `scalar_times_g` | violation | hence it is not m for such scalars |
| `setup_cache` | 149,922 | `ReturnsWholeSetup`: as long as one circuit used a file and writers did not meet on it, a short file is never returned as a setup, crashes included. `RaceHeals`: racing writers of one circuit leave a whole file when none was killed. `PoisonStays`: a short file stays until somebody deletes it |
| `cache_collision` | violation | a call for one circuit loads another circuit's setup |
| `adaptor_signature` | 1,385,760 | `PreSignatureOpens`: the adaptor relation holds for every combination of parities. `SharesUnlock`: the signature is completed exactly when the missing shares sum to zero |
| `ceremony` | 61,478 | In order, `DepositSpendable` and, through `ImplementsRelease`, liveness: with a proof, a deposit is eventually spent. In any order, `RecoveredAsCommitted` and `NeverInvalid`: a deposit may be lost, but no wrong share is recovered and no broken signature published |
| `lean_setup` | 27,357 | `BasesRight`: FFT, convolution and partial fractions give the quotients. `PanicJustified`: the asserts stop only circuits with a public input in A or B and samples on all of which some affine function other than zero vanishes. `StandardVerifies`, `LeanVerifies`: both provers' proofs satisfy their equation for every statement and witness |
| `column_attestation` | 312,333 | `SameExponent`: however pieces are combined, accepted arms have one exponent. `AcceptedAsAttested`: accepted pieces were published together, for that instance. `HonestAccepted`: an attestation is accepted exactly when its arms have the rho it was made with. `InstancesDistinct`: within one life of the process no two instances share a context hash or a NUMS challenge, whatever layers are there |
| `bounty_package` | 1,402,924 | `KeyForItsInput`: a printed key is that of one arm run with the same passphrase and context. `MismatchMeansOneText`: an address that does not fit the key is another run's, given the same text, split between passphrase and context at the same place or at the end of an element. `FinishedPackageOpens` (liveness): a package finished and not opened by another run since gives its key to whoever asks with its command line |
| `publication_audit` | 18,113 | `SpanVerdictExact`: span verdicts against the enumerated spans. `IndependenceExact`: what an independence verdict depends on. `EvaluationAgrees`: the two evaluations of a column. `SafeIsAffine`: public inputs meet no other variable in a product unless the result is "unsafe". `StructureSuffices`: the structural test with independence implies the best result |

### Bounds

* `one_sided_ppe`: P = 7 is the least prime for which the column audit of
  `setup_and_arm` lets a key with two usable columns pass. The six keys are one
  for each thing the checks look at: T_const identity or not, a public input in
  B, gamma equal to a column, one column too many, a beta of another setup.
  `VerifyLimits` is scaled (4, 2 and 12 for 24, 22 and 96): with the default
  values the pairing budget can never be what bites, since 24 columns and 22
  rows make 94 pairings.
* `window_recoding`: the windows are the real ones (6 bits, digits up to 32), the
  scalar is 16 bits instead of 256. Carries run through all windows and into the
  short last one; a longer scalar repeats the same step.
* `setup_cache`: two callers are enough for one to truncate under the other, two
  blocks for a file to be short or to have a hole, three circuits for two to share
  a cycle. Callers are symmetric.
* `adaptor_signature`: seven points, the identity and three pairs of opposite
  parity; three operators, so that a proper subset of missing shares can sum to
  zero. The challenge is a function of the two x coordinates, as the hash is.
* `ceremony`: `MaxDraws = 2`: with two values each operator can have a fresh one
  and a stale one, and a comparison sees no more than equality. Two operators are
  enough to refresh at different times.
* `lean_setup`: P = 17 has the domains of size 4 and 8. Seven circuits: the outer
  circuit in small (bits, x_wit, x_pub, a private relation), two public inputs,
  the earlier form with the bits on the public row, an unbound product, and
  three with a public input in A, in B, or in B beside a witness in A. The
  sample lists make the solver take its fast path, its general path, a row swap
  and its panic. In so small a field a base may vanish by accident of tau;
  `BasesRight` then asks that it is missing. One proof per behaviour: proofs do
  not influence one another.
* `column_attestation`: P = 5, and two values for whatever two can differ in:
  exponents, shares, challenges, sessions, lives of the process, instances opened. One
  nonce suffices, since different challenges already give different responses.
  One base is the identity. The four instances differ in path, statement
  and number of columns, and two of them have the same `ctx_core`.
* `bounty_package`: two runs of `arm` can overlay each other, one of `decap` can read
  across both. An element holds two bytes instead of eight (the rate of two elements is
  the code's), so that short texts can be split in two ways over one hash; the two splits
  have packages of 5 and 4 units, so that a reader of one goes on behind the end of the
  other, and a third command line differs from one of them in the last byte only, which
  fills half an element.
* `publication_audit`: P = 17; the five mock circuits of the tool, and three hundred
  with two public and two witness columns, made of matrices whose spans are
  disjoint, overlap in rows only, or meet in a combination of columns of which no
  single one does. Sample points on and off the domain are among `Points`; the code
  draws four and `NumChecks` is smaller, as checks do not influence one another
  except by ending the run.

Deadlock is not checked, because every behaviour here may stop: a setup panics, a
ceremony is abandoned, a package is spent, a command exits.

## 4. Fairness

`ArmingCeremony` states fairness of the decapper alone: `WF` of
`RecoverShare(p)` for every operator p and of `Finish`. The decapper's program is a
loop without waits, so once it can take a step it will. Nothing obliges an operator
to go on, a depositor to fund or a prover to prove, so no fairness is assumed of
them; `WitnessRelease` promises nothing until funds are locked and a witness is
public, and then asks weak fairness of `Release` alone.

`BountyPackage` states `WF` of `ReadUnit(d) \/ Decap(d)` for every run of
`decap` that was started, a sequential program that waits for nobody. Nobody has to
start one, and a run of `arm` may stop at any unit.

## 5. Proofs

Proved by TLAPS for every value of the constants:

| Module | Theorems, with the property each states |
|---|---|
| `OneSidedPpe_proofs` | `TypeCorrect`, `VerifiedOpens` (`VerifiedKey`), `HonestOpens` (`HonestKey`), `OtherStatementLocked` (`StatementBinding`), `ArmsShaped` (`ArmsWellFormed`), `HonestBundlesJudged` (`HonestVerdict`) |
| `AdaptorSignature_proofs` | `TypeCorrect`, `PreSignatureSound` (`PreSignatureOpens`), `SharesComplete` (`SharesUnlock`); of `WindowRecoding`: `HostAlwaysMatches` (`HostMatchesCircuit`), `RecodedAlways` (`RecodedValue`) |
| `ColumnAttestation_proofs` | `TypeCorrect`, `SpecialSoundness` (two accepting responses to one commitment under different challenges give the exponent), `SameExponentAlways` (`SameExponent`), `HonestAlwaysAccepted` (`HonestAccepted`), `AcceptedAlwaysAttested` (`AcceptedAsAttested`), `InstancesAlwaysDistinct` (`InstancesDistinct`) |
| `ArmingCeremony_proofs` | `TypeCorrect`, `BrokenNeverFinished` (`NeverInvalid`), `CommittedRecovered` (`RecoveredAsCommitted`), `DepositsSpendable` (`DepositSpendable`), `ReleaseSafety` (`ImplementsRelease` without its fairness) |
| `LeanSetup_proofs` | `TypeCorrect`, `BasesRightCorrect` (`BasesRight`), `StandardVerifiesCorrect` (`StandardVerifies`), `LeanVerifiesCorrect` (`LeanVerifies`), `PanicJustifiedCorrect` (`PanicJustified`) |
| `SharedFile_proofs` | of `SetupCache`: `CacheTypeCorrect`, `WholeSetup` (`ReturnsWholeSetup`), `RacesHeal` (`RaceHeals`), `PoisonForGood` (`PoisonStays`); of `BountyPackage`: `TypeCorrect`, `KeysForTheirInput` (`KeyForItsInput`), `MismatchesShareText` (`MismatchMeansOneText`) |
| `PublicationAudit_proofs` | `TypeCorrect`, `VerdictsExact` (`SpanVerdictExact`), `ChecksExact` (`IndependenceExact`), `EvaluationsAlwaysAgree` (`EvaluationAgrees`), `SafeAlwaysAffine` (`SafeIsAffine`), `StructureAlwaysSuffices` (`StructureSuffices`) |
| `FieldSums` | the laws the others cite |

### Assumptions

TLC evaluates each of them on the instances of the runs.

* The ring laws (`RingAssumption`) and the absence of zero divisors
  (`DomainAssumption`), both true of the scalar fields. The second is used by the negative
  statements of the one-sided PPE (a key does *not* open, an arm is *not* the
  identity), by `SameExponentAlways`, by the audit and by the lean setup (polynomials
  are divided, rows are scaled to a pivot).
* That the constants are of their kind: keys, statements, secrets and limits
  (`KeysAssumption`, `InputsAssumption`, `LimitsAssumption`,
  `OperatorsAssumption`), the challenge of a signature a function into the scalars
  (`ChallengeAssumption`), of two opposite points other than the identity one even
  (`ParityAssumption`).
* `AttestationAssumption`: exponents and challenges are not zero, a statement has a
  column and a delta other than the identity; `BuildersAssumption`: a builder is a
  record of the layers of `ctx.rs`.
* `ShapeAssumption` of the recoding: a window has at least two bits, and the windows
  together at least two more than a scalar, as 43 windows of 6 bits have.
* `ShapeAssumption`, `AbsentAssumption` of the cache: a setup has at least one block, a
  path is one of the paths, a hole is no block of a setup and a missing file no content.
* `InputsAssumption` of the bounty: texts are of bytes 1 to 255. A byte of value zero
  cannot be in a command line, and the packing does not tell a trailing one from
  padding. `UnitsAssumption`: a proving key and a share take at least one unit, and how many
  depends on the command line alone, as their sizes do on the circuit.
  `RunsAssumption`: names of runs differ from one another and from the outcomes.
* `FieldAssumption`: `Reciprocal` inverts and one is not zero. `RootsAssumption`: the
  powers of the generator of a domain are what `Element` says, the first n of them are
  different, the n-th is one, and n is not zero in the field.
  `CircuitsAssumption`, `PointsAssumption` of the audit: matrices have the
  circuit's rows and columns, the instance begins with one, the circuit fits a domain.
* `SizesAssumption`: sizes of domains are powers of two. `CosetAssumption`: the coset of
  the witness map avoids the domain. `CircuitsAssumption` of the lean setup: the
  assignments of a circuit satisfy it, and it fits a domain; `InputsAssumption`: gamma and
  delta are not zero, the rest is in the field.
* Values that stand for "nothing yet" differ from all others (`NoneAssumption`), and
  bounds are positive.

### Arguments

*One-sided PPE.* The properties speak of records, and say nothing about how a
record came to be: they are not inductive. `IInv` adds it: an arming is what
`setup_and_arm` computed from the pinned key under checks that passed, a bundle
was built by the prover and at most had its commitments altered, a verdict is
the value of `VerifyBundle`, a derived key that of `Decap`. The rest is algebra
under `IInv`. The accepted commitments satisfy the product equation with the
bases; every arm is rho times its base; scaling the sum (`FieldSums`) gives
rho times the target, the key. For honest commitments the sum is split along
`split_statement_only_bases` into the public leg and the witness columns.
`HonestVerdict` compares the two equations `verify_with_limits` asks: for an honest
bundle one of them holds by construction, and their difference is `T_const(x)`.
The proof has the verdict of every honest bundle (`JudgedExactly`), lean ones
included; for those it is the refusal of section 6, so the property leaves them out.

*Adaptor signature.* `IInv` is `TypeOK` with one conjunct for each stage of the
session: the aggregate is the combination of the secrets under the coefficients
*after* normalisation (`KeyInv`), the output key is aggregate plus tweak
(`OutputInv`), the stored nonce is the sum or its negation as its flag says
(`NonceInv`), a partial is the masked formula over values that can no longer
change (`PartialInv`), and pre-signature and completed signature are the sums
(`PresigInv`, `FinalInv`). That values *can no longer change* is why the
conjuncts mention one another. `PreSignatureOpens` then follows by adding up
the partials, with one case for each parity.

*Column attestation.* The hash has no lengths between its fields, and a verifier may
combine pieces of different sessions. `IInv` therefore says how a published session
was made (commitments raised to one k, responses for its rho and nonces) and that the
oracle holds its transcript, and that a challenge belongs to one transcript.
An accepted PoCE proof comes from some session, so the transcript the verifier
hashed is that session's; `TranscriptBinds` takes the two concatenations apart from
behind, which the lengths the verifier compared make possible, and finds the same
bases and the same arms. What remains is algebra, column by column: the session's
own response solves the verifier's equation only if the arm is the base raised to
rho, as challenges are not zero and there are no zero divisors. The same argument,
read backwards, is `HonestAlwaysAccepted`.

`AcceptedAsAttested` asks what the two encodings bind. A VE proof was made for one
AD_core, and the encoder of `ct.rs` writes lengths: `PrefixedSplit` takes a field with
its length off a concatenation, `SerializeBinds` does so field after field and finds that
two AD_cores with one encoding are equal, whatever paths, templates and numbers of
columns they have. The context hash is inside, so the instance is as well
(`AdBinds`). `InstancesDistinct` rests on `HistoryInv`: within a life every opened
instance has its nonce in the registry, and no two have the same; `LayersBind` then shows
that the layered hashes differ when the nonces do, with or without the other layers.

*Ceremony.* The properties compare what point, pre-signature, context, package and
records hold, all taken at different moments; they are inductive only with what
must have happened before each was taken (`ProgressInv`), with a package being a
snapshot of records that no longer change (`PackageInv`), with attested
ciphertexts holding what their AD_core commits to (`CipherInv`), and, in order,
with the records being what was summed (`OrderInv`). `BrokenNeverFinished` needs
`DrawInv` besides: a share is drawn anew and never again the same, so of the values
that adaptor point, pre-signature and package hold, in this order, a later one is
never smaller; when the recovered sum equals the point, the pre-signature is caught
between. `ReleaseSafety` maps every step to a step of `WitnessRelease` or a
stutter; its fairness, hence `ImplementsRelease` as a whole, is TLC's.

*Setup cache.* `IInv` says what a caller holds and has written (`CallInv`), that as
long as no two writers met on a file there is at most one, which stands at the end of the
file (`TidyInv`), and that whatever is in a buffer was written by a writer of the file
(`BufferInv`). With this a reader that gets to the end has a whole setup:
`WholeSetup`. `CoverInv` is for races: of the writers of a file one, the last to truncate
it, still covers all the file's first blocks up to its own offset, or is through
and the file is whole. When nobody was killed and the last writer has left, the file is
whole: `RacesHeal`. `PoisonForGood` needs only the types and the guards.

*Bounty.* A reader may have units of several runs; `UnitsInv` says that each was written by a
run that had started, and `KeyInv` of a printed key what the two properties say. For the
step that prints a key, the package was accepted: the proof verifies under the
proving key, so the reader and the key's run have one circuit (as many bytes of
passphrase, one context), and the head's hash is the reader's.

`KeyForItsInput` follows from the tags: both shares open, so they were sealed under the
proving key's run and under the hash in the head (`OneWriter`). Hash and length of the
passphrase bind the command line (`HashInjective`): elements are packed byte by byte, and
a text without zeros is told from its padding (`AbsorbedInjective`).

Of the head only the hash is left, and its run may have had another command line.
`MismatchMeansOneText` asks what the hash alone says. Seen as a stream of bytes, a hash
is the passphrase, zeros up to the end of an element, the context and more zeros
(`TextBytes`, `HashElement`). Two with one hash have one stream (`SameStream`). If the
passphrases fill as many elements, their last bytes other than zero are the same, hence the
passphrases and the contexts (`SameWidth`). If they do not, the shorter one's zeros would
stand where the longer passphrase has none, so there are no zeros and it ends with an
element (`TwoWidths`). Both ways it is one text (`HashShowsText`).

*Audit.* `StructureInv` suffices for `SafeIsAffine` and `StructureSuffices`: what the
linearity and mixing tests look at are the matrices, and a circuit with public inputs in
C alone has disjoint supports in A and in B. The other three rest on `AuditInv`.

`ChecksExact`: four of the 24 monomials are the target's own. The handles of witness
columns, whatever they are, are clear of them, and so is everything that elimination
makes of clear vectors (`ClearClosed`, `ClearBases`). Alpha's bundled handle is the one
exception: it goes in with the first of the four as its pivot and stays as it is
(`AlphaFirst`, `AlphaNext`), carries `V_pub` along, and so cancels two of the target's
four entries at once. The other two are left (`TargetLeft`): the public columns of A and of C
at the point.

`EvaluationsAlwaysAgree` is interpolation over a group of roots of unity: the geometric
sum telescopes (`Geometric`), gives the Lagrange polynomial its closed form (`KernelIs`)
off the domain and the indicator on it (`KernelAtRoot`), and two sums change places
(`TotalSwap`). `Total` folds over a set in an order nobody states;
`TotalIs` ties it to a sum that has one.

`VerdictsExact` is linear algebra. `IsBasis` says that a row basis is reduced (no vector
has an entry at another one's pivot) and spans the space; for such a basis what `Reduce`
leaves of a vector does not depend on the order of the pivots (`ResidueUnique`) and is a
linear function of the vector (`ReduceLinear`). So the reduced public columns span the
images of the public span (`Images`), and each public column adds to the rank of the
public columns, and to the rank of the images, one or nothing; it adds to the first and
not to the second only if a combination that contains it lies in the witness span
(`RankStep`). `RankInv` is this for the columns done so far: the second rank is
never greater, and is the same just as long as the spans did not meet. With all
columns done this is the property. A single ascending pass over the pivots would be exact
without the bases being *reduced*, since a row has no entry before its pivot; that
they are, as `RowBasis` keeps them, is what makes the residue a linear function with so
short a proof.

*Window recoding.* Of one window both sides have closed forms. The ripple of carries adds
(`ChunkIs`), the chain of borrows subtracts (`BorrowIs`), so the circuit's digit and carry
are the signed digit of the chunk (`CircuitIs`); so are the host's (`HostIs`), for the
branch that keeps the old carry keeps a 1 exactly where the carry is 1, and where it is 0
recomputes it. `RecodeInv` carries this from window to window: same digits, carries and
points. After the last window the carry is 0, since its upper two bits are (`LastWindow`).

`RecodedValue` compares with a reference that passes no carry from window to window: there
the carry into a window comes from one comparison of all the bits below it with the
number whose digits are all `Half - 1`. `CarryIntoIs` finds that this comparison does follow
window by window, as the loops do; `WindowIs` ties the bits of a window to quotient and
remainder. `ValueInv` then says, for the windows done so far, that value of the digits
plus carry is the scalar below the window plus 32 times the weight of every window
that came to exactly 32.

*Lean setup.* The invariant says where every part of the state came from.
`KeyInv`, `SynthInv` and `ProofInv`: the key is what generation
computes from tau and the trapdoor, what was synthesized is an assignment of the circuit
with its witness map, a proof is made by one of the two provers. `BasesInv`: each buffer of
the bases is what its stage computes from the one before. `GapsInv`: there is one gap
for each sample so far, the difference of the two provers' C, and a panic has one of
its two causes.

`StandardVerifies` needs the quotient to be exact. The coset does not meet the domain, so
a polynomial of degree below 2n is determined by its values on both; the products of the
three sides agree on the domain because the assignment satisfies the circuit, and the
quotient read off the coset is the true one (`WitnessMapIs`, `Divided`). The rest is the
Groth16 equation with the input columns split off (`ColumnsSplit`, `ProofVerifies`).

`BasesRight` has three parts. `FftIs`: after l passes every block of 2^l entries is the
transform of a part of the input chosen by its low bits, and the bit reversal places the
halves of a part side by side (`ReversedHalves`, `PassStep`, `PassesRight`). `ConvertSrs`
therefore gives Lagrange points, short of one coefficient, since the h query has one entry
less than the domain. `DiagonalIs` evaluates the convolution with the reversed kernel, and
the kernel is orthogonal to what is missing (`KernelBalance`, `DiagonalLag`). `BaseIs`:
for two different rows the product of their Lagrange polynomials splits into partial
fractions, and for a row with itself the diagonal has the sum; hence what a pair of columns
gets is its quotient.

`LeanVerifies` starts from there: the lean prover's quotient is a quadratic form in the
assignment (`QuadraticIs`), and differs from the standard prover's by the pairs left out
(`QuotientGap`). If the omitted columns are bound to public inputs, each of these pairs
contributes a multiple of one input (`BondIs`, `InactiveTerm`), and the difference is an
affine function of the statement, whatever the witness.
What remains is to find the function again from n + 1 samples. Each Gauss-Jordan
step keeps the vectors that the rows annihilate (`GaussStepIs`, `ClearAnnihilates`), so the
right half of the reduced matrix inverts the left (`InvertMatrixIs`), and coefficients
that agree with the gaps on all samples are the function's (`GaussSolves`,
`FastPath`). The proof then follows from the standard one plus the gap. If no pivot is
found, the columns done so far express the next one (`NoPivot`): a function that vanishes on
every sample, which with the assert on the columns (`AuditRefuses`) is
`PanicJustified`.

*Induction.* The library's induction theorems take an operator as a parameter, which the
provers cannot instantiate. `FieldSums` proves `SetInduction` instead, in which the
predicate is the set of the numbers that satisfy it, and uses it for every law of
`Sum`.

A fold and a recursive function get their value from a loop
in the same way: a function on `0 .. n` with a first value and a step exists
(`LoopExists`), keeps what its step keeps (`LoopKeeps`), and the definition is its last
value.

### Only model-checked

* Liveness: `FinishedPackageOpens`, and the fairness in `ImplementsRelease`. ENABLED
  and fairness are outside the prover's reach.
* The violation runs, which refute: their properties are false of the code.

Every invariant of a passing run is stated by a theorem, and so are the action properties.

## 6. Findings

1. `scalar_times_g`: a window of exactly 32 (with its carry) is taken as digit 0
   with carry 1, by host and circuit alike; the point is not m*G. The two agree
   with each other, so an honest ceremony still closes, but T_i is then not the
   commitment `adaptor_ve.rs` says it is (`src/src/secp256k1.rs:78`).
2. `cache_collision`: the cache path is made of the cycle's name, although the
   comment above it says it holds a hash of the verifying key
   (`src/src/pvugc_outer.rs:83`).
3. `lean_verdict`: `docs/security/algebraic_framework.md:412` says of the rows that have
   no handles in the lean CRS that "GT-baking compensates so verification still
   succeeds", and `src/tests/test_lean_prover.rs:3` that lean proofs are accepted by the
   standard verifier. `verify_with_limits` asks the raw Groth16 equation of the proof
   besides the one with baked rows (`src/src/api.rs:443`), so an honest lean bundle is
   refused when `T_const(x)` is not the identity. Arming and decapsulation do not
   depend on it: the same commitments open the armed key (`HonestKey`).

Other things met on the way, which are not runs:

* `verify_schnorr_signature` takes a full point, so it also accepts under output
  keys of odd parity, which a verifier with an x-only key refuses
  (`src/src/bitcoin.rs:84`).
* The expected key of an attestation is the caller's and not related to the arms
  (`src/src/api.rs:234`); the tag at decapsulation is what covers it. PoCE's T lies on
  the pairing curve, with a secret of its own, and is not tied to the sealed share.
* A context hash does not tell a tapleaf that was left out from a longer template;
  AD_core, which has lengths, does (`AcceptedAsAttested`). The nonce registry
  forgets everything when its process ends, so `InstancesDistinct` holds within one life.
* `timeout_abort` is documented to push the locktime (`src/src/bitcoin.rs:190`). It writes
  `0x50 + blocks` for up to 79 blocks, which Bitcoin reads as a number for up to 16
  only, and above that the locktime where Bitcoin expects the length of the data
  (`src/src/bitcoin.rs:196`).
* `docs/security/algebraic_framework.md:448` says of the structural test (no public input
  in A or B, disjoint rows in C) that it "is exactly what PVUGC's circuit audit enforces
  in practice". The audit prints the test's outcome and drops it
  (`src/src/bin/audit_circuit.rs:435`): its own linear mock, with a public input in B,
  prints "[FAIL] Public input structure INVALID" and ends in SECURE. What SECURE does
  promise is `SafeIsAffine`.
* An independence verdict of the audit never depends on a witness column
  (`IndependenceExact`), and the overlap test is implied by linearity.
* Bytes behind the second share of a package are not looked at, and nothing ties the
  address in its head to the shares: one command line armed twice on one path can leave
  a package that prints one run's key beside the other's address, and then fails.
* The scripts contain their 33 key bytes without the opcode that pushes them.

## 7. Not modelled, and why

* Points outside the prime-order subgroup, and identity refusal by pairings: no
  exponent to write them as.
* The Groth16 verifier gadget, curve formulas, serialization: third-party
  or byte-level, with no state. The constraints of the VE circuit are the statement
  in `VeHolds`; `skip_ve = true`, which only tests use, is left out.
* Poseidon: the permutation is injective in `BountyPackage`; parameter generation
  and the blocks of the DEM keystream are not there. `validate_gs_size_bounds` and
  the byte comparison of GT elements are not either.
* The SP1 bridge: parsers of byte strings and a digest, without state and without
  anybody to interact with. What could be said of them (offsets and lengths) would be
  a transliteration.
* The scripts of `bitcoin.rs`, leaf hash, transaction template and sighash: encodings
  without state, read by Bitcoin or handed to SHA-256.
* `LibsnarkReduction` and `rerandomize_proof` of the Groth16 fork: not on the path
  of this program.
* The diagnostics the audit prints and does not use; the production circuit it
  audits.
* Probabilities: a secret is a value drawn before, and values drawn at different
  times differ.
* Wording, timing output, chunking and thread pools: the parallel loops of
  `pvugc_outer.rs` and `prover_lean.rs` share nothing but a progress counter.

## 8. What could follow

* Hypotheses of `LeanVerifies` closer to the code: `Bound` is what the outer circuit
  does, and a weaker condition on the rows that the setup could assert would make it a
  check instead of a convention.
* A bounded model of the offset arithmetic of `gnark_deserialize.rs`, if a property is
  found that its unit tests do not already state.
