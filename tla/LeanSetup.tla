------------------------------- MODULE LeanSetup -------------------------------
(***************************************************************************)
(* From a circuit to a lean proving key: Groth16 key generation, the       *)
(* quotient bases H_ij of build_pvugc_setup_from_pk_for, their audit, the  *)
(* gap between standard and lean proofs over sample statements, the solve  *)
(* for Q_0 .. Q_n behind t_const_points_gt, and both provers.              *)
(*                                                                         *)
(* Points are exponents (PairingRing).  A circuit is its three matrices    *)
(* after inlining; column 0 is the constant one, columns 1 .. inputs - 1   *)
(* are public.  Vectors over rows, columns and the evaluation domain start *)
(* at 0, as in the code.  OneSidedPpe takes for granted that the C of a    *)
(* lean proof solves the baked equation: here it is computed.              *)
(***************************************************************************)
EXTENDS EvaluationDomain, Positional, Sequences

CONSTANTS
    Circuits,       \* [inputs, cols, rows, a, b, c, assignments]
    CosetGenerator, \* F::GENERATOR
    Taus,           \* where the polynomials are evaluated
    Trapdoors,      \* [alpha, beta, gamma, delta]
    CustomSamples,  \* lists of statements a caller may sample instead of 0, e_1, ..
    Randomizers,    \* values of r and s
    None

Cols(c) == 0 .. c.cols - 1
Public(c) == 1 .. c.inputs - 1
Private(c) == c.inputs .. c.cols - 1
Rows(c) == 0 .. c.rows - 1

EvaluateConstraint(row, z) == Total([j \in DOMAIN row |-> row[j] \otimes z[j]])
Satisfied(c, z) ==
    \A k \in Rows(c) : EvaluateConstraint(c.a[k], z) \otimes EvaluateConstraint(c.b[k], z)
                         = EvaluateConstraint(c.c[k], z)

\* The transforms of compute_witness_bases are radix 2.
ASSUME SizesAssumption == \A n \in DomainSizes : \E l \in 0 .. n : n = TwoTo(l)
ASSUME CosetAssumption ==
    CosetGenerator \in NonZero /\ \A n \in DomainSizes : Power(CosetGenerator, n) # One
ASSUME CircuitsAssumption ==
    \A c \in Circuits :
       /\ \A z \in c.assignments : z \in [Cols(c) -> Scalars] /\ z[0] = One /\ Satisfied(c, z)
       /\ \E n \in DomainSizes : c.rows + c.inputs <= n
       /\ c.rows \in Nat /\ c.cols \in Nat /\ c.inputs \in 1 .. c.cols
       /\ {c.a, c.b, c.c} \subseteq [Rows(c) -> [Cols(c) -> Scalars]]
ASSUME InputsAssumption ==
    /\ Randomizers \cup Taus \subseteq Scalars
    /\ \A w \in Trapdoors : {w.alpha, w.beta} \subseteq Scalars /\ {w.gamma, w.delta} \subseteq NonZero
    /\ CustomSamples \subseteq Seq(Seq(Scalars))

--------------------------------------------------------------------------------
(***************************************************************************)
(* The QAP of a circuit.                                                   *)
(***************************************************************************)
DomainSize(c) == CHOOSE n \in DomainSizes :
                    /\ c.rows + c.inputs <= n
                    /\ \A m \in DomainSizes : c.rows + c.inputs <= m => n <= m
\* The polynomial of column j of matrix m at t.  Public inputs get no rows of their own.
InstanceMap(c, m, j, t) ==
    Total([k \in Rows(c) |-> Lagrange(DomainSize(c), k, t) \otimes m[k][j]])

Statement(c, z) == [i \in Public(c) |-> z[i]]

\* witness_map_from_matrices: the coefficients of (A B - C) / Z, by way of a coset.
OnDomain(c, m, z) == [k \in Rows(c) |-> EvaluateConstraint(m[k], z)]
\* ifft, then fft over the coset: the value at the coset's k-th point of the polynomial
\* that is v on the rows and zero on the rest of the domain.
OnCoset(c, v, k) ==
    LET n == DomainSize(c)
    IN  Total([r \in Rows(c) |->
                  v[r] \otimes Lagrange(n, r, CosetGenerator \otimes Element(n, k))])
QuotientOnCoset(c, z, k) ==
    ((OnCoset(c, OnDomain(c, c.a, z), k) \otimes OnCoset(c, OnDomain(c, c.b, z), k))
        \ominus OnCoset(c, OnDomain(c, c.c, z), k))
      \otimes Reciprocal(Vanishing(DomainSize(c), CosetGenerator))
\* Mutant: the coset IFFT forgets to unscale.
BugWitnessMap(c, z) ==
    LET n == DomainSize(c)
    IN  [i \in Domain(n) |->
           Coefficient(n, [k \in Domain(n) |-> QuotientOnCoset(c, z, k)], i)]
WitnessMap(c, z) ==
    LET n == DomainSize(c)
    IN  [i \in Domain(n) |->
           Coefficient(n, [k \in Domain(n) |-> QuotientOnCoset(c, z, k)], i)
              \otimes Reciprocal(Power(CosetGenerator, i))]

--------------------------------------------------------------------------------
(***************************************************************************)
(* Key generation, quotient bases, audit.                                  *)
(***************************************************************************)
ProvingKey(c, t, w) ==
    LET n == DomainSize(c)
        a == [j \in Cols(c) |-> InstanceMap(c, c.a, j, t)]
        b == [j \in Cols(c) |-> InstanceMap(c, c.b, j, t)]
        lin == [j \in Cols(c) |-> (w.beta \otimes a[j]) \oplus (w.alpha \otimes b[j])
                                     \oplus InstanceMap(c, c.c, j, t)]
        zt == Vanishing(n, t)
    IN  [alpha |-> w.alpha, beta |-> w.beta, gamma |-> w.gamma, delta |-> w.delta,
         ic |-> [j \in 0 .. c.inputs - 1 |-> lin[j] \otimes Reciprocal(w.gamma)],
         l |-> [j \in Private(c) |-> lin[j] \otimes Reciprocal(w.delta)],
         a |-> a, b |-> b,
         h |-> [i \in 0 .. n - 2 |-> zt \otimes Reciprocal(w.delta) \otimes Power(t, i)]]

\* parallel_fft: bit reversal, then butterflies of width 1, 2, 4 ..
LogSize(n) == CHOOSE l \in 0 .. n : n = TwoTo(l)
\* The last l bits of a number, in reverse.
Reversed(l) ==
    LET r[s \in 0 .. l] ==
            IF s = 0 THEN [k \in {0} |-> 0]
            ELSE [k \in 0 .. TwoTo(s) - 1 |-> (k % 2) * TwoTo(s - 1) + r[s - 1][k \div 2]]
    IN  r[l]
Butterflies(n, v, m) ==
    [k \in Domain(n) |->
        LET w == Element(n, (n \div (2 * m)) * (k % m))
        IN  IF k % (2 * m) < m THEN v[k] \oplus (v[k + m] \otimes w)
                               ELSE v[k - m] \ominus (v[k] \otimes w)]
Fft(n, v) == LET pass[s \in 0 .. LogSize(n)] ==
                    IF s = 0 THEN [k \in Domain(n) |-> v[Reversed(LogSize(n))[k]]]
                             ELSE Butterflies(n, pass[s - 1], TwoTo(s - 1))
             IN  pass[LogSize(n)]
ReverseTail(n, v) == [k \in Domain(n) |-> v[(n - k) % n]]
Ifft(n, v) == [k \in Domain(n) |-> Reciprocal(OfNat(n)) \otimes ReverseTail(n, Fft(n, v))[k]]

\* pk.h_query has one entry less than the domain: the last one is the identity.
LagrangeSrs(c, key) ==
    LET n == DomainSize(c)
    IN  Ifft(n, [k \in Domain(n) |-> IF k \in DOMAIN key.h THEN key.h[k] ELSE Zero])

\* u[0] = (n - 1) / 2n and u[j] = 1 / n (1 - omega^j).
Kernel(n) == [j \in Domain(n) |->
                 IF j = 0 THEN OfNat(n - 1) \otimes Reciprocal(OfNat(2 * n))
                 ELSE Reciprocal(OfNat(n) \otimes (One \ominus Element(n, j)))]
\* Mutant: the kernel is not reversed.
BugDiagonalVector(n, lag) ==
    LET u == Fft(n, Kernel(n))
        s == Fft(n, lag)
    IN  Ifft(n, [k \in Domain(n) |-> s[k] \otimes u[k]])
DiagonalVector(n, lag) ==
    LET u == Fft(n, ReverseTail(n, Kernel(n)))
        s == Fft(n, lag)
    IN  Ifft(n, [k \in Domain(n) |-> s[k] \otimes u[k]])

\* Columns of B that are alone, as private columns, on a row with a public input in C.
OmittedColumns(c) ==
    {j \in Private(c) : \E k \in Rows(c) :
        /\ \E i \in Public(c) : c.c[k][i] # Zero
        /\ {i \in Private(c) : c.b[k][i] # Zero} = {j}}

Support(c, m, j) == {k \in Rows(c) : m[k][j] # Zero}
ActivePairs(c) ==
    {p \in Cols(c) \X Cols(c) :
        /\ Support(c, c.a, p[1]) # {} /\ Support(c, c.b, p[2]) # {}
        /\ ~ (p[1] < c.inputs /\ p[2] < c.inputs)
        /\ ~ (p[1] = 0 /\ p[2] \in OmittedColumns(c))}

\* H_ij: rows k of A and m of B meet in q[k] when they are the same row, and in
\* (omega^m L_k - omega^k L_m) / n (omega^k - omega^m) when they are not.
InverseDifference(n, k, m) ==
    Minus(Element(n, n - m) \otimes Kernel(n)[(k + n - m) % n])
RowPair(c, lag, diag, k, m) ==
    LET n == DomainSize(c)
    IN  IF k = m THEN diag[k]
        ELSE InverseDifference(n, k, m)
                \otimes ((Element(n, m) \otimes lag[k]) \ominus (Element(n, k) \otimes lag[m]))
Base(c, lag, diag, p) ==
    Total([r \in Support(c, c.a, p[1]) \X Support(c, c.b, p[2]) |->
              c.a[r[1]][p[1]] \otimes c.b[r[2]][p[2]] \otimes RowPair(c, lag, diag, r[1], r[2])])
WitnessBases(c, lag, diag) ==
    [p \in {q \in ActivePairs(c) : Base(c, lag, diag, q) # Zero} |-> Base(c, lag, diag, p)]

\* Mutant: only pairs with a public column on the A side are refused.
BugAuditPasses(c, key, base) ==
    /\ \A i \in Public(c) : key.a[i] = Zero
    /\ \A p \in DOMAIN base : /\ p[1] \notin Public(c)
                              /\ p # <<0, 0>>
                              /\ base[p] # Zero
\* The asserts on the bases and on a_query before publication.
AuditPasses(c, key, base) ==
    /\ \A i \in Public(c) : key.a[i] = Zero
    /\ \A p \in DOMAIN base : /\ ~ (p[1] = 0 /\ p[2] \in OmittedColumns(c))
                              /\ p[1] \notin Public(c) /\ p[2] \notin Public(c)
                              /\ p # <<0, 0>>
                              /\ base[p] # Zero

--------------------------------------------------------------------------------
(***************************************************************************)
(* The two provers.                                                        *)
(***************************************************************************)
Linear(points, z) == Total([j \in DOMAIN points |-> points[j] \otimes z[j]])

ProofA(key, z, r) == key.alpha \oplus Linear(key.a, z) \oplus (key.delta \otimes r)
ProofB(key, z, s) == key.beta \oplus Linear(key.b, z) \oplus (key.delta \otimes s)

Proof(key, z, r, s, quotient) ==
    LET a == ProofA(key, z, r)
        b == ProofB(key, z, s)
    IN  [a |-> a, b |-> b,
         c |-> Linear(key.l, z) \oplus quotient \oplus (a \otimes s) \oplus (b \otimes r)
                  \oplus Minus(key.delta \otimes r \otimes s)]

\* create_proof_with_assignment: h is cut to the length of h_query.
StandardProof(key, h, z, r, s) == Proof(key, z, r, s, Linear(key.h, h))

\* prove_lean_with_randomizers
LeanProof(key, base, z, r, s) ==
    Proof(key, z, r, s,
          Total([p \in DOMAIN base |-> base[p] \otimes z[p[1]] \otimes z[p[2]]]))

--------------------------------------------------------------------------------
(***************************************************************************)
(* Q_0 .. Q_n from the samples.                                            *)
(***************************************************************************)
CanonicalSamples(c) ==
    [s \in 1 .. c.inputs |-> [i \in Public(c) |-> IF i = s - 1 THEN One ELSE Zero]]

SampleLists(c) ==
    {CanonicalSamples(c)}
      \cup {l \in CustomSamples : Len(l) = c.inputs /\ \A s \in 1 .. Len(l) : Len(l[s]) = c.inputs - 1}

\* invert_matrix: the identity to the right of the rows (1, x_s), then Gauss-Jordan.
Augmented(n, xs) ==
    [r \in 1 .. n |-> [j \in 1 .. 2 * n |->
        IF j > n THEN IF j - n = r THEN One ELSE Zero
        ELSE IF j = 1 THEN One ELSE xs[r][j - 1]]]
\* Mutant: no search below the diagonal.
BugPivotRows(n, m, col) == {r \in {col} : m[r][col] # Zero}
PivotRows(n, m, col) == {r \in col .. n : m[r][col] # Zero}
PivotRow(n, m, col) ==
    CHOOSE r \in PivotRows(n, m, col) : \A q \in PivotRows(n, m, col) : r <= q
Swapped(m, p, q) == [m EXCEPT ![p] = m[q], ![q] = m[p]]
Cleared(n, m, col) ==
    LET pivot == [j \in 1 .. 2 * n |-> m[col][j] \otimes Reciprocal(m[col][col])]
    IN  [r \in 1 .. n |->
           IF r = col THEN pivot
           ELSE [j \in 1 .. 2 * n |-> m[r][j] \ominus (pivot[j] \otimes m[r][col])]]
\* << >> once a column has no pivot: the code panics.
InvertMatrix(n, xs) ==
    LET step[col \in 0 .. n] ==
            IF col = 0 THEN Augmented(n, xs)
            ELSE LET m == step[col - 1]
                 IN  IF m = << >> \/ PivotRows(n, m, col) = {} THEN << >>
                     ELSE Cleared(n, Swapped(m, col, PivotRow(n, m, col)), col)
    IN  step[n]

\* Mutant: only the first sample is looked at.
BugIsCanonical(c, xs) == xs[1] = CanonicalSamples(c)[1]

\* The fast path is for the canonical samples in their order only.
IsCanonical(c, xs) == xs = CanonicalSamples(c)

\* Q as a function on 0 .. n; << >> for a panic.
SolveQ(c, gs) ==
    LET n == c.inputs
        xs == [s \in 1 .. n |-> gs[s].x]
        inv == InvertMatrix(n, xs)
    IN  IF IsCanonical(c, xs)
        THEN [i \in 0 .. n - 1 |-> IF i = 0 THEN gs[1].gap
                                           ELSE gs[i + 1].gap \ominus gs[1].gap]
        ELSE IF inv = << >> THEN << >>
        ELSE [i \in 0 .. n - 1 |-> Total([s \in 1 .. n |-> inv[i + 1][n + s] \otimes gs[s].gap])]

--------------------------------------------------------------------------------
VARIABLES
    phase,      \* how far the setup has come
    circuit,
    tau,        \* the discarded evaluation point, kept to state what the key is
    pk,         \* outer proving key
    srs,        \* lagrange_srs
    diagonal,   \* q_vector
    bases,      \* h_query_wit
    samples,    \* statements to sample
    synthesized,\* the assignment of the circuit being proved, and its quotient h
    gaps,       \* statements sampled, with their gaps
    tconst,     \* Q_0 .. Q_n; their pairings with delta are t_const_points_gt
    proof       \* a proof made with the finished keys

vars == <<phase, circuit, tau, pk, srs, diagonal, bases, samples, synthesized, gaps, tconst, proof>>

Init ==
    /\ phase = "start"
    /\ circuit \in Circuits
    /\ samples \in SampleLists(circuit)
    /\ tau = None /\ pk = None /\ srs = None /\ diagonal = None /\ bases = None
    /\ synthesized = None /\ gaps = << >> /\ tconst = None /\ proof = None

\* generate_parameters_with_qap
Generate(t, w) ==
    /\ phase = "start"
    /\ Vanishing(DomainSize(circuit), t) # Zero
    /\ tau' = t
    /\ pk' = ProvingKey(circuit, t, w)
    /\ phase' = "generated"
    /\ UNCHANGED <<circuit, srs, diagonal, bases, samples, synthesized, gaps, tconst, proof>>

\* compute_witness_bases, in its three steps: group IFFT,
ConvertSrs ==
    /\ phase = "generated"
    /\ srs' = LagrangeSrs(circuit, pk)
    /\ phase' = "lagrange"
    /\ UNCHANGED <<circuit, tau, pk, diagonal, bases, samples, synthesized, gaps, tconst, proof>>

\* convolution with the kernel,
CorrectDiagonal ==
    /\ phase = "lagrange"
    /\ diagonal' = DiagonalVector(DomainSize(circuit), srs)
    /\ phase' = "diagonal"
    /\ UNCHANGED <<circuit, tau, pk, srs, bases, samples, synthesized, gaps, tconst, proof>>

\* one MSM per active pair.
ComputeWitnessBases ==
    /\ phase = "diagonal"
    /\ bases' = WitnessBases(circuit, srs, diagonal)
    /\ phase' = "bases"
    /\ UNCHANGED <<circuit, tau, pk, srs, diagonal, samples, synthesized, gaps, tconst, proof>>

\* The buffers of compute_witness_bases are dropped.
Audit ==
    /\ phase = "bases"
    /\ phase' = IF AuditPasses(circuit, pk, bases) THEN "sampling" ELSE "panicked"
    /\ srs' = None /\ diagonal' = None
    /\ UNCHANGED <<circuit, tau, pk, bases, samples, synthesized, gaps, tconst, proof>>

\* generate_constraints, and the witness map of the standard prover.
Synthesize(z) ==
    /\ synthesized = None
    /\ \/ phase = "sampling" /\ Len(gaps) < Len(samples)
          /\ Statement(circuit, z) = samples[Len(gaps) + 1]
       \/ phase = "ready" /\ proof = None
    /\ synthesized' = [z |-> z, h |-> WitnessMap(circuit, z)]
    /\ UNCHANGED <<phase, circuit, tau, pk, srs, diagonal, bases, samples, gaps, tconst, proof>>

\* One turn of the loop in compute_q_const_points_from_gap, with no randomizers.
Sample ==
    /\ phase = "sampling" /\ synthesized # None
    /\ LET z == synthesized.z
           std == StandardProof(pk, synthesized.h, z, Zero, Zero)
           lean == LeanProof(pk, bases, z, Zero, Zero)
           agree == std.a = lean.a /\ std.b = lean.b
       IN  /\ phase' = IF agree THEN phase ELSE "panicked"
           /\ gaps' = IF agree THEN Append(gaps, [x |-> Statement(circuit, z),
                                                  gap |-> std.c \ominus lean.c])
                      ELSE gaps
    /\ synthesized' = None
    /\ UNCHANGED <<circuit, tau, pk, srs, diagonal, bases, samples, tconst, proof>>

Solve ==
    /\ phase = "sampling" /\ Len(gaps) = Len(samples)
    /\ LET q == SolveQ(circuit, gaps)
       IN  IF q = << >> THEN phase' = "panicked" /\ UNCHANGED tconst
                        ELSE phase' = "ready" /\ tconst' = q
    /\ gaps' = << >>
    /\ UNCHANGED <<circuit, tau, pk, srs, diagonal, bases, samples, synthesized, proof>>

\* Proofs do not depend on one another: one per behaviour is the bound.
ProveStandard(r, s) ==
    /\ phase = "ready" /\ synthesized # None
    /\ proof' = [kind |-> "standard", x |-> Statement(circuit, synthesized.z),
                 elems |-> StandardProof(pk, synthesized.h, synthesized.z, r, s)]
    /\ synthesized' = None
    /\ UNCHANGED <<phase, circuit, tau, pk, srs, diagonal, bases, samples, gaps, tconst>>

ProveLean(r, s) ==
    /\ phase = "ready" /\ synthesized # None
    /\ proof' = [kind |-> "lean", x |-> Statement(circuit, synthesized.z),
                 elems |-> LeanProof(pk, bases, synthesized.z, r, s)]
    /\ synthesized' = None
    /\ UNCHANGED <<phase, circuit, tau, pk, srs, diagonal, bases, samples, gaps, tconst>>

Next ==
    \/ \E t \in Taus, w \in Trapdoors : Generate(t, w)
    \/ ConvertSrs \/ CorrectDiagonal \/ ComputeWitnessBases \/ Audit
    \/ \E z \in circuit.assignments : Synthesize(z)
    \/ Sample \/ Solve
    \/ \E r, s \in Randomizers : ProveStandard(r, s) \/ ProveLean(r, s)

Spec == Init /\ [][Next]_vars

--------------------------------------------------------------------------------
(***************************************************************************)
(* Properties.                                                             *)
(***************************************************************************)
Vectors(S) == [S -> Scalars]

\* Every value has its shape, and no published base belongs to a public column,
\* to the pair of constants, or to an omitted pair (build_pvugc_setup_from_pk_for).
TypeOK ==
    /\ phase \in {"start", "generated", "lagrange", "diagonal", "bases", "sampling",
                  "ready", "panicked"}
    /\ circuit \in Circuits /\ samples \in SampleLists(circuit)
    /\ phase \in {"lagrange", "diagonal", "bases"} =>
          srs \in Vectors(Domain(DomainSize(circuit)))
    /\ phase \in {"diagonal", "bases"} =>
          diagonal \in Vectors(Domain(DomainSize(circuit)))
    /\ phase \in {"sampling", "ready"} =>
          \A p \in DOMAIN bases :
             /\ bases[p] \in NonZero
             /\ p[1] \in {0} \cup Private(circuit) /\ p[2] \in {0} \cup Private(circuit)
             /\ p[1] = 0 => p[2] \in Private(circuit) \ OmittedColumns(circuit)
    /\ Len(gaps) <= Len(samples)
    /\ phase = "ready" => tconst \in Vectors(0 .. circuit.inputs - 1)

\* A_i B_j minus the polynomial of least degree that agrees with it on the domain, at
\* tau and over delta.
QuotientBase(i, j) ==
    LET n == DomainSize(circuit)
    IN  ((pk.a[i] \otimes pk.b[j])
            \ominus Total([k \in Rows(circuit) |->
                          Lagrange(n, k, tau) \otimes circuit.a[k][i] \otimes circuit.b[k][j]]))
           \otimes Reciprocal(pk.delta)

\* The group IFFT of an h_query that is one power short, the convolution for the diagonal
\* and the partial fractions off it give the quotient of every active pair, and a pair is
\* missing from h_query_wit only when its quotient is the identity.
BasesRight ==
    phase = "bases" =>
       \A p \in ActivePairs(circuit) :
          QuotientBase(p[1], p[2]) = IF p \in DOMAIN bases THEN bases[p] ELSE Zero

\* Public inputs only in C, as in the outer circuit.
PublicOnlyInC(c) == \A i \in Public(c) : Support(c, c.a, i) = {} /\ Support(c, c.b, i) = {}

\* Some affine function other than zero vanishes on all of them.
Dependent(xs) ==
    \E f \in [0 .. Len(xs) - 1 -> Scalars] :
       /\ \E i \in DOMAIN f : f[i] # Zero
       /\ \A s \in 1 .. Len(xs) :
             f[0] \oplus Total([i \in 1 .. Len(xs) - 1 |-> f[i] \otimes xs[s][i]]) = Zero

\* The asserts of the setup stop it only for a circuit with a public input in A or B, or
\* for sample statements that do not determine an affine function.
PanicJustified == phase = "panicked" => ~ PublicOnlyInC(circuit) \/ Dependent(samples)

Equation(extra) ==
    proof.elems.a \otimes proof.elems.b
       = (pk.alpha \otimes pk.beta)
           \oplus ((pk.ic[0] \oplus Total([i \in Public(circuit) |-> pk.ic[i] \otimes proof.x[i]]))
                       \otimes pk.gamma)
           \oplus (proof.elems.c \otimes pk.delta) \oplus extra

\* A proof of the standard prover satisfies the Groth16 equation of the generated key,
\* for every satisfying assignment, although public inputs have no copy constraints.
StandardVerifies ==
    proof # None => (proof.kind = "standard" => Equation(Zero))

\* A column is left out of the bases only if its row is 1 * x_wit = x_pub.
Unit(c, j) == [i \in Cols(c) |-> IF i = j THEN One ELSE Zero]
Bound(c) ==
    \A j \in OmittedColumns(c) : \E k \in Rows(c), i \in Public(c) :
       c.a[k] = Unit(c, 0) /\ c.b[k] = Unit(c, j) /\ c.c[k] = Unit(c, i)

\* tau is random: a column of A that vanishes there is not in any constraint.
NoAccident(c, key) == \A i \in Public(c) : key.a[i] = Zero => Support(c, c.a, i) = {}

\* When the omitted columns are bound to public inputs, the gap over n + 1 samples
\* determines T_const for every statement, whatever witnesses the samples had: a lean
\* proof of any satisfying assignment, with any r and s, satisfies the baked equation.
LeanVerifies ==
    proof # None =>
       (proof.kind = "lean" /\ Bound(circuit) /\ NoAccident(circuit, pk) =>
          Equation((tconst[0] \oplus Total([i \in Public(circuit) |-> tconst[i] \otimes proof.x[i]]))
                      \otimes pk.delta))

================================================================================
