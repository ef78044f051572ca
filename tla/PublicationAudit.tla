---------------------------- MODULE PublicationAudit ----------------------------
(***************************************************************************)
(* audit_circuit: may the keys of this circuit be published?  The tool     *)
(* extracts the columns of A, B and C, tests their structure, eliminates   *)
(* public columns against witness columns to see whether their spans meet, *)
(* and asks at sample points whether the decapsulation target lies in the  *)
(* span of the handles an adversary is modelled to have.                   *)
(*                                                                         *)
(* Rows and columns start at 0; column 0 is the constant one, columns      *)
(* 1 .. inputs - 1 are public.  to_matrices merges the terms of a row, so  *)
(* a column has one coefficient per row, zero where it has no entry, and   *)
(* the sparse maps of the code are these vectors.                          *)
(***************************************************************************)
EXTENDS EvaluationDomain, FiniteSets, Sequences

CONSTANTS
    Circuits,       \* [inputs, cols, rows, a, b, c, instance]
    Points,         \* sample points of the independence check
    NumChecks,      \* how many of them it takes (4 in the code)
    None

ASSUME CircuitsAssumption ==
    \A c \in Circuits :
       /\ {c.a, c.b, c.c} \subseteq [0 .. c.rows - 1 -> [0 .. c.cols - 1 -> Scalars]]
       /\ c.rows \in Nat /\ c.cols \in Nat /\ c.inputs \in 1 .. c.cols
       /\ c.instance \in [0 .. c.inputs - 1 -> Scalars] /\ c.instance[0] = One
       /\ \E n \in DomainSizes : c.rows + c.inputs <= n
ASSUME PointsAssumption ==
    Points \subseteq Scalars /\ None \notin Points /\ NumChecks \in Nat \ {0}

Rows(c) == 0 .. c.rows - 1
Instance(c) == 0 .. c.inputs - 1
Public(c) == 1 .. c.inputs - 1
Witness(c) == c.inputs .. c.cols - 1
DomainSize(c) == CHOOSE n \in DomainSizes :
                    /\ c.rows + c.inputs <= n
                    /\ \A m \in DomainSizes : c.rows + c.inputs <= m => n <= m

\* MatrixExtractor::new
Column(m, j) == [k \in DOMAIN m |-> m[k][j]]
Support(v) == {k \in DOMAIN v : v[k] # Zero}
SupportOf(m, columns) == UNION {Support(Column(m, j)) : j \in columns}

--------------------------------------------------------------------------------
(***************************************************************************)
(* Tests on the structure of the matrices.                                 *)
(***************************************************************************)
\* Mutant: witness columns may share the rows of public ones in C.
BugPublicOnlyInC(c) ==
    /\ SupportOf(c.a, Public(c)) = {} /\ SupportOf(c.b, Public(c)) = {}
    /\ \A i \in Public(c) : Support(Column(c.c, i)) # {}
\* verify_public_only_in_c_and_w_span_separated: printed, but not part of the result.
PublicOnlyInC(c) ==
    /\ SupportOf(c.a, Public(c)) = {} /\ SupportOf(c.b, Public(c)) = {}
    /\ \A i \in Public(c) : Support(Column(c.c, i)) # {}
    /\ SupportOf(c.c, Public(c)) \cap SupportOf(c.c, Witness(c)) = {}

NoPublicOverlap(c) ==
    \A i \in Public(c) : Support(Column(c.a, i)) \cap Support(Column(c.b, i)) = {}

\* A product of two polynomials is zero only if one of them is.
IsLinear(c) == SupportOf(c.a, Public(c)) = {} \/ SupportOf(c.b, Public(c)) = {}

\* Mutant: public columns in A next to witness columns in B are let pass.
BugIsUnmixed(c) == SupportOf(c.b, Public(c)) \cap SupportOf(c.a, Witness(c)) = {}
IsUnmixed(c) ==
    /\ SupportOf(c.b, Public(c)) \cap SupportOf(c.a, Witness(c)) = {}
    /\ SupportOf(c.a, Public(c)) \cap SupportOf(c.b, Witness(c)) = {}

--------------------------------------------------------------------------------
(***************************************************************************)
(* Bases: from a pivot to a vector that is zero below it and one at it.    *)
(***************************************************************************)
Least(s) == CHOOSE p \in s : \A q \in s : p <= q
NoVectors == [p \in {} |-> Zero]
Eliminate(u, t, w) == [k \in DOMAIN u |-> u[k] \ominus (t \otimes w[k])]

\* Pivots in ascending order: after[p] is v reduced by the pivots below p.
Reduce(basis, v) ==
    LET after[p \in 0 .. Cardinality(DOMAIN v) + 1] ==
            IF p = 0 THEN v
            ELSE LET u == after[p - 1]
                 IN  IF p - 1 \in DOMAIN basis
                     THEN Eliminate(u, u[p - 1], basis[p - 1]) ELSE u
    IN  after[Cardinality(DOMAIN v) + 1]

Normalized(v) == LET inv == Reciprocal(v[Least(Support(v))])
                 IN  [k \in DOMAIN v |-> v[k] \otimes inv]

\* RowBasis::insert: the new pivot is eliminated from the vectors already there.
RowInsert(basis, v) ==
    LET u == Reduce(basis, v)
        n == Normalized(u)
        new == Least(Support(u))
    IN  IF Support(u) = {} THEN basis
        ELSE [p \in DOMAIN basis \cup {new} |->
                 IF p = new THEN n ELSE Eliminate(basis[p], basis[p][new], n)]

\* Basis::insert
Insert(basis, v) ==
    LET u == Reduce(basis, v)
    IN  IF Support(u) = {} THEN basis
        ELSE [p \in DOMAIN basis \cup {Least(Support(u))} |->
                 IF p \in DOMAIN basis THEN basis[p] ELSE Normalized(u)]

--------------------------------------------------------------------------------
(***************************************************************************)
(* The handles, as vectors over monomials in alpha, beta, delta, rho.      *)
(***************************************************************************)
Monomials ==
    <<"AlphaBetaDelta", "BetaDeltaUPub", "BetaDeltaUWit", "AlphaDeltaVPub", "AlphaDeltaVWit",
      "DeltaWPub", "DeltaWWit", "BetaSqU", "BetaU", "AlphaBetaV", "AlphaV", "BetaW", "W",
      "BetaUV", "AlphaVV", "WV", "DeltaUV", "DeltaPureUV", "AlphaDeltaSq", "BetaV", "PureVV",
      "DeltaSqUWit", "DeltaSqVPub", "DeltaSqVWit">>

ToVector(terms) ==
    [i \in DOMAIN Monomials |->
        IF Monomials[i] \in DOMAIN terms THEN terms[Monomials[i]] ELSE Zero]

\* get_column_polys and evaluate: coefficients by ifft, then their value at r.
PolynomialAt(c, m, j, r) ==
    LET n == DomainSize(c)
        v == [k \in Domain(n) |-> IF k \in Rows(c) THEN m[k][j] ELSE Zero]
    IN  Total([i \in Domain(n) |-> Coefficient(n, v, i) \otimes Power(r, i)])

\* Mutant: no special case for points of the domain (inverse() of zero taken for zero).
BugEvaluateColumn(c, m, j, r) ==
    LET n == DomainSize(c)
    IN  Total([k \in Rows(c) |->
                  IF r = Element(n, k) THEN Zero ELSE m[k][j] \otimes Lagrange(n, k, r)])
\* evaluate_column: barycentric, and by its entry where r is a point of the domain.
EvaluateColumn(c, m, j, r) ==
    LET n == DomainSize(c)
        hit == {k \in Support(Column(m, j)) : r = Element(n, k)}
    IN  IF hit # {} THEN Total([k \in hit |-> m[k][j]])
        ELSE Total([k \in Support(Column(m, j)) |-> m[k][j] \otimes Lagrange(n, k, r)])

\* The instance's own combination of the public columns, the constant one included.
PublicAt(c, m, r) ==
    Total([i \in Instance(c) |-> PolynomialAt(c, m, i, r) \otimes c.instance[i]])

Target(c, r) ==
    ToVector([AlphaBetaDelta |-> One, BetaDeltaUPub |-> PublicAt(c, c.a, r),
              AlphaDeltaVPub |-> PublicAt(c, c.b, r), DeltaWPub |-> PublicAt(c, c.c, r)])

\* Handles 7: the raw B queries of every column.
RawHandles(c, k, v) ==
    <<IF k \in Witness(c) THEN [DeltaSqVWit |-> v] ELSE [DeltaSqVPub |-> v],
      [BetaV |-> v], [PureVV |-> v]>>
\* Handles 1 to 6: A queries and L queries against D_pub, D_delta and D_j.
WitnessHandles(u, v, w, vpubr) ==
    <<[BetaDeltaUWit |-> u, DeltaUV |-> u \otimes vpubr],
      [DeltaSqUWit |-> u], [DeltaPureUV |-> u],
      [BetaSqU |-> u, BetaU |-> u \otimes vpubr, AlphaBetaV |-> v,
       AlphaV |-> v \otimes vpubr, BetaW |-> w, W |-> w \otimes vpubr],
      [BetaDeltaUWit |-> u, AlphaDeltaVWit |-> v, DeltaWWit |-> w],
      [BetaUV |-> u, AlphaVV |-> v, WV |-> w]>>
\* Mutant: alpha's handle is not bundled with D_pub.
BugAlphaHandles(vpubr) ==
    <<[AlphaBetaDelta |-> One], [AlphaDeltaVWit |-> One], [AlphaDeltaSq |-> One]>>
\* Handles 8 to 10: alpha against the bundled D_pub, the witness columns and delta.
AlphaHandles(vpubr) ==
    <<[AlphaBetaDelta |-> One, AlphaDeltaVPub |-> vpubr],
      [AlphaDeltaVWit |-> One], [AlphaDeltaSq |-> One]>>

InsertAll(basis, handles) ==
    LET after[i \in 0 .. Len(handles)] ==
            IF i = 0 THEN basis ELSE Insert(after[i - 1], ToVector(handles[i]))
    IN  after[Len(handles)]

--------------------------------------------------------------------------------
VARIABLES
    circuit,        \* the audit subject, after synthesis
    pc,             \* "span", "independence" or "done"
    matrix,         \* the matrix under test: "b", "a", then "c"
    col,            \* the next column
    witBasis, pubBasis, imgBasis,   \* of witness, public and reduced public columns
    met,            \* a public column reduced to zero
    separated,      \* the span verdicts so far, by matrix
    checks,         \* independence checks done
    point,          \* where the current one evaluates, None between checks
    target, vpub, basis,            \* of the current check
    safe            \* all_safe

vars == <<circuit, pc, matrix, col, witBasis, pubBasis, imgBasis, met, separated,
          checks, point, target, vpub, basis, safe>>

Init ==
    /\ circuit \in Circuits
    /\ pc = "span" /\ matrix = "b" /\ col = circuit.inputs
    /\ witBasis = NoVectors /\ pubBasis = NoVectors /\ imgBasis = NoVectors
    /\ met = FALSE
    /\ separated = [m \in {} |-> TRUE]
    /\ checks = 0 /\ point = None /\ target = None /\ vpub = None /\ basis = NoVectors
    /\ safe = TRUE

--------------------------------------------------------------------------------
(***************************************************************************)
(* check_span_separation_matrix, for B, A and C.                           *)
(***************************************************************************)
Current == circuit[matrix]

\* The exits before any elimination: no rows of public columns, or none that witness
\* columns share (none at all included).
Disjoint == SupportOf(Current, Public(circuit)) \cap SupportOf(Current, Witness(circuit)) = {}

SpanVerdict(verdict) ==
    /\ separated' = [m \in DOMAIN separated \cup {matrix} |->
                         IF m = matrix THEN verdict ELSE separated[m]]
    /\ IF matrix = "c" THEN pc' = "independence" /\ col' = 0 /\ UNCHANGED matrix
                       ELSE /\ matrix' = IF matrix = "b" THEN "a" ELSE "c"
                            /\ col' = circuit.inputs /\ UNCHANGED pc
    /\ witBasis' = NoVectors /\ pubBasis' = NoVectors /\ imgBasis' = NoVectors
    /\ met' = FALSE
    /\ UNCHANGED <<circuit, checks, point, target, vpub, basis, safe>>

TriviallySeparated == pc = "span" /\ Disjoint /\ SpanVerdict(TRUE)

\* Every witness column goes into the basis; columns without entries are skipped.
InsertWitness ==
    /\ pc = "span" /\ ~ Disjoint /\ col \in Witness(circuit)
    /\ witBasis' = RowInsert(witBasis, Column(Current, col))
    /\ col' = IF col + 1 \in Witness(circuit) THEN col + 1 ELSE 1
    /\ UNCHANGED <<circuit, pc, matrix, pubBasis, imgBasis, met, separated, checks, point,
                   target, vpub, basis, safe>>

\* A public column is reduced; one that vanishes is in the witness span.
ReducePublic ==
    /\ pc = "span" /\ ~ Disjoint /\ col \in Public(circuit)
    /\ LET v == Column(Current, col)
           image == Reduce(witBasis, v)
       IN  /\ pubBasis' = RowInsert(pubBasis, v)
           /\ imgBasis' = RowInsert(imgBasis, image)
           /\ met' = (met \/ (Support(v) # {} /\ Support(image) = {}))
    /\ col' = IF col + 1 \in Public(circuit) THEN col + 1 ELSE circuit.cols
    /\ UNCHANGED <<circuit, pc, matrix, witBasis, separated, checks, point, target, vpub,
                   basis, safe>>

\* Mutant: the ranks are not compared.
BugRankKept == TRUE
\* A combination of public columns may vanish although none of them does.
RankKept == Cardinality(DOMAIN imgBasis) >= Cardinality(DOMAIN pubBasis)
CompareRanks ==
    /\ pc = "span" /\ ~ Disjoint /\ col = circuit.cols
    /\ SpanVerdict(~ met /\ RankKept)

--------------------------------------------------------------------------------
(***************************************************************************)
(* check_independence_streaming, once for each sample point.               *)
(***************************************************************************)
StartCheck(r) ==
    /\ pc = "independence" /\ point = None
    /\ point' = r
    /\ target' = Target(circuit, r)
    /\ vpub' = PublicAt(circuit, circuit.b, r)
    /\ basis' = NoVectors
    /\ UNCHANGED <<circuit, pc, matrix, col, witBasis, pubBasis, imgBasis, met, separated,
                   checks, safe>>

AddHandles ==
    /\ pc = "independence" /\ point # None /\ col < circuit.cols
    /\ LET u == EvaluateColumn(circuit, circuit.a, col, point)
           v == EvaluateColumn(circuit, circuit.b, col, point)
           w == EvaluateColumn(circuit, circuit.c, col, point)
       IN  basis' = InsertAll(basis,
               (IF col \in Witness(circuit) THEN WitnessHandles(u, v, w, vpub) ELSE << >>)
                  \o RawHandles(circuit, col, v))
    /\ col' = col + 1
    /\ UNCHANGED <<circuit, pc, matrix, witBasis, pubBasis, imgBasis, met, separated, checks,
                   point, target, vpub, safe>>

\* Mutant: one check more.
BugLastCheck(residue) == Support(residue) = {} \/ checks = NumChecks
\* The first dependency ends the checks.
LastCheck(residue) == Support(residue) = {} \/ checks + 1 = NumChecks

\* Safe unless the target reduces to zero.
FinishCheck ==
    /\ pc = "independence" /\ point # None /\ col = circuit.cols
    /\ LET residue == Reduce(InsertAll(basis, AlphaHandles(vpub)), target)
       IN  /\ safe' = (Support(residue) # {})
           /\ pc' = IF LastCheck(residue) THEN "done" ELSE pc
    /\ checks' = checks + 1
    /\ col' = 0 /\ point' = None /\ target' = None /\ vpub' = None /\ basis' = NoVectors
    /\ UNCHANGED <<circuit, matrix, witBasis, pubBasis, imgBasis, met, separated>>

Next ==
    \/ TriviallySeparated \/ InsertWitness \/ ReducePublic \/ CompareRanks
    \/ \E r \in Points : StartCheck(r)
    \/ AddHandles \/ FinishCheck

Spec == Init /\ [][Next]_vars

\* run_audit: what is printed as RESULT.
FullySafe == IsLinear(circuit) /\ IsUnmixed(circuit) /\ safe /\ NoPublicOverlap(circuit)
Result ==
    IF ~ FullySafe THEN "unsafe"
    ELSE IF \A m \in DOMAIN separated : separated[m] THEN "secure" ELSE "conditionally safe"

--------------------------------------------------------------------------------
Vectors(m) == [DOMAIN circuit[m] -> Scalars]
TypeOK ==
    /\ pc \in {"span", "independence", "done"} /\ matrix \in {"a", "b", "c"}
    /\ col \in 0 .. circuit.cols
    /\ \A b \in {witBasis, pubBasis, imgBasis} :
          DOMAIN b \subseteq Rows(circuit) /\ \A p \in DOMAIN b : b[p] \in Vectors(matrix)
    /\ met \in BOOLEAN /\ safe \in BOOLEAN
    /\ separated \in UNION {[s -> BOOLEAN] : s \in SUBSET {"a", "b", "c"}}
    /\ checks \in 0 .. NumChecks
    /\ point \in Points \cup {None}
    /\ point # None => vpub \in Scalars /\ target \in [DOMAIN Monomials -> Scalars]
    /\ \A p \in DOMAIN basis : basis[p] \in [DOMAIN Monomials -> Scalars]

Combination(m, x) ==
    [k \in DOMAIN m |-> Total([j \in DOMAIN x |-> m[k][j] \otimes x[j]])]
SpanOf(m, columns) == {Combination(m, x) : x \in [columns -> Scalars]}

\* A span verdict is given only when it is right: a matrix passes exactly when no combination
\* of public columns other than zero is one of witness columns.  The elimination has to get
\* there by one pass over the pivots of each basis and a comparison of ranks, and the exits
\* before it must agree with it.
SpanVerdictExact ==
    [][\A m \in DOMAIN separated' \ DOMAIN separated :
          separated'[m] <=>
             SpanOf(circuit[m], Public(circuit)) \cap SpanOf(circuit[m], Witness(circuit))
                = {[k \in Rows(circuit) |-> Zero]}]_vars

\* A check passes exactly when the instance's combination of public columns in A or in C does
\* not vanish at the sample point: of the twenty-four monomials only these two count, witness
\* columns never do, and what B contributes to the target is always cancelled.
IndependenceExact ==
    [][checks' # checks =>
          (safe' <=> \/ PublicAt(circuit, circuit.a, point) # Zero
                     \/ PublicAt(circuit, circuit.c, point) # Zero)]_vars

\* Handles are evaluated by the barycentric formula and the target by coefficients: both give
\* the same value of a column at any sample point, those of the domain included.
EvaluationAgrees ==
    point # None /\ col = 0 =>
        \A m \in {circuit.a, circuit.b, circuit.c}, j \in 0 .. circuit.cols - 1 :
            EvaluateColumn(circuit, m, j, point) = PolynomialAt(circuit, m, j, point)

\* The coefficient of z_i z_j in row k of (A z)(B z).
ProductCoefficient(k, i, j) ==
    IF i = j THEN circuit.a[k][i] \otimes circuit.b[k][i]
    ELSE (circuit.a[k][i] \otimes circuit.b[k][j]) \oplus (circuit.a[k][j] \otimes circuit.b[k][i])

\* Unless the result is "unsafe", no row multiplies a public input by anything but the
\* constant: this is what lets the quotient of a proof be baked as a function of the
\* statement alone.
SafeIsAffine ==
    pc = "done" /\ Result # "unsafe" =>
        \A k \in Rows(circuit), i \in Public(circuit), j \in 1 .. circuit.cols - 1 :
            ProductCoefficient(k, i, j) = Zero

\* The structural test, whose outcome the result ignores, is stronger than all the others
\* but independence: a circuit that passes both is never reported as less than secure.
StructureSuffices ==
    pc = "done" /\ PublicOnlyInC(circuit) /\ safe => Result = "secure"

================================================================================
