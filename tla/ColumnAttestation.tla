--------------------------- MODULE ColumnAttestation ---------------------------
(***************************************************************************)
(* Attesting column arms: an armer opens instances, arms columns, seals a  *)
(* share and publishes PoCE-A attestations; anyone checks what is public,  *)
(* in any combination.                                                     *)
(*                                                                         *)
(* Group elements are their exponents (PairingRing).  The Fiat-Shamir hash *)
(* is an oracle: a transcript gets a challenge when it is first hashed,    *)
(* different transcripts get different challenges, and a transcript nobody *)
(* attested with has none of the published ones.  A ciphertext with its    *)
(* tag tau is the record of key, AD_core and plaintext it was made from,   *)
(* and the VE proof is the statement it was made for.                      *)
(***************************************************************************)
EXTENDS PairingRing, ContextLayers, FiniteSets

CONSTANTS
    Builders,       \* the PvugcContextBuilder values in use
    Columns,        \* statement -> y_cols of its ColumnBases
    Delta,          \* statement -> delta of its ColumnBases
    Exponents,      \* the values rho is drawn from
    Nonces,         \* the values k_rho, k_s and s_i are drawn from
    Shares,         \* the adaptor shares, as exponents on secp256k1
    Challenges,     \* the challenges the oracle gives
    GsDigest,       \* gs_digest
    MaxLives,       \* bound: lives of the armer's process
    MaxOpened,      \* bound: instances opened
    MaxSessions     \* bound: attestations published

Statements == {b.x : b \in Builders}

ASSUME AttestationAssumption ==
    /\ \A x \in Statements :
          Columns[x] \in Seq(Scalars) /\ Columns[x] # <<>> /\ Delta[x] \in NonZero
    /\ Exponents \subseteq NonZero /\ Challenges \subseteq NonZero
    /\ Nonces \subseteq Scalars

\* A builder has its eight fields; its template is a byte string.
ASSUME BuildersAssumption ==
    \A b \in Builders :
        /\ b = [vk |-> b.vk, x |-> b.x, tapleaf |-> b.tapleaf, version |-> b.version,
                template |-> b.template, path |-> b.path, ycols |-> b.ycols,
                nonce |-> b.nonce]
        /\ b.template \in Seq(Nat) /\ b.path \in DOMAIN PathBytes

ASSUME BoundAssumption == MaxLives \in Nat \ {0}
ASSUME NoneAssumption == None \notin {ArmingPkgHash(<<1>>), PresigPkgHash(<<1>>)}

VARIABLES
    registry,   \* EpochNonceRegistry.seen_nonces, in memory
    life,       \* how often the process started
    opened,     \* the instances opened, with the life they were opened in
    draft,      \* None or the arming in progress
    oracle,     \* what was hashed to which challenge
    sessions    \* what was published, in order

vars == <<registry, life, opened, draft, oracle, sessions>>

Init ==
    /\ registry = {} /\ life = 1 /\ opened = {}
    /\ draft = None
    /\ oracle = {} /\ sessions = <<>>

--------------------------------------------------------------------------------
\* What the calls compute.

\* arm_columns, and k * Y_j with k * delta for the commitments.
Raised(x, r) ==
    [y     |-> [j \in DOMAIN Columns[x] |-> Times(Columns[x][j], r)],
     delta |-> Times(Delta[x], r)]

\* The context and the AD_core of one armer: its arms are the arming package,
\* its share's point T is the adaptor point.
CtxOf(b, arms, point) ==
    CtxHash(b, ArmingPkgHash(arms.y \o <<arms.delta>>), PresigPkgHash(<<point>>))

AdOf(b, arms, point) ==
    Serialize([vk |-> b.vk, x |-> b.x, ctx |-> CtxOf(b, arms, point),
               tapleaf |-> IF b.tapleaf = None THEN 0 ELSE b.tapleaf,
               version |-> b.version, template |-> b.template, path |-> b.path,
               share_index |-> 0, t_i |-> <<point>>, t_aggregate |-> <<point>>,
               armed_bases |-> arms.y, armed_delta |-> <<arms.delta>>,
               gs_digest |-> GsDigest])

\* The bytes compute_poce_challenge hashes, without lengths or tags.
Transcript(x, arms, t, com, tcom, ctx, ct) ==
    Columns[x] \o <<Delta[x]>> \o arms.y \o <<arms.delta, t>>
        \o com.y \o <<com.delta, tcom, ctx, GsDigest, ct>>

\* Mutant: the armed delta is not compared.
BugEquations(x, arms, t, poce) ==
    /\ \A j \in DOMAIN poce.com.y :
          Plus(poce.com.y[j], Times(arms.y[j], poce.challenge))
              = Times(Columns[x][j], poce.response)
    /\ Plus(poce.tcom, Times(t, poce.challenge)) = Times(One, poce.t_response)

\* The three checks of verify_poce_column: every column, delta and T.
Equations(x, arms, t, poce) ==
    /\ \A j \in DOMAIN poce.com.y :
          Plus(poce.com.y[j], Times(arms.y[j], poce.challenge))
              = Times(Columns[x][j], poce.response)
    /\ Plus(poce.com.delta, Times(arms.delta, poce.challenge))
           = Times(Delta[x], poce.response)
    /\ Plus(poce.tcom, Times(t, poce.challenge)) = Times(One, poce.t_response)

\* verify_poce_column: lengths, the challenge again, the equations.
PoceHolds(x, arms, t, poce, ctx, ct) ==
    /\ Len(Columns[x]) = Len(arms.y) /\ Len(Columns[x]) = Len(poce.com.y)
    /\ [transcript |-> Transcript(x, arms, t, poce.com, poce.tcom, ctx, ct),
        challenge  |-> poce.challenge] \in oracle
    /\ Equations(x, arms, t, poce)

\* Mutant: the public inputs leave out the digest of AD_core.
BugVeHolds(ve, ad, ct) == ve.t = ExtractT(ad) /\ ve.ct = ct

\* verify_adaptor_ve: the proof is for these public inputs.
VeHolds(ve, ad, ct) == ve.ad = ad /\ ve.t = ExtractT(ad) /\ ve.ct = ct

\* Mutant: the arm of an identity base must be a good G2 element as well.
BugArmsPlausible(x, arms) ==
    (\A j \in DOMAIN Columns[x] : arms.y[j] # Zero) /\ arms.delta # Zero

\* The identity checks: an arm is the identity exactly where its base is.
ArmsPlausible(x, arms) ==
    /\ \A j \in DOMAIN Columns[x] : Columns[x][j] = Zero <=> arms.y[j] = Zero
    /\ arms.delta # Zero

\* verify_column_arming of the pieces a verifier has collected, with the context
\* and the AD_core it builds itself.
Accepts(o) ==
    /\ Len(Columns[o.b.x]) = Len(o.arms.y)
    /\ ArmsPlausible(o.b.x, o.arms)
    /\ PoceHolds(o.b.x, o.arms, o.t, o.poce, CtxOf(o.b, o.arms, o.point), o.ct)
    /\ VeHolds(o.ve, AdOf(o.b, o.arms, o.point), o.ct)

--------------------------------------------------------------------------------
\* Mutant: a registered nonce is not remembered.
BugOpen(b) ==
    /\ Cardinality(opened) < MaxOpened
    /\ b.nonce \notin registry
    /\ opened' = opened \cup {[b |-> b, life |-> life]}
    /\ draft' = [b |-> b, arms |-> None, rho |-> None, sealed |-> None]
    /\ UNCHANGED <<registry, life, oracle, sessions>>

\* EpochNonceRegistry::register and a new builder.  A seen nonce is refused.
Open(b) ==
    /\ Cardinality(opened) < MaxOpened
    /\ b.nonce \notin registry
    /\ registry' = registry \cup {b.nonce}
    /\ opened' = opened \cup {[b |-> b, life |-> life]}
    /\ draft' = [b |-> b, arms |-> None, rho |-> None, sealed |-> None]
    /\ UNCHANGED <<life, oracle, sessions>>

\* The process ends and starts again: registry and draft were in memory.
Restart ==
    /\ life < MaxLives
    /\ life' = life + 1 /\ registry' = {} /\ draft' = None
    /\ UNCHANGED <<opened, oracle, sessions>>

InProgress == draft # None /\ Len(sessions) < MaxSessions

\* arm_columns under a new rho.  What was sealed for other arms stays.
Arm(r) ==
    /\ InProgress
    /\ draft' = [draft EXCEPT !.arms = Raised(draft.b.x, r), !.rho = r]
    /\ UNCHANGED <<registry, life, opened, oracle, sessions>>

\* One column, or delta (place 0), is armed under another exponent than rho.
Mix(j, r) ==
    /\ InProgress /\ draft.arms # None
    /\ draft' = IF j = 0
                THEN [draft EXCEPT !.arms.delta = Raised(draft.b.x, r).delta]
                ELSE [draft EXCEPT !.arms.y[j] = Raised(draft.b.x, r).y[j]]
    /\ UNCHANGED <<registry, life, opened, oracle, sessions>>

\* The share is encrypted under R^rho with the AD_core of now.
Seal(share) ==
    /\ InProgress /\ draft.arms # None
    /\ draft' = [draft EXCEPT !.sealed =
         [point |-> share,
          ct |-> [key |-> draft.rho, share |-> share,
                  ad |-> AdOf(draft.b, draft.arms, share)]]]
    /\ UNCHANGED <<registry, life, opened, oracle, sessions>>

\* Mutant: delta is committed to as one more column.
BugCommitments(x, k) ==
    [y |-> Append(Raised(x, k).y, Raised(x, k).delta), delta |-> Raised(x, k).delta]

Commitments(x, k) == Raised(x, k)

\* prove_adaptor_ve refuses a ciphertext that is not the plaintext under this key
\* and AD_core; its circuit, a plaintext that is not the discrete log of t_i.
CanProveVe(sealed, rho, ad) ==
    /\ sealed.ct.key = rho /\ sealed.ct.ad = ad
    /\ ExtractT(ad) = <<sealed.ct.share>>

\* attest_column_arming, with the AD_core of now, and publication of the result.
\* s is s_i, drawn on the pairing curve and independent of the sealed share.
Attest(s, k_rho, k_s, c) ==
    /\ InProgress /\ draft.sealed # None
    /\ LET x    == draft.b.x
           seal == draft.sealed
           t    == Times(One, s)
           com  == Commitments(x, k_rho)
           tcom == Times(One, k_s)
           ad   == AdOf(draft.b, draft.arms, seal.point)
           hash == [transcript |-> Transcript(x, draft.arms, t, com, tcom,
                                     CtxOf(draft.b, draft.arms, seal.point), seal.ct),
                    challenge  |-> c]
       IN  /\ CanProveVe(seal, draft.rho, ad)
           /\ \A h \in oracle : h.transcript = hash.transcript <=> h.challenge = c
           /\ oracle' = oracle \cup {hash}
           /\ sessions' = Append(sessions,
                [b |-> draft.b, arms |-> draft.arms, point |-> seal.point,
                 t |-> t, ct |-> seal.ct, rho |-> draft.rho,
                 poce |-> [com |-> com, tcom |-> tcom, challenge |-> c,
                           response |-> Plus(k_rho, Times(c, draft.rho)),
                           t_response |-> Plus(k_s, Times(c, s))],
                 ve |-> [ad |-> ad, t |-> ExtractT(ad), ct |-> seal.ct]])
    /\ UNCHANGED <<registry, life, opened, draft>>

Next ==
    \/ \E b \in Builders : Open(b)
    \/ Restart
    \/ \E r \in Exponents :
          \/ Arm(r)
          \/ InProgress /\ \E j \in {0} \cup DOMAIN Columns[draft.b.x] : Mix(j, r)
    \/ \E share \in Shares : Seal(share)
    \/ \E s, k_rho, k_s \in Nonces, c \in Challenges : Attest(s, k_rho, k_s, c)

Spec == Init /\ [][Next]_vars

--------------------------------------------------------------------------------
ArmsOf(x) == [y : [DOMAIN Columns[x] -> Scalars], delta : Scalars]

TypeOK ==
    /\ registry \subseteq {b.nonce : b \in Builders}
    /\ life \in 1 .. MaxLives
    /\ opened \subseteq [b : Builders, life : 1 .. MaxLives]
    /\ draft # None =>
          /\ draft.b \in Builders
          /\ draft.arms # None => draft.arms \in ArmsOf(draft.b.x)
          /\ draft.rho \in Exponents \cup {None}
    /\ \A i \in DOMAIN sessions :
          /\ sessions[i].b \in Builders
          /\ sessions[i].arms \in ArmsOf(sessions[i].b.x)
          /\ sessions[i].poce.com \in ArmsOf(sessions[i].b.x)
          /\ sessions[i].poce.challenge \in Challenges
          /\ sessions[i].poce.response \in Scalars

\* Everything a verifier can put together from what is public.
Collected ==
    LET From(f) == {sessions[i][f] : i \in DOMAIN sessions}
    IN  [b : Builders, arms : From("arms"), point : From("point"), t : From("t"),
         ct : From("ct"), poce : From("poce"), ve : From("ve")]

\* The pieces of one published session.
Pieces(i) ==
    LET n == sessions[i]
    IN  [b |-> n.b, arms |-> n.arms, point |-> n.point, t |-> n.t, ct |-> n.ct,
         poce |-> n.poce, ve |-> n.ve]

\* The promise of PoCE-A: whatever the pieces come from, arms that are accepted
\* all have one exponent, so decapsulation gets a power of R and not a mixture.
SameExponent ==
    \A o \in Collected : Accepts(o) =>
        \E r \in NonZero : o.arms = Raised(o.b.x, r)

\* Accepted pieces were published together and belong to the instance the
\* verifier means.  The context hash alone does not say so: a tapleaf left out
\* and a longer template give the same bytes.  The lengths in AD_core do.
AcceptedAsAttested ==
    \A o \in Collected : Accepts(o) => \E i \in DOMAIN sessions : o = Pieces(i)

\* An attestation is accepted exactly when all its arms were made with the rho it
\* was made with, columns whose base is the identity included.
HonestAccepted ==
    \A i \in DOMAIN sessions :
        Accepts(Pieces(i)) <=> sessions[i].arms = Raised(sessions[i].b.x, sessions[i].rho)

\* Instances opened in one life of the process never share a context hash or a
\* NUMS key, whichever layers are there and whatever their other fields are; and
\* the layers of one instance cannot be taken for each other.
InstancesDistinct ==
    LET Layers == {<<None, None>>, <<ArmingPkgHash(<<1>>), None>>,
                   <<None, PresigPkgHash(<<1>>)>>,
                   <<ArmingPkgHash(<<1>>), PresigPkgHash(<<1>>)>>}
    IN  \A p, q \in opened : p.life = q.life =>
            /\ NumsChallenge(p.b) = NumsChallenge(q.b) => p = q
            /\ \A l, m \in Layers :
                  CtxHash(p.b, l[1], l[2]) = CtxHash(q.b, m[1], m[2]) =>
                      p = q /\ l = m

================================================================================
