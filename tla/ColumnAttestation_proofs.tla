------------------------ MODULE ColumnAttestation_proofs -----------------------
(***************************************************************************)
(* Proofs about ColumnAttestation, for every field, every set of instances *)
(* and any number of columns, arms, restarts and sessions.                 *)
(***************************************************************************)
EXTENDS ColumnAttestation, FieldSums, SequenceTheorems

\* The bases of a statement, and the type of what is raised from them.
LEMMA BasesType ==
    ASSUME NEW x \in Statements
    PROVE  /\ Columns[x] \in Seq(Scalars) /\ Len(Columns[x]) \in Nat
           /\ DOMAIN Columns[x] = 1 .. Len(Columns[x])
           /\ \A j \in DOMAIN Columns[x] : Columns[x][j] \in Scalars
           /\ Delta[x] \in Scalars /\ Delta[x] # Zero
BY AttestationAssumption DEF NonZero

LEMMA RaisedType ==
    ASSUME NEW x \in Statements, NEW r \in Scalars
    PROVE  Raised(x, r) \in ArmsOf(x)
BY BasesType, Closure DEF Raised, ArmsOf

LEMMA ConstantTypes ==
    /\ \A b \in Builders : b.x \in Statements
    /\ \A r \in Exponents : r \in Scalars /\ r # Zero
    /\ \A c \in Challenges : c \in Scalars /\ c # Zero
    /\ \A k \in Nonces : k \in Scalars
BY AttestationAssumption DEF NonZero, Statements

\* Two arms are the same when columns and delta are.
LEMMA SameArms ==
    ASSUME NEW x \in Statements, NEW arms \in ArmsOf(x), NEW r \in Scalars
    PROVE  arms = Raised(x, r) <=>
              /\ \A j \in DOMAIN Columns[x] : arms.y[j] = Times(Columns[x][j], r)
              /\ arms.delta = Times(Delta[x], r)
<1>1. ASSUME arms = Raised(x, r)
      PROVE  /\ \A j \in DOMAIN Columns[x] : arms.y[j] = Times(Columns[x][j], r)
             /\ arms.delta = Times(Delta[x], r)
  BY <1>1 DEF Raised
<1>2. ASSUME \A j \in DOMAIN Columns[x] : arms.y[j] = Times(Columns[x][j], r),
             arms.delta = Times(Delta[x], r)
      PROVE  arms = Raised(x, r)
  <2>1. arms = [y |-> arms.y, delta |-> arms.delta]
    BY DEF ArmsOf
  <2>2. arms.y = [j \in DOMAIN Columns[x] |-> Times(Columns[x][j], r)]
    BY <1>2 DEF ArmsOf
  <2> QED BY <2>1, <2>2, <1>2 DEF Raised
<1> QED BY <1>1, <1>2

--------------------------------------------------------------------------------
\* The equation behind every check: with the commitment and the response of an
\* honest prover, it says that the arm has the prover's exponent.
LEMMA HonestEquation ==
    ASSUME NEW base \in Scalars, NEW arm \in Scalars, NEW k \in Scalars,
           NEW c \in Scalars, NEW r \in Scalars, c # Zero
    PROVE  Plus(Times(base, k), Times(arm, c)) = Times(base, Plus(k, Times(c, r)))
              <=> arm = Times(base, r)
<1> DEFINE right == Times(Times(base, r), c)
<1>1. Times(c, r) \in Scalars /\ Times(base, k) \in Scalars
      /\ Times(arm, c) \in Scalars /\ Times(base, r) \in Scalars
      /\ right \in Scalars
  BY Closure
<1>2. Times(base, Plus(k, Times(c, r))) = Plus(Times(base, k), right)
  <2>1. Times(base, Plus(k, Times(c, r))) = Times(Plus(k, Times(c, r)), base)
    BY <1>1, Closure, TimesLaws
  <2>2. Times(Plus(k, Times(c, r)), base)
            = Plus(Times(k, base), Times(Times(c, r), base))
    BY <1>1, Distributes
  <2>3. Times(Times(c, r), base) = right
    <3>1. Times(Times(c, r), base) = Times(c, Times(r, base))
      BY TimesLaws
    <3>2. Times(r, base) = Times(base, r)
      BY TimesLaws
    <3>3. Times(c, Times(base, r)) = right
      BY <1>1, TimesLaws
    <3> QED BY <3>1, <3>2, <3>3
  <2>4. Times(k, base) = Times(base, k)
    BY TimesLaws
  <2> QED BY <2>1, <2>2, <2>3, <2>4
<1>3. ASSUME Plus(Times(base, k), Times(arm, c)) = Plus(Times(base, k), right)
      PROVE  arm = Times(base, r)
  <2>1. Plus(Times(arm, c), Times(base, k)) = Plus(right, Times(base, k))
    <3>1. Plus(Times(arm, c), Times(base, k)) = Plus(Times(base, k), Times(arm, c))
      BY <1>1, PlusLaws
    <3>2. Plus(right, Times(base, k)) = Plus(Times(base, k), right)
      BY <1>1, PlusLaws
    <3> QED BY <3>1, <3>2, <1>3
  <2>2. Times(arm, c) = right
    BY <2>1, <1>1, Cancel
  <2> QED BY <2>2, <1>1, TimesCancel
<1> QED BY <1>2, <1>3

\* Whoever answers challenges c and d with z and w for one commitment k has an
\* arm with an exponent that depends on neither base nor arm.
OneExponent(c, d, z, w) ==
    \E r \in Scalars : \A base, arm, k \in Scalars :
        /\ Plus(k, Times(arm, c)) = Times(base, z)
        /\ Plus(k, Times(arm, d)) = Times(base, w)
        => arm = Times(base, r)

\* Special soundness of PoCE-A: whoever answers two challenges for the same
\* commitments has arms with one exponent, whatever the arms were made from.
\* In a field the difference of two challenges has the inverse u.
LEMMA TwoAnswers ==
    ASSUME NEW c \in Scalars, NEW d \in Scalars,
           NEW z \in Scalars, NEW w \in Scalars, NEW u \in Scalars,
           Times(Plus(c, Minus(d)), u) = One
    PROVE  OneExponent(c, d, z, w)
<1> DEFINE r == Times(Plus(z, Minus(w)), u)
<1>1. \A base, arm, k \in Scalars :
          /\ Plus(k, Times(arm, c)) = Times(base, z)
          /\ Plus(k, Times(arm, d)) = Times(base, w)
          => arm = Times(base, r)
  <2> SUFFICES ASSUME NEW base \in Scalars, NEW arm \in Scalars, NEW k \in Scalars,
                      Plus(k, Times(arm, c)) = Times(base, z),
                      Plus(k, Times(arm, d)) = Times(base, w)
               PROVE  arm = Times(base, r)
    <3> HIDE DEF r
    <3> QED OBVIOUS
  <2> DEFINE e == Plus(c, Minus(d))
             f == Plus(z, Minus(w))
  <2>1. e \in Scalars /\ f \in Scalars /\ Plus(e, d) = c /\ Plus(f, w) = z
        /\ Times(e, u) = One
    BY Closure, MinusPlus
  <2> HIDE DEF e, f
  <2>2. Times(arm, e) \in Scalars /\ Times(arm, d) \in Scalars
        /\ Times(base, f) \in Scalars /\ Times(base, w) \in Scalars
    BY <2>1, Closure
  <2>3. Times(arm, c) = Plus(Times(arm, e), Times(arm, d))
    <3>1. Times(Plus(e, d), arm) = Plus(Times(e, arm), Times(d, arm))
      BY <2>1, Distributes
    <3> QED BY <3>1, <2>1, TimesLaws
  <2>4. Times(base, z) = Plus(Times(base, f), Times(base, w))
    <3>1. Times(Plus(f, w), base) = Plus(Times(f, base), Times(w, base))
      BY <2>1, Distributes
    <3> QED BY <3>1, <2>1, TimesLaws
  <2>5. Plus(k, Plus(Times(arm, e), Times(arm, d)))
            = Plus(Times(arm, e), Plus(k, Times(arm, d)))
    <3>1. Plus(k, Plus(Times(arm, e), Times(arm, d)))
              = Plus(Plus(k, Times(arm, e)), Times(arm, d))
      BY <2>2, PlusLaws
    <3>2. Plus(k, Times(arm, e)) = Plus(Times(arm, e), k)
      BY <2>2, PlusLaws
    <3>3. Plus(Plus(Times(arm, e), k), Times(arm, d))
              = Plus(Times(arm, e), Plus(k, Times(arm, d)))
      BY <2>2, PlusLaws
    <3> QED BY <3>1, <3>2, <3>3
  <2>6. Plus(Times(arm, e), Times(base, w)) = Plus(Times(base, f), Times(base, w))
    BY <2>3, <2>4, <2>5
  <2>7. Times(arm, e) = Times(base, f)
    BY <2>6, <2>2, Cancel
  <2>8. Times(Times(arm, e), u) = Times(arm, One)
    BY <2>1, TimesLaws
  <2>9. Times(Times(base, f), u) = Times(base, Times(f, u))
    BY <2>1, TimesLaws
  <2>10. Times(arm, One) = arm
    BY TimesLaws
  <2>11. arm = Times(base, Times(f, u))
    BY <2>7, <2>8, <2>9, <2>10
  <2> QED BY <2>11 DEF f
<1>2. r \in Scalars
  BY Closure
<1> HIDE DEF r
<1> QED BY <1>1, <1>2 DEF OneExponent

\* The same for all of verify_poce_column's equations.
THEOREM SpecialSoundness ==
    ASSUME NEW x \in Statements, NEW arms \in ArmsOf(x), NEW t \in Scalars,
           NEW com \in ArmsOf(x), NEW tcom \in Scalars,
           NEW c \in Scalars, NEW z \in Scalars, NEW tz \in Scalars,
           NEW d \in Scalars, NEW w \in Scalars, NEW tw \in Scalars,
           NEW u \in Scalars, Times(Plus(c, Minus(d)), u) = One,
           Equations(x, arms, t, [com |-> com, tcom |-> tcom, challenge |-> c,
                                  response |-> z, t_response |-> tz]),
           Equations(x, arms, t, [com |-> com, tcom |-> tcom, challenge |-> d,
                                  response |-> w, t_response |-> tw])
    PROVE  \E r \in Scalars : arms = Raised(x, r)
<1>1. OneExponent(c, d, z, w)
  BY TwoAnswers
<1>2. PICK r \in Scalars : \A base, arm, k \in Scalars :
             /\ Plus(k, Times(arm, c)) = Times(base, z)
             /\ Plus(k, Times(arm, d)) = Times(base, w)
             => arm = Times(base, r)
  BY <1>1 DEF OneExponent
<1>3. /\ \A j \in DOMAIN Columns[x] : com.y[j] \in Scalars /\ arms.y[j] \in Scalars
      /\ DOMAIN com.y = DOMAIN Columns[x]
      /\ com.delta \in Scalars /\ arms.delta \in Scalars
  BY DEF ArmsOf
<1>4. ASSUME NEW j \in DOMAIN Columns[x]
      PROVE  arms.y[j] = Times(Columns[x][j], r)
  <2>1. Plus(com.y[j], Times(arms.y[j], c)) = Times(Columns[x][j], z)
    BY <1>3 DEF Equations
  <2>2. Plus(com.y[j], Times(arms.y[j], d)) = Times(Columns[x][j], w)
    BY <1>3 DEF Equations
  <2>3. Columns[x][j] \in Scalars
    BY BasesType
  <2> QED BY <2>1, <2>2, <2>3, <1>2, <1>3
<1>5. arms.delta = Times(Delta[x], r)
  <2>1. Plus(com.delta, Times(arms.delta, c)) = Times(Delta[x], z)
    BY DEF Equations
  <2>2. Plus(com.delta, Times(arms.delta, d)) = Times(Delta[x], w)
    BY DEF Equations
  <2>3. Delta[x] \in Scalars
    BY BasesType
  <2> QED BY <2>1, <2>2, <2>3, <1>2, <1>3
<1>6. arms = Raised(x, r)
  BY <1>2, <1>4, <1>5, SameArms
<1> QED BY <1>2, <1>6

--------------------------------------------------------------------------------
\* What a published session is made of: the output of attest_column_arming for
\* some draws, and the entry its challenge has in the oracle.
Attested(n) ==
    /\ n.b \in Builders
    /\ n.arms \in ArmsOf(n.b.x)
    /\ n.rho \in Exponents
    /\ \E s, k_rho, k_s \in Nonces, c \in Challenges :
          /\ n.t = Times(One, s)
          /\ n.poce = [com |-> Commitments(n.b.x, k_rho), tcom |-> Times(One, k_s),
                       challenge |-> c, response |-> Plus(k_rho, Times(c, n.rho)),
                       t_response |-> Plus(k_s, Times(c, s))]
    /\ [transcript |-> Transcript(n.b.x, n.arms, n.t, n.poce.com, n.poce.tcom,
                                  CtxOf(n.b, n.arms, n.point), n.ct),
        challenge  |-> n.poce.challenge] \in oracle
    /\ n.ve = [ad |-> AdOf(n.b, n.arms, n.point),
               t |-> ExtractT(AdOf(n.b, n.arms, n.point)), ct |-> n.ct]
    /\ n.ct.ad = AdOf(n.b, n.arms, n.point)

\* What is known of a draft: its arms are of its statement, and its rho made
\* arms before anything was sealed.
Drafted(f) ==
    /\ f = [b |-> f.b, arms |-> f.arms, rho |-> f.rho, sealed |-> f.sealed]
    /\ f.b \in Builders /\ f.rho \in Exponents \cup {None}
    /\ f.arms # None => f.arms \in ArmsOf(f.b.x) /\ f.rho \in Exponents
    /\ f.sealed # None => f.arms \in ArmsOf(f.b.x) /\ f.rho \in Exponents

IInv ==
    /\ draft # None => Drafted(draft)
    /\ \E S : sessions \in Seq(S)
    /\ \A i \in DOMAIN sessions : Attested(sessions[i])
    /\ \A g, h \in oracle : g.challenge = h.challenge => g.transcript = h.transcript

LEMMA IInvInit == Init => IInv
<1> SUFFICES ASSUME Init PROVE IInv
  OBVIOUS
<1>1. sessions \in Seq({}) /\ DOMAIN sessions = {}
  BY DEF Init
<1> QED BY <1>1 DEF Init, IInv

\* A step that publishes nothing keeps what was published.
LEMMA NothingPublished ==
    ASSUME IInv, oracle' = oracle, sessions' = sessions,
           draft' # None => Drafted(draft')
    PROVE  IInv'
<1>1. \E S : sessions' \in Seq(S)
  BY DEF IInv
<1>2. (\A i \in DOMAIN sessions : Attested(sessions[i]))'
  <2>1. ASSUME NEW n, Attested(n)
        PROVE  Attested(n)'
    BY <2>1 DEF Attested
  <2> QED BY <2>1 DEF IInv
<1> QED BY <1>1, <1>2 DEF IInv

LEMMA OpenStep == ASSUME IInv, NEW b \in Builders, Open(b) PROVE IInv'
<1>1. draft' = [b |-> b, arms |-> None, rho |-> None, sealed |-> None]
      /\ oracle' = oracle /\ sessions' = sessions
  BY DEF Open
<1>2. Drafted(draft')
  BY <1>1 DEF Drafted
<1> QED BY <1>1, <1>2, NothingPublished

LEMMA ArmStep == ASSUME IInv, NEW r \in Exponents, Arm(r) PROVE IInv'
<1>1. draft # None /\ oracle' = oracle /\ sessions' = sessions
      /\ draft' = [draft EXCEPT !.arms = Raised(draft.b.x, r), !.rho = r]
  BY DEF Arm, InProgress
<1>2. Drafted(draft)
  BY <1>1 DEF IInv
<1>3. draft' = [b |-> draft.b, arms |-> Raised(draft.b.x, r), rho |-> r,
                sealed |-> draft.sealed]
  BY <1>1, <1>2 DEF Drafted
<1>4. Raised(draft.b.x, r) \in ArmsOf(draft.b.x)
  BY <1>2, ConstantTypes, RaisedType DEF Drafted
<1>5. Drafted(draft')
  BY <1>2, <1>3, <1>4 DEF Drafted
<1> QED BY <1>1, <1>5, NothingPublished

LEMMA MixStep ==
    ASSUME IInv, NEW r \in Exponents, InProgress,
           NEW j \in {0} \cup DOMAIN Columns[draft.b.x], Mix(j, r)
    PROVE  IInv'
<1>1. draft # None /\ draft.arms # None
      /\ oracle' = oracle /\ sessions' = sessions
  BY DEF Mix, InProgress
<1>2. Drafted(draft) /\ draft.arms \in ArmsOf(draft.b.x) /\ draft.rho \in Exponents
  BY <1>1 DEF IInv, Drafted
<1> DEFINE x == draft.b.x
           other == Raised(x, r)
<1>3. other \in ArmsOf(x) /\ x \in Statements
  BY <1>2, ConstantTypes, RaisedType DEF Drafted
<1> HIDE DEF other
<1>4. \E arms \in ArmsOf(x) : draft' = [draft EXCEPT !.arms = arms]
  <2>1. draft.arms = [y |-> draft.arms.y, delta |-> draft.arms.delta]
    BY <1>2 DEF ArmsOf
  <2>2. CASE j = 0
    <3> DEFINE arms == [y |-> draft.arms.y, delta |-> other.delta]
    <3>1. arms \in ArmsOf(x)
      BY <1>2, <1>3 DEF ArmsOf
    <3>2. [draft EXCEPT !.arms.delta = other.delta] = [draft EXCEPT !.arms = arms]
      BY <1>2, <2>1 DEF Drafted
    <3>3. draft' = [draft EXCEPT !.arms.delta = other.delta]
      BY <2>2 DEF Mix, other
    <3> QED BY <3>1, <3>2, <3>3
  <2>3. CASE j # 0
    <3> DEFINE arms == [y |-> [draft.arms.y EXCEPT ![j] = other.y[j]],
                        delta |-> draft.arms.delta]
    <3>1. arms \in ArmsOf(x)
      BY <1>2, <1>3, <2>3 DEF ArmsOf
    <3>2. [draft EXCEPT !.arms.y[j] = other.y[j]] = [draft EXCEPT !.arms = arms]
      BY <1>2, <2>1 DEF Drafted
    <3>3. draft' = [draft EXCEPT !.arms.y[j] = other.y[j]]
      BY <2>3 DEF Mix, other
    <3> QED BY <3>1, <3>2, <3>3
  <2> QED BY <2>2, <2>3
<1>5. Drafted(draft')
  <2>1. PICK arms \in ArmsOf(x) : draft' = [draft EXCEPT !.arms = arms]
    BY <1>4
  <2>2. draft' = [b |-> draft.b, arms |-> arms, rho |-> draft.rho,
                  sealed |-> draft.sealed]
    BY <1>2, <2>1 DEF Drafted
  <2> QED BY <1>2, <2>2 DEF Drafted
<1> QED BY <1>1, <1>5, NothingPublished

LEMMA SealStep == ASSUME IInv, NEW share \in Shares, Seal(share) PROVE IInv'
<1>1. draft # None /\ draft.arms # None
      /\ oracle' = oracle /\ sessions' = sessions
  BY DEF Seal, InProgress
<1>2. Drafted(draft) /\ draft.arms \in ArmsOf(draft.b.x) /\ draft.rho \in Exponents
  BY <1>1 DEF IInv, Drafted
<1>3. PICK sealed : draft' = [draft EXCEPT !.sealed = sealed]
  BY DEF Seal
<1>4. draft' = [b |-> draft.b, arms |-> draft.arms, rho |-> draft.rho,
                sealed |-> sealed]
  BY <1>2, <1>3 DEF Drafted
<1>5. Drafted(draft')
  BY <1>2, <1>4 DEF Drafted
<1> QED BY <1>1, <1>5, NothingPublished

LEMMA AttestStep ==
    ASSUME IInv, NEW s \in Nonces, NEW k_rho \in Nonces, NEW k_s \in Nonces,
           NEW c \in Challenges, Attest(s, k_rho, k_s, c)
    PROVE  IInv'
<1> DEFINE x    == draft.b.x
           seal == draft.sealed
           t    == Times(One, s)
           com  == Commitments(x, k_rho)
           tcom == Times(One, k_s)
           ad   == AdOf(draft.b, draft.arms, seal.point)
           hash == [transcript |-> Transcript(x, draft.arms, t, com, tcom,
                                     CtxOf(draft.b, draft.arms, seal.point), seal.ct),
                    challenge  |-> c]
           new  == [b |-> draft.b, arms |-> draft.arms, point |-> seal.point,
                    t |-> t, ct |-> seal.ct, rho |-> draft.rho,
                    poce |-> [com |-> com, tcom |-> tcom, challenge |-> c,
                              response |-> Plus(k_rho, Times(c, draft.rho)),
                              t_response |-> Plus(k_s, Times(c, s))],
                    ve |-> [ad |-> ad, t |-> ExtractT(ad), ct |-> seal.ct]]
<1>1. /\ draft # None /\ draft.sealed # None /\ draft' = draft
      /\ oracle' = oracle \cup {hash}
      /\ sessions' = Append(sessions, new)
  BY DEF Attest, InProgress
<1>2. Drafted(draft) /\ draft.arms \in ArmsOf(draft.b.x) /\ draft.rho \in Exponents
  BY <1>1 DEF IInv, Drafted
<1>3. ASSUME NEW n, n = new
      PROVE  Attested(n)'
  <2>1. new.b \in Builders /\ new.arms \in ArmsOf(new.b.x) /\ new.rho \in Exponents
    BY <1>2 DEF Drafted
  <2>2. hash \in oracle'
    BY <1>1
  <2>3. hash = [transcript |-> Transcript(new.b.x, new.arms, new.t, new.poce.com,
                    new.poce.tcom, CtxOf(new.b, new.arms, new.point), new.ct),
                challenge  |-> new.poce.challenge]
    OBVIOUS
  <2>4. /\ new.t = Times(One, s)
        /\ new.poce = [com |-> Commitments(new.b.x, k_rho), tcom |-> Times(One, k_s),
                       challenge |-> c, response |-> Plus(k_rho, Times(c, new.rho)),
                       t_response |-> Plus(k_s, Times(c, s))]
    OBVIOUS
  <2>5. new.ve = [ad |-> AdOf(new.b, new.arms, new.point),
                  t |-> ExtractT(AdOf(new.b, new.arms, new.point)), ct |-> new.ct]
    OBVIOUS
  <2>6. new.ct.ad = AdOf(new.b, new.arms, new.point)
    BY DEF Attest, CanProveVe
  <2> HIDE DEF new, hash
  <2> QED BY <1>3, <2>1, <2>2, <2>3, <2>4, <2>5, <2>6 DEF Attested
<1> HIDE DEF new
<1>4. ASSUME NEW n, Attested(n)
      PROVE  Attested(n)'
  BY <1>1, <1>4 DEF Attested
<1>5. PICK S : sessions \in Seq(S)
  BY DEF IInv
<1>6. sessions' \in Seq(S \cup {new})
  BY <1>1, <1>5
<1>7. (\A i \in DOMAIN sessions : Attested(sessions[i]))'
  <2> SUFFICES ASSUME NEW i \in DOMAIN sessions'
               PROVE  Attested(sessions[i])'
    OBVIOUS
  <2>1. \/ i \in DOMAIN sessions /\ sessions'[i] = sessions[i]
        \/ sessions'[i] = new
    BY <1>1, <1>5
  <2>2. i \in DOMAIN sessions => Attested(sessions[i])
    BY DEF IInv
  <2>3. ASSUME NEW n, n = sessions'[i]
        PROVE  Attested(n)'
    BY <2>1, <2>2, <2>3, <1>3, <1>4
  <2> QED BY <2>3
<1>8. (draft # None => Drafted(draft))'
  BY <1>1, <1>2 DEF Drafted
<1>9. \A g, h \in oracle' : g.challenge = h.challenge => g.transcript = h.transcript
  <2>1. \A h \in oracle : h.transcript = hash.transcript <=> h.challenge = c
    BY DEF Attest
  <2>2. hash.challenge = c
    OBVIOUS
  <2> HIDE DEF hash
  <2> QED BY <1>1, <2>1, <2>2 DEF IInv
<1> QED BY <1>6, <1>7, <1>8, <1>9 DEF IInv

LEMMA IInvStep == IInv /\ [Next]_vars => IInv'
<1> SUFFICES ASSUME IInv, [Next]_vars PROVE IInv'
  OBVIOUS
<1>1. ASSUME NEW b \in Builders, Open(b) PROVE IInv'
  BY <1>1, OpenStep
<1>2. CASE Restart
  BY <1>2, NothingPublished DEF Restart
<1>3. ASSUME NEW r \in Exponents, Arm(r) PROVE IInv'
  BY <1>3, ArmStep
<1>4. ASSUME NEW r \in Exponents, InProgress,
             NEW j \in {0} \cup DOMAIN Columns[draft.b.x], Mix(j, r)
      PROVE  IInv'
  BY <1>4, MixStep
<1>5. ASSUME NEW share \in Shares, Seal(share) PROVE IInv'
  BY <1>5, SealStep
<1>6. ASSUME NEW s \in Nonces, NEW k_rho \in Nonces, NEW k_s \in Nonces,
             NEW c \in Challenges, Attest(s, k_rho, k_s, c)
      PROVE  IInv'
  BY <1>6, AttestStep
<1>7. CASE UNCHANGED vars
  <2>1. draft' = draft /\ oracle' = oracle /\ sessions' = sessions
    BY <1>7 DEF vars
  <2>2. draft' # None => Drafted(draft')
    BY <2>1 DEF IInv
  <2> QED BY <2>1, <2>2, NothingPublished
<1> QED BY <1>1, <1>2, <1>3, <1>4, <1>5, <1>6, <1>7 DEF Next

\* The inductive invariant holds in every reachable state.
THEOREM Invariance == Spec => []IInv
BY IInvInit, IInvStep, PTL DEF Spec

--------------------------------------------------------------------------------
\* The equations of an attestation hold exactly for the arms it was made for.
LEMMA EquationsExact ==
    ASSUME NEW x \in Statements, NEW arms \in ArmsOf(x), NEW rho \in Scalars,
           NEW s \in Scalars, NEW k_rho \in Scalars, NEW k_s \in Scalars,
           NEW c \in Scalars, c # Zero, NEW poce,
           poce = [com |-> Commitments(x, k_rho), tcom |-> Times(One, k_s),
                   challenge |-> c, response |-> Plus(k_rho, Times(c, rho)),
                   t_response |-> Plus(k_s, Times(c, s))]
    PROVE  Equations(x, arms, Times(One, s), poce) <=> arms = Raised(x, rho)
<1>1. /\ DOMAIN poce.com.y = DOMAIN Columns[x]
      /\ \A j \in DOMAIN Columns[x] : poce.com.y[j] = Times(Columns[x][j], k_rho)
      /\ poce.com.delta = Times(Delta[x], k_rho)
      /\ poce.challenge = c /\ poce.response = Plus(k_rho, Times(c, rho))
      /\ poce.tcom = Times(One, k_s) /\ poce.t_response = Plus(k_s, Times(c, s))
  BY DEF Commitments, Raised
<1>2. /\ \A j \in DOMAIN Columns[x] : arms.y[j] \in Scalars
      /\ arms.delta \in Scalars
  BY DEF ArmsOf
<1>3. \A base, arm \in Scalars :
          Plus(Times(base, k_rho), Times(arm, c)) = Times(base, Plus(k_rho, Times(c, rho)))
              <=> arm = Times(base, rho)
  BY HonestEquation
<1>4. ASSUME NEW j \in DOMAIN Columns[x]
      PROVE  Plus(poce.com.y[j], Times(arms.y[j], poce.challenge))
                 = Times(Columns[x][j], poce.response)
             <=> arms.y[j] = Times(Columns[x][j], rho)
  BY <1>1, <1>2, <1>3, BasesType
<1>5. Plus(poce.com.delta, Times(arms.delta, poce.challenge))
          = Times(Delta[x], poce.response)
      <=> arms.delta = Times(Delta[x], rho)
  BY <1>1, <1>2, <1>3, BasesType
<1>6. Plus(poce.tcom, Times(Times(One, s), poce.challenge))
          = Times(One, poce.t_response)
  <2>1. Plus(Times(One, k_s), Times(Times(One, s), c))
            = Times(One, Plus(k_s, Times(c, s)))
    <3>1. One \in Scalars /\ Times(One, s) \in Scalars
      BY Closure
    <3>2. \A base, arm \in Scalars :
              Plus(Times(base, k_s), Times(arm, c)) = Times(base, Plus(k_s, Times(c, s)))
                  <=> arm = Times(base, s)
      BY HonestEquation
    <3> QED BY <3>1, <3>2
  <2> QED BY <1>1, <2>1
<1> QED BY <1>1, <1>4, <1>5, <1>6, SameArms DEF Equations

\* Arms raised with a non-zero exponent are the identity where the base is.
LEMMA RaisedPlausible ==
    ASSUME NEW x \in Statements, NEW r \in Scalars, r # Zero
    PROVE  ArmsPlausible(x, Raised(x, r))
<1>1. ASSUME NEW a \in Scalars
      PROVE  a = Zero <=> Times(a, r) = Zero
  BY TimesZero, TimesNonZero
<1> QED BY <1>1, BasesType DEF ArmsPlausible, Raised

LEMMA IInvHonestAccepted == IInv => HonestAccepted
<1> SUFFICES ASSUME IInv, NEW i \in DOMAIN sessions
             PROVE  Accepts(Pieces(i))
                        <=> sessions[i].arms = Raised(sessions[i].b.x, sessions[i].rho)
  BY DEF HonestAccepted
<1> DEFINE n == sessions[i]
           x == n.b.x
<1>1. Attested(n)
  BY DEF IInv
<1>2. /\ Pieces(i).b = n.b /\ Pieces(i).arms = n.arms /\ Pieces(i).point = n.point
      /\ Pieces(i).t = n.t /\ Pieces(i).ct = n.ct
      /\ Pieces(i).poce = n.poce /\ Pieces(i).ve = n.ve
  BY DEF Pieces
<1> HIDE DEF n
<1>3. x \in Statements /\ n.arms \in ArmsOf(x) /\ n.rho \in Scalars /\ n.rho # Zero
  BY <1>1, ConstantTypes DEF Attested
<1>4. PICK s \in Nonces, k_rho \in Nonces, k_s \in Nonces, c \in Challenges :
          /\ n.t = Times(One, s)
          /\ n.poce = [com |-> Commitments(x, k_rho), tcom |-> Times(One, k_s),
                       challenge |-> c, response |-> Plus(k_rho, Times(c, n.rho)),
                       t_response |-> Plus(k_s, Times(c, s))]
  BY <1>1 DEF Attested
<1>5. Equations(x, n.arms, n.t, n.poce) <=> n.arms = Raised(x, n.rho)
  BY <1>3, <1>4, ConstantTypes, EquationsExact
<1>6. n.arms = Raised(x, n.rho) => ArmsPlausible(x, n.arms)
  BY <1>3, RaisedPlausible
<1>7. Len(Columns[x]) = Len(n.arms.y) /\ Len(Columns[x]) = Len(n.poce.com.y)
  <2>1. DOMAIN n.arms.y = 1 .. Len(Columns[x]) /\ n.arms.y \in Seq(Scalars)
    BY <1>3, BasesType DEF ArmsOf
  <2>2. n.poce.com \in ArmsOf(x)
    BY <1>3, <1>4, ConstantTypes, RaisedType DEF Commitments
  <2>3. DOMAIN n.poce.com.y = 1 .. Len(Columns[x]) /\ n.poce.com.y \in Seq(Scalars)
    BY <1>3, <2>2, BasesType DEF ArmsOf
  <2> QED BY <2>1, <2>3, <1>3, BasesType
<1>8. [transcript |-> Transcript(x, n.arms, n.t, n.poce.com, n.poce.tcom,
                                 CtxOf(n.b, n.arms, n.point), n.ct),
       challenge  |-> n.poce.challenge] \in oracle
  BY <1>1 DEF Attested
<1>9. VeHolds(n.ve, AdOf(n.b, n.arms, n.point), n.ct)
  BY <1>1 DEF Attested, VeHolds
<1> QED BY <1>2, <1>5, <1>6, <1>7, <1>8, <1>9 DEF Accepts, PoceHolds, n

\* For every field and any number of columns, an attestation is accepted exactly
\* when all its arms were made with the exponent it was made with.
THEOREM HonestAlwaysAccepted == Spec => []HonestAccepted
BY Invariance, IInvHonestAccepted, PTL

--------------------------------------------------------------------------------
\* A concatenation determines its parts once their lengths are known.
LEMMA ConcatSplit ==
    ASSUME NEW S, NEW a \in Seq(S), NEW b \in Seq(S), NEW u \in Seq(S), NEW v \in Seq(S),
           Len(a) = Len(b), a \o u = b \o v
    PROVE  a = b /\ u = v
<1>1. /\ Len(a \o u) = Len(a) + Len(u) /\ Len(b \o v) = Len(b) + Len(v)
      /\ \A i \in 1 .. Len(a) + Len(u) :
            (a \o u)[i] = IF i <= Len(a) THEN a[i] ELSE u[i - Len(a)]
      /\ \A i \in 1 .. Len(b) + Len(v) :
            (b \o v)[i] = IF i <= Len(b) THEN b[i] ELSE v[i - Len(b)]
  BY ConcatProperties
<1>2. Len(a) \in Nat /\ Len(u) \in Nat /\ Len(u) = Len(v)
  BY <1>1
<1>3. \A i \in 1 .. Len(a) : a[i] = b[i]
  <2> SUFFICES ASSUME NEW i \in 1 .. Len(a) PROVE a[i] = b[i]
    OBVIOUS
  <2>1. i \in 1 .. Len(a) + Len(u) /\ i <= Len(a)
    BY <1>2
  <2>2. (a \o u)[i] = a[i] /\ (b \o v)[i] = b[i]
    BY <1>1, <1>2, <2>1
  <2> QED BY <2>2
<1>4. \A i \in 1 .. Len(u) : u[i] = v[i]
  <2> SUFFICES ASSUME NEW i \in 1 .. Len(u) PROVE u[i] = v[i]
    OBVIOUS
  <2> DEFINE j == i + Len(a)
  <2>1. j \in 1 .. Len(a) + Len(u) /\ ~ (j <= Len(a)) /\ j - Len(a) = i
    BY <1>2
  <2>2. (a \o u)[j] = u[i] /\ (b \o v)[j] = v[i]
    BY <1>1, <1>2, <2>1
  <2> QED BY <2>2
<1> QED BY <1>2, <1>3, <1>4, SeqEqual

Alike(S, a, b) == a \in Seq(S) /\ b \in Seq(S) /\ Len(a) = Len(b)

LEMMA AlikeConcat ==
    ASSUME NEW S, NEW a, NEW b, NEW u, NEW v, Alike(S, a, b), Alike(S, u, v)
    PROVE  Alike(S, a \o u, b \o v)
<1>1. a \in Seq(S) /\ b \in Seq(S) /\ u \in Seq(S) /\ v \in Seq(S)
      /\ Len(a) = Len(b) /\ Len(u) = Len(v)
  BY DEF Alike
<1>2. a \o u \in Seq(S) /\ Len(a \o u) = Len(a) + Len(u)
  BY <1>1, ConcatProperties
<1>3. b \o v \in Seq(S) /\ Len(b \o v) = Len(b) + Len(v)
  BY <1>1, ConcatProperties
<1> QED BY <1>1, <1>2, <1>3 DEF Alike

LEMMA AlikeSplit ==
    ASSUME NEW S, NEW a, NEW b, NEW u, NEW v, Alike(S, a, b), Alike(S, u, v),
           a \o u = b \o v
    PROVE  a = b /\ u = v
<1>1. a \in Seq(S) /\ b \in Seq(S) /\ u \in Seq(S) /\ v \in Seq(S)
      /\ Len(a) = Len(b)
  BY DEF Alike
<1> QED BY <1>1, ConcatSplit

\* Two transcripts over one set of commitments, as a verifier has measured them.
SameTranscript(x, z, arms, brms, t, w, com, tcom, ctx, cty, ct, cu) ==
    /\ x \in Statements /\ z \in Statements
    /\ arms.y \in Seq(Scalars) /\ brms.y \in Seq(Scalars) /\ com.y \in Seq(Scalars)
    /\ arms.delta \in Scalars /\ brms.delta \in Scalars
    /\ t \in Scalars /\ w \in Scalars
    /\ Len(Columns[x]) = Len(arms.y) /\ Len(Columns[z]) = Len(brms.y)
    /\ Len(Columns[x]) = Len(Columns[z])
    /\ Transcript(x, arms, t, com, tcom, ctx, ct)
          = Transcript(z, brms, w, com, tcom, cty, cu)

\* A transcript determines bases and arms, though it names no lengths: the
\* verifier has compared them.
LEMMA TranscriptBinds ==
    ASSUME NEW x, NEW z, NEW arms, NEW brms, NEW t, NEW w, NEW com, NEW tcom,
           NEW ctx, NEW cty, NEW ct, NEW cu,
           SameTranscript(x, z, arms, brms, t, w, com, tcom, ctx, cty, ct, cu)
    PROVE  /\ Columns[x] = Columns[z] /\ Delta[x] = Delta[z]
           /\ arms.y = brms.y /\ arms.delta = brms.delta /\ t = w /\ ct = cu
<1> DEFINE S == Scalars \cup {com.delta, tcom, ctx, cty, GsDigest, ct, cu}
           A1 == Columns[x] \o <<Delta[x]>>
           A2 == A1 \o arms.y
           A3 == A2 \o <<arms.delta, t>>
           A4 == A3 \o com.y
           B1 == Columns[z] \o <<Delta[z]>>
           B2 == B1 \o brms.y
           B3 == B2 \o <<brms.delta, w>>
           B4 == B3 \o com.y
           At == <<com.delta, tcom, ctx, GsDigest, ct>>
           Bt == <<com.delta, tcom, cty, GsDigest, cu>>
<1> USE DEF SameTranscript
<1>1. /\ Alike(S, Columns[x], Columns[z])
      /\ Alike(S, arms.y, brms.y)
      /\ Alike(S, com.y, com.y)
  BY BasesType DEF Alike
<1>2. /\ Alike(S, <<Delta[x]>>, <<Delta[z]>>)
      /\ Alike(S, <<arms.delta, t>>, <<brms.delta, w>>)
      /\ Alike(S, At, Bt)
  BY BasesType DEF Alike
<1>3. A4 \o At = B4 \o Bt
  BY DEF Transcript
<1> HIDE DEF S, At, Bt, SameTranscript
<1>4. Alike(S, A1, B1)
  BY <1>1, <1>2, AlikeConcat
<1> HIDE DEF A1, B1
<1>5. Alike(S, A2, B2)
  BY <1>1, <1>4, AlikeConcat
<1> HIDE DEF A2, B2
<1>6. Alike(S, A3, B3)
  BY <1>2, <1>5, AlikeConcat
<1> HIDE DEF A3, B3
<1>7. Alike(S, A4, B4)
  BY <1>1, <1>6, AlikeConcat
<1> HIDE DEF A4, B4
<1>8. A4 = B4 /\ At = Bt
  BY <1>2, <1>3, <1>7, AlikeSplit
<1>9. A3 = B3
  BY <1>1, <1>6, <1>8, AlikeSplit DEF A4, B4
<1>10. A2 = B2 /\ <<arms.delta, t>> = <<brms.delta, w>>
  BY <1>2, <1>5, <1>9, AlikeSplit DEF A3, B3
<1>11. A1 = B1 /\ arms.y = brms.y
  BY <1>1, <1>4, <1>10, AlikeSplit DEF A2, B2
<1>12. Columns[x] = Columns[z] /\ <<Delta[x]>> = <<Delta[z]>>
  BY <1>1, <1>2, <1>11, AlikeSplit DEF A1, B1
<1> QED BY <1>8, <1>10, <1>11, <1>12 DEF At, Bt

\* What is published has these types.
LEMMA AttestedType ==
    ASSUME IInv, NEW i \in DOMAIN sessions
    PROVE  LET n == sessions[i]
           IN  /\ n.b.x \in Statements /\ n.arms \in ArmsOf(n.b.x)
               /\ n.arms = [y |-> n.arms.y, delta |-> n.arms.delta]
               /\ n.arms.y \in Seq(Scalars) /\ Len(n.arms.y) = Len(Columns[n.b.x])
               /\ n.arms.delta \in Scalars /\ n.t \in Scalars
               /\ n.poce.com.y \in Seq(Scalars)
               /\ Len(n.poce.com.y) = Len(Columns[n.b.x])
<1> DEFINE n == sessions[i]
           x == n.b.x
<1>1. Attested(n)
  BY DEF IInv
<1> HIDE DEF n
<1>2. x \in Statements /\ n.arms \in ArmsOf(x)
  BY <1>1, ConstantTypes DEF Attested
<1>3. PICK s \in Nonces, k_rho \in Nonces, k_s \in Nonces, c \in Challenges :
          /\ n.t = Times(One, s)
          /\ n.poce = [com |-> Commitments(x, k_rho), tcom |-> Times(One, k_s),
                       challenge |-> c, response |-> Plus(k_rho, Times(c, n.rho)),
                       t_response |-> Plus(k_s, Times(c, s))]
  BY <1>1 DEF Attested
<1>4. n.t \in Scalars
  BY <1>3, ConstantTypes, Closure
<1>5. ASSUME NEW arms \in ArmsOf(x)
      PROVE  /\ arms = [y |-> arms.y, delta |-> arms.delta]
             /\ arms.y \in Seq(Scalars) /\ Len(arms.y) = Len(Columns[x])
             /\ arms.delta \in Scalars
  BY <1>2, BasesType DEF ArmsOf
<1>6. n.poce.com \in ArmsOf(x)
  BY <1>2, <1>3, ConstantTypes, RaisedType DEF Commitments
<1> QED BY <1>2, <1>4, <1>5, <1>6 DEF n

LEMMA IInvSameExponent == IInv => SameExponent
<1> SUFFICES ASSUME IInv, NEW o \in Collected, Accepts(o)
             PROVE  \E r \in NonZero : o.arms = Raised(o.b.x, r)
  BY DEF SameExponent
<1>1. /\ o.b \in Builders
      /\ \E i \in DOMAIN sessions : o.arms = sessions[i].arms
      /\ \E i \in DOMAIN sessions : o.t = sessions[i].t
      /\ \E i \in DOMAIN sessions : o.poce = sessions[i].poce
  BY DEF Collected
<1>2. PICK m \in DOMAIN sessions : o.poce = sessions[m].poce
  BY <1>1
<1> DEFINE n == sessions[m]
           x == o.b.x
           z == n.b.x
<1>3. Attested(n)
  BY DEF IInv
<1>4. /\ x \in Statements /\ o.t \in Scalars
      /\ o.arms = [y |-> o.arms.y, delta |-> o.arms.delta]
      /\ o.arms.y \in Seq(Scalars) /\ o.arms.delta \in Scalars
  BY <1>1, ConstantTypes, AttestedType
<1>5. /\ z \in Statements /\ n.arms \in ArmsOf(z)
      /\ n.arms = [y |-> n.arms.y, delta |-> n.arms.delta]
      /\ n.arms.y \in Seq(Scalars) /\ Len(n.arms.y) = Len(Columns[z])
      /\ n.arms.delta \in Scalars /\ n.t \in Scalars
      /\ n.poce.com.y \in Seq(Scalars) /\ Len(n.poce.com.y) = Len(Columns[z])
  BY AttestedType
<1> HIDE DEF n
<1>6. /\ Len(Columns[x]) = Len(o.arms.y) /\ Len(Columns[x]) = Len(n.poce.com.y)
      /\ [transcript |-> Transcript(x, o.arms, o.t, n.poce.com, n.poce.tcom,
                                    CtxOf(o.b, o.arms, o.point), o.ct),
          challenge  |-> n.poce.challenge] \in oracle
      /\ Equations(x, o.arms, o.t, n.poce)
  BY <1>2 DEF Accepts, PoceHolds, n
<1>7. Transcript(x, o.arms, o.t, n.poce.com, n.poce.tcom,
                 CtxOf(o.b, o.arms, o.point), o.ct)
        = Transcript(z, n.arms, n.t, n.poce.com, n.poce.tcom,
                     CtxOf(n.b, n.arms, n.point), n.ct)
  <2>1. [transcript |-> Transcript(z, n.arms, n.t, n.poce.com, n.poce.tcom,
                                   CtxOf(n.b, n.arms, n.point), n.ct),
         challenge  |-> n.poce.challenge] \in oracle
    BY <1>3 DEF Attested
  <2> QED BY <1>6, <2>1 DEF IInv
<1>8. /\ Columns[x] = Columns[z] /\ Delta[x] = Delta[z]
      /\ o.arms.y = n.arms.y /\ o.arms.delta = n.arms.delta /\ o.t = n.t
  <2>1. SameTranscript(x, z, o.arms, n.arms, o.t, n.t, n.poce.com, n.poce.tcom,
                       CtxOf(o.b, o.arms, o.point), CtxOf(n.b, n.arms, n.point),
                       o.ct, n.ct)
    BY <1>4, <1>5, <1>6, <1>7 DEF SameTranscript
  <2> QED BY <2>1, TranscriptBinds
<1>9. o.arms = n.arms
  BY <1>4, <1>5, <1>8
<1>10. Equations(z, n.arms, n.t, n.poce)
  BY <1>6, <1>8, <1>9 DEF Equations
<1>11. n.rho \in Scalars /\ n.rho # Zero
  BY <1>3, ConstantTypes DEF Attested
<1>12. PICK s \in Nonces, k_rho \in Nonces, k_s \in Nonces, c \in Challenges :
          /\ n.t = Times(One, s)
          /\ n.poce = [com |-> Commitments(z, k_rho), tcom |-> Times(One, k_s),
                       challenge |-> c, response |-> Plus(k_rho, Times(c, n.rho)),
                       t_response |-> Plus(k_s, Times(c, s))]
  BY <1>3 DEF Attested
<1>13. n.arms = Raised(z, n.rho)
  BY <1>5, <1>10, <1>11, <1>12, ConstantTypes, EquationsExact
<1>14. Raised(z, n.rho) = Raised(x, n.rho)
  BY <1>8 DEF Raised
<1> QED BY <1>9, <1>11, <1>13, <1>14 DEF NonZero

\* For every field and any number of columns, sessions and restarts: whatever
\* pieces an accepting verifier has put together, its arms have one exponent.
THEOREM SameExponentAlways == Spec => []SameExponent
BY Invariance, IInvSameExponent, PTL

--------------------------------------------------------------------------------
(***************************************************************************)
(* What is encoded, and what an encoding determines.                       *)
(***************************************************************************)
IsSeq(a) == \E S : a \in Seq(S)
Cat(a, b) == a \o b

\* Any four sequences have their elements in one set.
LEMMA OneSet ==
    ASSUME NEW a, NEW b, NEW c, NEW d, IsSeq(a), IsSeq(b), IsSeq(c), IsSeq(d)
    PROVE  \E S : a \in Seq(S) /\ b \in Seq(S) /\ c \in Seq(S) /\ d \in Seq(S)
<1>1. PICK A, B, C, D : a \in Seq(A) /\ b \in Seq(B) /\ c \in Seq(C) /\ d \in Seq(D)
  BY DEF IsSeq
<1> DEFINE S == A \cup B \cup C \cup D
<1>2. a \in Seq(S) /\ b \in Seq(S) /\ c \in Seq(S) /\ d \in Seq(S)
  BY <1>1
<1> HIDE DEF S
<1> QED BY <1>2

LEMMA ConcatSeq ==
    ASSUME NEW a, NEW b, IsSeq(a), IsSeq(b)
    PROVE  IsSeq(Cat(a, b)) /\ Len(Cat(a, b)) = Len(a) + Len(b)
<1>1. PICK S : a \in Seq(S) /\ b \in Seq(S)
  BY OneSet
<1> QED BY <1>1, ConcatProperties DEF IsSeq, Cat

LEMMA ConcatNested ==
    ASSUME NEW a, NEW b, NEW c, IsSeq(a), IsSeq(b), IsSeq(c)
    PROVE  Cat(Cat(a, b), c) = Cat(a, Cat(b, c))
<1>1. PICK S : a \in Seq(S) /\ b \in Seq(S) /\ c \in Seq(S)
  BY OneSet
<1> QED BY <1>1, ConcatAssociative DEF Cat

LEMMA SeqSplit ==
    ASSUME NEW a, NEW b, NEW u, NEW v, IsSeq(a), IsSeq(b), IsSeq(u), IsSeq(v),
           Len(a) = Len(b), Cat(a, u) = Cat(b, v)
    PROVE  a = b /\ u = v
<1>1. PICK S : a \in Seq(S) /\ b \in Seq(S) /\ u \in Seq(S) /\ v \in Seq(S)
  BY OneSet
<1>2. a \o u = b \o v
  BY DEF Cat
<1> QED BY <1>1, <1>2, ConcatSplit

\* The same from the other end.
LEMMA SeqSplitEnd ==
    ASSUME NEW a, NEW b, NEW u, NEW v, IsSeq(a), IsSeq(b), IsSeq(u), IsSeq(v),
           Len(u) = Len(v), Cat(a, u) = Cat(b, v)
    PROVE  a = b /\ u = v
<1>1. Len(a) \in Nat /\ Len(b) \in Nat /\ Len(u) \in Nat
  BY DEF IsSeq
<1>2. Len(a) + Len(u) = Len(b) + Len(v)
  BY ConcatSeq
<1>3. Len(a) = Len(b)
  BY <1>1, <1>2
<1> QED BY <1>3, SeqSplit

LEMMA ShortSeqs ==
    /\ \A a : IsSeq(<<a>>) /\ Len(<<a>>) = 1
    /\ \A a, b : IsSeq(<<a, b>>) /\ Len(<<a, b>>) = 2
    /\ IsSeq(<< >>) /\ Len(<< >>) = 0
<1>1. ASSUME NEW a PROVE <<a>> \in Seq({a})
  OBVIOUS
<1>2. ASSUME NEW a, NEW b PROVE <<a, b>> \in Seq({a, b})
  OBVIOUS
<1>3. << >> \in Seq({})
  OBVIOUS
<1> QED BY <1>1, <1>2, <1>3 DEF IsSeq

LEMMA PrefixedSeq == ASSUME NEW u, IsSeq(u) PROVE IsSeq(Prefixed(u))
<1>1. Prefixed(u) = Cat(<<Len(u)>>, u)
  BY DEF Prefixed, Cat
<1> QED BY <1>1, ShortSeqs, ConcatSeq

\* A length in front of a field says where the next one starts.
LEMMA PrefixedSplit ==
    ASSUME NEW u, NEW v, NEW p, NEW q, IsSeq(u), IsSeq(v), IsSeq(p), IsSeq(q),
           Cat(Prefixed(u), p) = Cat(Prefixed(v), q)
    PROVE  u = v /\ p = q
<1> DEFINE lu == <<Len(u)>>
           lv == <<Len(v)>>
<1>0. IsSeq(lu) /\ IsSeq(lv) /\ Len(lu) = Len(lv)
  BY ShortSeqs
<1>1. Cat(lu, Cat(u, p)) = Cat(lv, Cat(v, q))
  <2>1. Prefixed(u) = Cat(lu, u) /\ Prefixed(v) = Cat(lv, v)
    BY DEF Prefixed, Cat
  <2> HIDE DEF lu, lv
  <2> QED BY <1>0, <2>1, ConcatNested
<1> HIDE DEF lu, lv
<1>2. lu = lv /\ Cat(u, p) = Cat(v, q)
  BY <1>0, <1>1, ConcatSeq, SeqSplit
<1>3. Len(u) = Len(v)
  BY <1>2 DEF lu, lv
<1> QED BY <1>2, <1>3, SeqSplit

\* The fields of an AD_core, and its bytes read from the left.
IsAdCore(ad) ==
    /\ IsSeq(ad.template) /\ IsSeq(PathBytes[ad.path])
    /\ IsSeq(ad.t_i) /\ IsSeq(ad.t_aggregate)
    /\ IsSeq(ad.armed_bases) /\ IsSeq(ad.armed_delta)

Head6(ad) == <<Profile, ad.vk, ad.x, ad.ctx, ad.tapleaf, ad.version>>
Tail6(ad) == Cat(Prefixed(ad.armed_delta), <<ad.gs_digest>>)
Tail5(ad) == Cat(Prefixed(ad.armed_bases), Tail6(ad))
Tail4(ad) == Cat(Prefixed(ad.t_aggregate), Tail5(ad))
Tail3(ad) == Cat(Prefixed(ad.t_i), Tail4(ad))
Tail2(ad) == Cat(<<ad.share_index>>, Tail3(ad))
Tail1(ad) == Cat(Prefixed(PathBytes[ad.path]), Tail2(ad))
Tail0(ad) == Cat(Prefixed(ad.template), Tail1(ad))

LEMMA TailSeqs ==
    ASSUME NEW ad, IsAdCore(ad)
    PROVE  /\ IsSeq(Head6(ad)) /\ Len(Head6(ad)) = 6
           /\ IsSeq(Tail0(ad)) /\ IsSeq(Tail1(ad)) /\ IsSeq(Tail2(ad)) /\ IsSeq(Tail3(ad))
           /\ IsSeq(Tail4(ad)) /\ IsSeq(Tail5(ad)) /\ IsSeq(Tail6(ad))
<1> USE DEF IsAdCore
<1>1. IsSeq(Tail6(ad))
  BY ShortSeqs, PrefixedSeq, ConcatSeq DEF Tail6
<1>2. IsSeq(Tail5(ad))
  BY <1>1, PrefixedSeq, ConcatSeq DEF Tail5
<1>3. IsSeq(Tail4(ad))
  BY <1>2, PrefixedSeq, ConcatSeq DEF Tail4
<1>4. IsSeq(Tail3(ad))
  BY <1>3, PrefixedSeq, ConcatSeq DEF Tail3
<1>5. IsSeq(Tail2(ad))
  BY <1>4, ShortSeqs, ConcatSeq DEF Tail2
<1>6. IsSeq(Tail1(ad))
  BY <1>5, PrefixedSeq, ConcatSeq DEF Tail1
<1>7. IsSeq(Tail0(ad))
  BY <1>6, PrefixedSeq, ConcatSeq DEF Tail0
<1>8. Head6(ad) \in Seq({Profile, ad.vk, ad.x, ad.ctx, ad.tapleaf, ad.version})
      /\ Len(Head6(ad)) = 6
  BY DEF Head6
<1> QED BY <1>1, <1>2, <1>3, <1>4, <1>5, <1>6, <1>7, <1>8 DEF IsSeq

LEMMA SerializeNested ==
    ASSUME NEW ad, IsAdCore(ad)
    PROVE  Serialize(ad) = Cat(Head6(ad), Tail0(ad))
<1> DEFINE X1 == Cat(Head6(ad), Prefixed(ad.template))
           X2 == Cat(X1, Prefixed(PathBytes[ad.path]))
           X3 == Cat(X2, <<ad.share_index>>)
           X4 == Cat(X3, Prefixed(ad.t_i))
           X5 == Cat(X4, Prefixed(ad.t_aggregate))
           X6 == Cat(X5, Prefixed(ad.armed_bases))
           X7 == Cat(X6, Prefixed(ad.armed_delta))
<1>1. Serialize(ad) = Cat(X7, <<ad.gs_digest>>)
  BY DEF Serialize, Head6, Cat
<1>2. /\ IsSeq(Prefixed(ad.template)) /\ IsSeq(Prefixed(PathBytes[ad.path]))
      /\ IsSeq(Prefixed(ad.t_i)) /\ IsSeq(Prefixed(ad.t_aggregate))
      /\ IsSeq(Prefixed(ad.armed_bases)) /\ IsSeq(Prefixed(ad.armed_delta))
      /\ IsSeq(<<ad.share_index>>) /\ IsSeq(<<ad.gs_digest>>)
  BY PrefixedSeq, ShortSeqs DEF IsAdCore
<1>3. IsSeq(X1) /\ Cat(X1, Tail1(ad)) = Cat(Head6(ad), Tail0(ad))
  BY <1>2, TailSeqs, ConcatSeq, ConcatNested DEF Tail0
<1> HIDE DEF X1
<1>4. IsSeq(X2) /\ Cat(X2, Tail2(ad)) = Cat(X1, Tail1(ad))
  BY <1>2, <1>3, TailSeqs, ConcatSeq, ConcatNested DEF Tail1
<1> HIDE DEF X2
<1>5. IsSeq(X3) /\ Cat(X3, Tail3(ad)) = Cat(X2, Tail2(ad))
  BY <1>2, <1>4, TailSeqs, ConcatSeq, ConcatNested DEF Tail2
<1> HIDE DEF X3
<1>6. IsSeq(X4) /\ Cat(X4, Tail4(ad)) = Cat(X3, Tail3(ad))
  BY <1>2, <1>5, TailSeqs, ConcatSeq, ConcatNested DEF Tail3
<1> HIDE DEF X4
<1>7. IsSeq(X5) /\ Cat(X5, Tail5(ad)) = Cat(X4, Tail4(ad))
  BY <1>2, <1>6, TailSeqs, ConcatSeq, ConcatNested DEF Tail4
<1> HIDE DEF X5
<1>8. IsSeq(X6) /\ Cat(X6, Tail6(ad)) = Cat(X5, Tail5(ad))
  BY <1>2, <1>7, TailSeqs, ConcatSeq, ConcatNested DEF Tail5
<1> HIDE DEF X6
<1>9. Cat(X7, <<ad.gs_digest>>) = Cat(X6, Tail6(ad))
  BY <1>2, <1>8, ConcatNested DEF Tail6
<1> HIDE DEF X7
<1> QED BY <1>1, <1>3, <1>4, <1>5, <1>6, <1>7, <1>8, <1>9

\* AdCore::serialize is injective: its bytes determine every field.
LEMMA SerializeBinds ==
    ASSUME NEW ad, NEW bd, IsAdCore(ad), IsAdCore(bd), Serialize(ad) = Serialize(bd)
    PROVE  /\ ad.vk = bd.vk /\ ad.x = bd.x /\ ad.ctx = bd.ctx
           /\ ad.tapleaf = bd.tapleaf /\ ad.version = bd.version
           /\ ad.template = bd.template /\ PathBytes[ad.path] = PathBytes[bd.path]
           /\ ad.share_index = bd.share_index
           /\ ad.t_i = bd.t_i /\ ad.t_aggregate = bd.t_aggregate
           /\ ad.armed_bases = bd.armed_bases /\ ad.armed_delta = bd.armed_delta
           /\ ad.gs_digest = bd.gs_digest
<1> USE DEF IsAdCore
<1>1. Head6(ad) = Head6(bd) /\ Tail0(ad) = Tail0(bd)
  BY SerializeNested, TailSeqs, SeqSplit
<1>2. ad.template = bd.template /\ Tail1(ad) = Tail1(bd)
  BY <1>1, TailSeqs, PrefixedSplit DEF Tail0
<1>3. PathBytes[ad.path] = PathBytes[bd.path] /\ Tail2(ad) = Tail2(bd)
  BY <1>2, TailSeqs, PrefixedSplit DEF Tail1
<1>4. <<ad.share_index>> = <<bd.share_index>> /\ Tail3(ad) = Tail3(bd)
  BY <1>3, TailSeqs, ShortSeqs, SeqSplit DEF Tail2
<1>5. ad.t_i = bd.t_i /\ Tail4(ad) = Tail4(bd)
  BY <1>4, TailSeqs, PrefixedSplit DEF Tail3
<1>6. ad.t_aggregate = bd.t_aggregate /\ Tail5(ad) = Tail5(bd)
  BY <1>5, TailSeqs, PrefixedSplit DEF Tail4
<1>7. ad.armed_bases = bd.armed_bases /\ Tail6(ad) = Tail6(bd)
  BY <1>6, TailSeqs, PrefixedSplit DEF Tail5
<1>8. ad.armed_delta = bd.armed_delta /\ <<ad.gs_digest>> = <<bd.gs_digest>>
  BY <1>7, ShortSeqs, PrefixedSplit DEF Tail6
<1>9. /\ ad.vk = bd.vk /\ ad.x = bd.x /\ ad.ctx = bd.ctx
      /\ ad.tapleaf = bd.tapleaf /\ ad.version = bd.version
  BY <1>1 DEF Head6
<1> QED BY <1>2, <1>3, <1>4, <1>5, <1>6, <1>7, <1>8, <1>9

LEMMA BuilderType ==
    ASSUME NEW b \in Builders
    PROVE  /\ IsSeq(b.template) /\ IsSeq(PathBytes[b.path]) /\ b.path \in {"compute", "abort"}
           /\ IsSeq(Tapleaf(b)) /\ Len(Tapleaf(b)) = (IF b.tapleaf = None THEN 0 ELSE 2)
<1>1. b.template \in Seq(Nat) /\ b.path \in {"compute", "abort"}
  BY BuildersAssumption DEF PathBytes
<1>2. PathBytes[b.path] = <<99, 111>> \/ PathBytes[b.path] = <<97>>
  BY <1>1 DEF PathBytes
<1>3. IsSeq(PathBytes[b.path])
  BY <1>2, ShortSeqs
<1>4. IsSeq(Tapleaf(b)) /\ Len(Tapleaf(b)) = (IF b.tapleaf = None THEN 0 ELSE 2)
  BY ShortSeqs DEF Tapleaf
<1> QED BY <1>1, <1>3, <1>4 DEF IsSeq

\* The core ends with the nonce; with template and path known it also determines
\* whether there is a tapleaf, and which.
LEMMA CoreBinds ==
    ASSUME NEW b \in Builders, NEW c \in Builders, CtxCore(b) = CtxCore(c)
    PROVE  /\ b.ycols = c.ycols /\ b.nonce = c.nonce
           /\ b.template = c.template /\ b.path = c.path => b.tapleaf = c.tapleaf
<1> DEFINE A(d) == Cat(<<d.vk, d.x>>, Tapleaf(d))
           B(d) == Cat(A(d), d.template)
           C(d) == Cat(B(d), PathBytes[d.path])
           E(d) == <<d.ycols, d.nonce>>
<1>1. Cat(C(b), E(b)) = Cat(C(c), E(c))
  BY DEF CtxCore, Cat
<1>2. ASSUME NEW d \in Builders
      PROVE  /\ IsSeq(A(d))
             /\ IsSeq(B(d)) /\ IsSeq(C(d)) /\ IsSeq(E(d)) /\ Len(E(d)) = 2
  <2>1. IsSeq(A(d))
    <3> DEFINE h == <<d.vk, d.x>>
    <3>1. IsSeq(h) /\ IsSeq(Tapleaf(d))
      BY BuilderType, ShortSeqs
    <3> HIDE DEF h
    <3> QED BY <3>1, ConcatSeq DEF h
  <2> HIDE DEF A
  <2>2. IsSeq(B(d))
    BY <2>1, BuilderType, ConcatSeq
  <2> HIDE DEF B
  <2>3. IsSeq(C(d))
    BY <2>2, BuilderType, ConcatSeq
  <2>4. IsSeq(E(d)) /\ Len(E(d)) = 2
    BY ShortSeqs
  <2> QED BY <2>1, <2>2, <2>3, <2>4
<1> HIDE DEF A, C, E
<1>3. C(b) = C(c) /\ E(b) = E(c)
  BY <1>1, <1>2, SeqSplitEnd
<1>4. ASSUME b.template = c.template, b.path = c.path
      PROVE  b.tapleaf = c.tapleaf
  <2>1. B(b) = B(c)
    <3> HIDE DEF B
    <3>1. Cat(B(b), PathBytes[b.path]) = Cat(B(c), PathBytes[b.path])
      BY <1>3, <1>4 DEF C
    <3> QED BY <3>1, <1>2, BuilderType, SeqSplitEnd
  <2>2. A(b) = A(c)
    <3>1. Cat(A(b), b.template) = Cat(A(c), b.template)
      BY <2>1, <1>4
    <3> QED BY <3>1, <1>2, BuilderType, SeqSplitEnd
  <2>3. Tapleaf(b) = Tapleaf(c)
    <3>1. Cat(<<b.vk, b.x>>, Tapleaf(b)) = Cat(<<c.vk, c.x>>, Tapleaf(c))
      BY <2>2 DEF A
    <3> DEFINE hb == <<b.vk, b.x>>
               hc == <<c.vk, c.x>>
    <3>2. IsSeq(hb) /\ IsSeq(hc) /\ Len(hb) = Len(hc)
      BY ShortSeqs
    <3> HIDE DEF hb, hc
    <3> QED BY <3>1, <3>2, BuilderType, SeqSplit DEF hb, hc
  <2>4. b.tapleaf = None <=> c.tapleaf = None
    BY <2>3, BuilderType
  <2>5. CASE b.tapleaf = None
    BY <2>4, <2>5
  <2>6. CASE b.tapleaf # None
    BY <2>3, <2>4, <2>6 DEF Tapleaf
  <2> QED BY <2>5, <2>6
<1>5. b.ycols = c.ycols /\ b.nonce = c.nonce
  BY <1>3 DEF E
<1> QED BY <1>4, <1>5

\* The context hash determines the core and the layers behind it.
LEMMA CtxHashBinds ==
    ASSUME NEW b, NEW c, NEW k, NEW l, NEW m, NEW n, CtxHash(b, k, l) = CtxHash(c, m, n)
    PROVE  CtxCore(b) = CtxCore(c) /\ Cat(Layer(k), Layer(l)) = Cat(Layer(m), Layer(n))
<1> DEFINE D(d) == <<Digest("PVUGC/CTX_CORE", CtxCore(d))>>
<1>1. \A h : IsSeq(Layer(h))
  BY ShortSeqs DEF Layer
<1>2. Cat(Cat(D(b), Layer(k)), Layer(l)) = Cat(Cat(D(c), Layer(m)), Layer(n))
  BY DEF CtxHash, Digest, Cat
<1>3. IsSeq(D(b)) /\ IsSeq(D(c)) /\ Len(D(b)) = Len(D(c))
  BY ShortSeqs
<1> HIDE DEF D
<1>4. Cat(D(b), Cat(Layer(k), Layer(l))) = Cat(D(c), Cat(Layer(m), Layer(n)))
  BY <1>1, <1>2, <1>3, ConcatNested
<1>5. IsSeq(Cat(Layer(k), Layer(l))) /\ IsSeq(Cat(Layer(m), Layer(n)))
  BY <1>1, ConcatSeq
<1>6. D(b) = D(c) /\ Cat(Layer(k), Layer(l)) = Cat(Layer(m), Layer(n))
  BY <1>3, <1>4, <1>5, SeqSplit
<1> QED BY <1>6 DEF D, Digest

\* The AD_core a verifier builds determines the instance, its arms and the point T.
LEMMA AdBinds ==
    ASSUME NEW b \in Builders, NEW c \in Builders, NEW arms, NEW brms, NEW point, NEW q,
           IsSeq(arms.y), IsSeq(brms.y), AdOf(b, arms, point) = AdOf(c, brms, q)
    PROVE  b = c /\ arms.y = brms.y /\ arms.delta = brms.delta /\ point = q
<1> DEFINE Ad(d, a, p) ==
             [vk |-> d.vk, x |-> d.x, ctx |-> CtxOf(d, a, p),
              tapleaf |-> IF d.tapleaf = None THEN 0 ELSE d.tapleaf,
              version |-> d.version, template |-> d.template, path |-> d.path,
              share_index |-> 0, t_i |-> <<p>>, t_aggregate |-> <<p>>,
              armed_bases |-> a.y, armed_delta |-> <<a.delta>>,
              gs_digest |-> GsDigest]
<1>1. Serialize(Ad(b, arms, point)) = Serialize(Ad(c, brms, q))
  BY DEF AdOf
<1>2. IsAdCore(Ad(b, arms, point)) /\ IsAdCore(Ad(c, brms, q))
  BY BuilderType, ShortSeqs DEF IsAdCore
<1>3. /\ b.vk = c.vk /\ b.x = c.x /\ CtxOf(b, arms, point) = CtxOf(c, brms, q)
      /\ b.version = c.version /\ b.template = c.template
      /\ PathBytes[b.path] = PathBytes[c.path]
      /\ <<point>> = <<q>> /\ arms.y = brms.y /\ <<arms.delta>> = <<brms.delta>>
  <2>1. \A ad, bd : IsAdCore(ad) /\ IsAdCore(bd) /\ Serialize(ad) = Serialize(bd) =>
           /\ ad.vk = bd.vk /\ ad.x = bd.x /\ ad.ctx = bd.ctx
           /\ ad.version = bd.version
           /\ ad.template = bd.template /\ PathBytes[ad.path] = PathBytes[bd.path]
           /\ ad.t_i = bd.t_i
           /\ ad.armed_bases = bd.armed_bases /\ ad.armed_delta = bd.armed_delta
    BY SerializeBinds
  <2>2. PICK ad, bd : ad = Ad(b, arms, point) /\ bd = Ad(c, brms, q)
    OBVIOUS
  <2>3. /\ ad.vk = bd.vk /\ ad.x = bd.x /\ ad.ctx = bd.ctx
        /\ ad.version = bd.version
        /\ ad.template = bd.template /\ PathBytes[ad.path] = PathBytes[bd.path]
        /\ ad.t_i = bd.t_i
        /\ ad.armed_bases = bd.armed_bases /\ ad.armed_delta = bd.armed_delta
    <3> HIDE DEF Ad
    <3> QED BY <1>1, <1>2, <2>1, <2>2
  <2> QED BY <2>2, <2>3
<1> HIDE DEF Ad
<1>4. b.path = c.path
  <2>1. Len(<<99, 111>>) = 2 /\ Len(<<97>>) = 1
    OBVIOUS
  <2> QED BY <1>3, <2>1, BuilderType DEF PathBytes
<1>5. CtxCore(b) = CtxCore(c)
  BY <1>3, CtxHashBinds DEF CtxOf
<1>6. b.ycols = c.ycols /\ b.nonce = c.nonce /\ b.tapleaf = c.tapleaf
  BY <1>3, <1>4, <1>5, CoreBinds
<1>7. b = c
  BY <1>3, <1>4, <1>6, BuildersAssumption
<1> QED BY <1>3, <1>7

\* Pieces an accepting verifier has put together were published together.
LEMMA IInvAcceptedAsAttested == IInv => AcceptedAsAttested
<1> SUFFICES ASSUME IInv, NEW o \in Collected, Accepts(o)
             PROVE  \E i \in DOMAIN sessions : o = Pieces(i)
  BY DEF AcceptedAsAttested
<1>1. /\ o.b \in Builders
      /\ o = [b |-> o.b, arms |-> o.arms, point |-> o.point, t |-> o.t, ct |-> o.ct,
              poce |-> o.poce, ve |-> o.ve]
      /\ \E i \in DOMAIN sessions : o.arms = sessions[i].arms
      /\ \E i \in DOMAIN sessions : o.t = sessions[i].t
      /\ \E i \in DOMAIN sessions : o.poce = sessions[i].poce
      /\ \E i \in DOMAIN sessions : o.ve = sessions[i].ve
  BY DEF Collected
<1>2. PICK k \in DOMAIN sessions, l \in DOMAIN sessions :
         o.poce = sessions[k].poce /\ o.ve = sessions[l].ve
  BY <1>1
<1> DEFINE m == sessions[k]
           n == sessions[l]
<1>3. Attested(m) /\ Attested(n)
  BY DEF IInv
<1>4. /\ o.b.x \in Statements /\ o.t \in Scalars
      /\ o.arms = [y |-> o.arms.y, delta |-> o.arms.delta]
      /\ o.arms.y \in Seq(Scalars) /\ o.arms.delta \in Scalars
  BY <1>1, ConstantTypes, AttestedType
<1>5. /\ m.b.x \in Statements /\ m.arms \in ArmsOf(m.b.x)
      /\ m.arms = [y |-> m.arms.y, delta |-> m.arms.delta]
      /\ m.arms.y \in Seq(Scalars) /\ Len(m.arms.y) = Len(Columns[m.b.x])
      /\ m.arms.delta \in Scalars /\ m.t \in Scalars
      /\ m.poce.com.y \in Seq(Scalars) /\ Len(m.poce.com.y) = Len(Columns[m.b.x])
      /\ n.arms.y \in Seq(Scalars)
  BY AttestedType
<1>6. /\ Pieces(k).b = m.b /\ Pieces(k).arms = m.arms /\ Pieces(k).point = m.point
      /\ Pieces(k).t = m.t /\ Pieces(k).ct = m.ct
      /\ Pieces(k).poce = m.poce /\ Pieces(k).ve = m.ve
      /\ Pieces(k) = [b |-> m.b, arms |-> m.arms, point |-> m.point, t |-> m.t,
                      ct |-> m.ct, poce |-> m.poce, ve |-> m.ve]
  BY DEF Pieces
<1>7. o.poce = m.poce /\ o.ve = n.ve
  BY <1>2
<1> HIDE DEF m, n
<1>8. /\ Len(Columns[o.b.x]) = Len(o.arms.y) /\ Len(Columns[o.b.x]) = Len(m.poce.com.y)
      /\ [transcript |-> Transcript(o.b.x, o.arms, o.t, m.poce.com, m.poce.tcom,
                                    CtxOf(o.b, o.arms, o.point), o.ct),
          challenge  |-> m.poce.challenge] \in oracle
      /\ n.ve.ad = AdOf(o.b, o.arms, o.point) /\ n.ve.ct = o.ct
  BY <1>7 DEF Accepts, PoceHolds, VeHolds
<1>9. Transcript(o.b.x, o.arms, o.t, m.poce.com, m.poce.tcom,
                 CtxOf(o.b, o.arms, o.point), o.ct)
        = Transcript(m.b.x, m.arms, m.t, m.poce.com, m.poce.tcom,
                     CtxOf(m.b, m.arms, m.point), m.ct)
  <2>1. [transcript |-> Transcript(m.b.x, m.arms, m.t, m.poce.com, m.poce.tcom,
                                   CtxOf(m.b, m.arms, m.point), m.ct),
         challenge  |-> m.poce.challenge] \in oracle
    BY <1>3 DEF Attested
  <2> QED BY <1>8, <2>1 DEF IInv
<1>10. o.t = m.t /\ o.ct = m.ct
  <2>1. SameTranscript(o.b.x, m.b.x, o.arms, m.arms, o.t, m.t, m.poce.com, m.poce.tcom,
                       CtxOf(o.b, o.arms, o.point), CtxOf(m.b, m.arms, m.point),
                       o.ct, m.ct)
    BY <1>4, <1>5, <1>8, <1>9 DEF SameTranscript
  <2> QED BY <2>1, TranscriptBinds
<1>11. n.ct = m.ct /\ AdOf(o.b, o.arms, o.point) = AdOf(m.b, m.arms, m.point)
  BY <1>3, <1>8, <1>10 DEF Attested
<1>12. o.b = m.b /\ o.arms = m.arms /\ o.point = m.point
  <2>1. /\ o.b \in Builders /\ m.b \in Builders
        /\ IsSeq(o.arms.y) /\ IsSeq(m.arms.y)
    BY <1>1, <1>3, <1>4, <1>5 DEF Attested, IsSeq
  <2>2. /\ o.b = m.b /\ o.arms.y = m.arms.y /\ o.arms.delta = m.arms.delta
        /\ o.point = m.point
    BY <1>11, <2>1, AdBinds
  <2> QED BY <1>4, <1>5, <2>2
<1>13. o.ve = m.ve
  <2>1. /\ n.ve = [ad |-> AdOf(n.b, n.arms, n.point),
                   t |-> ExtractT(AdOf(n.b, n.arms, n.point)), ct |-> n.ct]
        /\ m.ve = [ad |-> AdOf(m.b, m.arms, m.point),
                   t |-> ExtractT(AdOf(m.b, m.arms, m.point)), ct |-> m.ct]
        /\ AdOf(n.b, n.arms, n.point) = AdOf(m.b, m.arms, m.point)
    BY <1>3, <1>8, <1>11 DEF Attested
  <2> QED BY <1>7, <1>11, <2>1
<1>14. o = Pieces(k)
  BY <1>1, <1>6, <1>7, <1>10, <1>12, <1>13
<1> QED BY <1>14

\* For every field and any number of columns, sessions and restarts: what a verifier
\* accepts is one published attestation, taken for the instance it was made for.
THEOREM AcceptedAlwaysAttested == Spec => []AcceptedAsAttested
BY Invariance, IInvAcceptedAsAttested, PTL

--------------------------------------------------------------------------------
(***************************************************************************)
(* The registry and the instances it lets open.                            *)
(***************************************************************************)
\* In one life of the process a nonce opens one instance; the registry holds those of the
\* present life and is lost with it.
HistoryInv ==
    /\ registry \subseteq {b.nonce : b \in Builders}
    /\ life \in 1 .. MaxLives
    /\ opened \subseteq [b : Builders, life : 1 .. MaxLives]
    /\ \A p \in opened : p.life <= life /\ (p.life = life => p.b.nonce \in registry)
    /\ \A p, q \in opened : p.life = q.life /\ p.b.nonce = q.b.nonce => p = q

LEMMA HistoryInit == Init => HistoryInv
BY BoundAssumption DEF Init, HistoryInv

LEMMA HistoryStep == HistoryInv /\ [Next]_vars => HistoryInv'
<1> SUFFICES ASSUME HistoryInv, [Next]_vars PROVE HistoryInv'
  OBVIOUS
<1>1. ASSUME NEW b \in Builders, Open(b) PROVE HistoryInv'
  <2> DEFINE new == [b |-> b, life |-> life]
  <2>1. /\ b.nonce \notin registry /\ registry' = registry \cup {b.nonce}
        /\ opened' = opened \cup {new} /\ life' = life
    BY <1>1 DEF Open
  <2>2. new \in [b : Builders, life : 1 .. MaxLives]
    BY DEF HistoryInv
  <2>3. new.b = b /\ new.life = life
    OBVIOUS
  <2> HIDE DEF new
  <2>4. \A p \in opened' :
           p.life <= life' /\ (p.life = life' => p.b.nonce \in registry')
    BY <2>1, <2>3 DEF HistoryInv
  <2>5. \A p, q \in opened' : p.life = q.life /\ p.b.nonce = q.b.nonce => p = q
    BY <2>1, <2>3 DEF HistoryInv
  <2> QED BY <2>1, <2>2, <2>4, <2>5 DEF HistoryInv
<1>2. CASE Restart
  <2>1. life < MaxLives /\ life' = life + 1 /\ registry' = {} /\ opened' = opened
    BY <1>2 DEF Restart
  <2>2. \A p \in opened : p.life \in 1 .. MaxLives /\ p.life <= life
    BY DEF HistoryInv
  <2> QED BY <2>1, <2>2, BoundAssumption DEF HistoryInv
<1>3. CASE UNCHANGED <<registry, life, opened>>
  BY <1>3 DEF HistoryInv
<1>4. CASE UNCHANGED vars
  BY <1>3, <1>4 DEF vars
<1> QED BY <1>1, <1>2, <1>3, <1>4 DEF Next, Arm, Mix, Seal, Attest

THEOREM History == Spec => []HistoryInv
BY HistoryInit, HistoryStep, PTL DEF Spec

\* The NUMS challenge ends with the nonce.
LEMMA NumsBinds ==
    ASSUME NEW b \in Builders, NEW c \in Builders, NumsChallenge(b) = NumsChallenge(c)
    PROVE  b.nonce = c.nonce
<1> DEFINE A(d) == Cat(<<d.vk, d.x>>, Tapleaf(d))
           E(d) == <<d.nonce>>
<1>1. Cat(A(b), E(b)) = Cat(A(c), E(c))
  BY DEF NumsChallenge, Digest, Cat
<1>2. ASSUME NEW d \in Builders PROVE IsSeq(A(d)) /\ IsSeq(E(d)) /\ Len(E(d)) = 1
  <2> DEFINE h == <<d.vk, d.x>>
  <2>1. IsSeq(h) /\ IsSeq(Tapleaf(d)) /\ IsSeq(E(d)) /\ Len(E(d)) = 1
    BY BuilderType, ShortSeqs
  <2> HIDE DEF h, E
  <2> QED BY <2>1, ConcatSeq DEF h
<1> HIDE DEF A, E
<1>3. E(b) = E(c)
  BY <1>1, <1>2, SeqSplitEnd
<1> QED BY <1>3 DEF E

\* Which layers there are shows in their number and their tags.
LEMMA LayersBind ==
    ASSUME NEW k \in {None, ArmingPkgHash(<< 1 >>)}, NEW m \in {None, ArmingPkgHash(<< 1 >>)},
           NEW l \in {None, PresigPkgHash(<< 1 >>)}, NEW n \in {None, PresigPkgHash(<< 1 >>)},
           Cat(Layer(k), Layer(l)) = Cat(Layer(m), Layer(n))
    PROVE  k = m /\ l = n
<1> DEFINE arming == ArmingPkgHash(<< 1 >>)
           presig == PresigPkgHash(<< 1 >>)
<1>1. arming # None /\ presig # None
  BY NoneAssumption
<1>2. arming # presig
  <2>1. "PVUGC/ARM" # "PVUGC/PRESIG"
    OBVIOUS
  <2> QED BY <2>1 DEF ArmingPkgHash, PresigPkgHash, Digest
<1> HIDE DEF arming, presig
<1>3. /\ Len(Cat(Layer(k), Layer(l))) = Len(Layer(k)) + Len(Layer(l))
      /\ Len(Cat(Layer(m), Layer(n))) = Len(Layer(m)) + Len(Layer(n))
  <2>1. \A h : IsSeq(Layer(h))
    BY ShortSeqs DEF Layer
  <2> QED BY <2>1, ConcatSeq
<1>4. \A h : Len(Layer(h)) = IF h = None THEN 0 ELSE 1
  BY ShortSeqs DEF Layer
<1>5. (k = None <=> m = None) => k = m /\ l = n
  BY <1>1, <1>3, <1>4 DEF arming, presig
<1>6. ASSUME k = None, m # None PROVE FALSE
  <2>1. m = arming
    BY <1>6 DEF arming
  <2>2. Len(Layer(l)) = 1 + Len(Layer(n))
    <3>1. Len(Layer(k)) = 0 /\ Len(Layer(m)) = 1
      BY <1>4, <1>6
    <3>2. (Len(Layer(l)) = 0 \/ Len(Layer(l)) = 1) /\ (Len(Layer(n)) = 0 \/ Len(Layer(n)) = 1)
      BY <1>4
    <3>3. Len(Layer(k)) + Len(Layer(l)) = Len(Layer(m)) + Len(Layer(n))
      BY <1>3
    <3> QED BY <3>1, <3>2, <3>3
  <2>3. l # None /\ n = None
    BY <1>4, <2>2
  <2>4. l = presig
    BY <2>3 DEF presig
  <2>5. << >> \o <<presig>> = <<arming>> \o << >>
    BY <1>1, <1>6, <2>1, <2>3, <2>4 DEF Cat, Layer
  <2> QED BY <1>2, <2>5
<1>7. ASSUME k # None, m = None PROVE FALSE
  <2>1. k = arming
    BY <1>7 DEF arming
  <2>2. Len(Layer(n)) = 1 + Len(Layer(l))
    <3>1. Len(Layer(k)) = 1 /\ Len(Layer(m)) = 0
      BY <1>4, <1>7
    <3>2. (Len(Layer(l)) = 0 \/ Len(Layer(l)) = 1) /\ (Len(Layer(n)) = 0 \/ Len(Layer(n)) = 1)
      BY <1>4
    <3>3. Len(Layer(k)) + Len(Layer(l)) = Len(Layer(m)) + Len(Layer(n))
      BY <1>3
    <3> QED BY <3>1, <3>2, <3>3
  <2>3. n # None /\ l = None
    BY <1>4, <2>2
  <2>4. n = presig
    BY <2>3 DEF presig
  <2>5. <<arming>> \o << >> = << >> \o <<presig>>
    BY <1>1, <1>7, <2>1, <2>3, <2>4 DEF Cat, Layer
  <2> QED BY <1>2, <2>5
<1> QED BY <1>5, <1>6, <1>7

LEMMA HistoryDistinct == HistoryInv => InstancesDistinct
<1> DEFINE Layers == {<<None, None>>, <<ArmingPkgHash(<< 1 >>), None>>,
                      <<None, PresigPkgHash(<< 1 >>)>>,
                      <<ArmingPkgHash(<< 1 >>), PresigPkgHash(<< 1 >>)>>}
<1> SUFFICES ASSUME HistoryInv, NEW p \in opened, NEW q \in opened, p.life = q.life
             PROVE  /\ NumsChallenge(p.b) = NumsChallenge(q.b) => p = q
                    /\ \A l, m \in Layers :
                          CtxHash(p.b, l[1], l[2]) = CtxHash(q.b, m[1], m[2]) =>
                              p = q /\ l = m
  BY DEF InstancesDistinct
<1>1. p.b \in Builders /\ q.b \in Builders /\ (p.b.nonce = q.b.nonce => p = q)
  BY DEF HistoryInv
<1>2. NumsChallenge(p.b) = NumsChallenge(q.b) => p = q
  BY <1>1, NumsBinds
<1>3. \A l \in Layers : /\ l = <<l[1], l[2]>>
                        /\ l[1] \in {None, ArmingPkgHash(<< 1 >>)}
                        /\ l[2] \in {None, PresigPkgHash(<< 1 >>)}
  OBVIOUS
<1>4. ASSUME NEW l \in Layers, NEW m \in Layers,
             CtxHash(p.b, l[1], l[2]) = CtxHash(q.b, m[1], m[2])
      PROVE  p = q /\ l = m
  <2>1. /\ CtxCore(p.b) = CtxCore(q.b)
        /\ Cat(Layer(l[1]), Layer(l[2])) = Cat(Layer(m[1]), Layer(m[2]))
    BY <1>4, CtxHashBinds
  <2>2. p = q
    BY <1>1, <2>1, CoreBinds
  <2>3. l[1] = m[1] /\ l[2] = m[2]
    BY <1>3, <2>1, LayersBind
  <2> QED BY <1>3, <2>2, <2>3
<1> QED BY <1>2, <1>4

\* Instances opened in one life of the process never share a NUMS key or a context hash,
\* and layers are never taken for each other, for any builders and any number of lives.
THEOREM InstancesAlwaysDistinct == Spec => []InstancesDistinct
BY History, HistoryDistinct, PTL

\* Arms, commitments and answers that are drafted or published fit the statement of their
\* instance.
THEOREM TypeCorrect == Spec => []TypeOK
<1>1. ASSUME IInv, HistoryInv PROVE TypeOK
  <2>1. ASSUME NEW i \in DOMAIN sessions
        PROVE  /\ sessions[i].b \in Builders
               /\ sessions[i].arms \in ArmsOf(sessions[i].b.x)
               /\ sessions[i].poce.com \in ArmsOf(sessions[i].b.x)
               /\ sessions[i].poce.challenge \in Challenges
               /\ sessions[i].poce.response \in Scalars
    <3> DEFINE n == sessions[i]
    <3>1. Attested(n)
      BY <1>1 DEF IInv
    <3> HIDE DEF n
    <3>2. PICK s \in Nonces, k_rho \in Nonces, k_s \in Nonces, c \in Challenges :
             n.poce = [com |-> Commitments(n.b.x, k_rho), tcom |-> Times(One, k_s),
                       challenge |-> c, response |-> Plus(k_rho, Times(c, n.rho)),
                       t_response |-> Plus(k_s, Times(c, s))]
      BY <3>1 DEF Attested
    <3>3. n.b \in Builders /\ n.b.x \in Statements /\ n.rho \in Scalars
          /\ n.arms \in ArmsOf(n.b.x)
      BY <3>1, ConstantTypes DEF Attested
    <3>4. n.poce.com \in ArmsOf(n.b.x)
      BY <3>2, <3>3, ConstantTypes, RaisedType DEF Commitments
    <3>5. Plus(k_rho, Times(c, n.rho)) \in Scalars
      BY <3>3, ConstantTypes, Closure
    <3> QED BY <3>2, <3>3, <3>4, <3>5 DEF n
  <2>2. draft # None =>
          /\ draft.b \in Builders
          /\ draft.arms # None => draft.arms \in ArmsOf(draft.b.x)
          /\ draft.rho \in Exponents \cup {None}
    BY <1>1 DEF IInv, Drafted
  <2> QED BY <1>1, <2>1, <2>2 DEF TypeOK, HistoryInv
<1>2. IInv /\ HistoryInv => TypeOK
  BY <1>1
<1> QED BY Invariance, History, <1>2, PTL

================================================================================
