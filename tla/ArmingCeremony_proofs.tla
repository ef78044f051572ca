------------------------- MODULE ArmingCeremony_proofs -------------------------
(***************************************************************************)
(* Proofs about ArmingCeremony, for any set of operators and any bound on  *)
(* what they draw, in order and out of order.                              *)
(***************************************************************************)
EXTENDS ArmingCeremony, TLAPS

--------------------------------------------------------------------------------
(***************************************************************************)
(* The inductive invariant.  The safety properties compare values taken    *)
(* from the operators' records at different moments; these conjuncts say   *)
(* which of them can still have changed in between.                        *)
(***************************************************************************)
\* What must have happened before a value is there.
ProgressInv ==
    /\ presig # None => target # None
    /\ ctx # None => presig # None
    /\ attested # {} => ctx # None
    /\ package # None => attested = Operators
    /\ signed # {} => package # None
    /\ funded => signed = Operators
    /\ \A p \in Operators : recovered[p] # None => funded /\ proof
    /\ spend # None => \A p \in Operators : recovered[p] # None

\* A record holds the last value drawn, and shares are drawn in ascending order:
\* of the values that point, pre-signature and record had, a later one is never
\* smaller.
DrawInv ==
    /\ \A p \in Operators :
          /\ arming[p].share = IF draws[p].share = 0 THEN None ELSE draws[p].share
          /\ arming[p].arms = IF draws[p].rho = 0 THEN None ELSE draws[p].rho
    /\ target # None => \A p \in Operators :
          draws[p].share # 0 /\ draws[p].rho # 0 /\ target[p] <= draws[p].share
    /\ presig # None => \A p \in Operators :
          target[p] <= presig[p] /\ presig[p] <= draws[p].share

\* Nothing a package was made from changes once it is frozen.
PackageInv ==
    package # None => package = [ctx |-> ctx, target |-> target, armers |-> arming]

\* An attested ciphertext holds the share its AD_core commits to, and a recovered
\* share came out of such a ciphertext with the AD_core of its package.
CipherInv ==
    /\ \A p \in attested : /\ arming[p].cipher \in Ciphers
                           /\ arming[p].cipher.share = arming[p].cipher.ad.t
    /\ \A p \in Operators : recovered[p] # None => recovered[p] = arming[p].share

\* In order, what was summed is what is in the records, and what was attested
\* fits them.
OrderInv ==
    inOrder =>
        /\ target # None => \A p \in Operators : /\ arming[p].share = target[p]
                                                 /\ arming[p].key = arming[p].arms
        /\ presig # None => presig = target
        /\ \A p \in attested :
              AttestationHolds(arming[p], AdCore(ctx, p, arming[p].share, target, arming[p]))

IInv == TypeOK /\ ProgressInv /\ DrawInv /\ PackageInv /\ CipherInv /\ OrderInv /\ NeverInvalid

LEMMA IInvInit == Init => IInv
<1> SUFFICES ASSUME Init PROVE IInv
  OBVIOUS
<1>1. Unarmed \in Armings /\ [share |-> 0, rho |-> 0] \in [share : 0 .. MaxDraws, rho : 0 .. MaxDraws]
  BY OperatorsAssumption DEF Unarmed, Armings, Maybe
<1>2. TypeOK
  BY <1>1 DEF Init, TypeOK, Maybe
<1>3. ProgressInv /\ PackageInv /\ CipherInv /\ OrderInv /\ NeverInvalid
  BY NoneAssumption, OperatorsAssumption
     DEF Init, ProgressInv, PackageInv, CipherInv, OrderInv, NeverInvalid
<1>4. DrawInv
  BY DEF Init, DrawInv, Unarmed
<1> QED BY <1>2, <1>3, <1>4 DEF IInv

--------------------------------------------------------------------------------
(***************************************************************************)
(* One lemma per action of an operator.                                    *)
(***************************************************************************)
\* Nothing after the package has happened while there is none.
LEMMA BeforePackage ==
    ASSUME IInv, package = None
    PROVE  signed = {} /\ ~ funded /\ \A p \in Operators : recovered[p] = None
BY OperatorsAssumption DEF IInv, ProgressInv, TypeOK

\* A record with one component replaced.
LEMMA RecordType ==
    ASSUME IInv, NEW p \in Operators, NEW d \in Draws, NEW c \in Ciphers
    PROVE  /\ [arming EXCEPT ![p].share = d] \in [Operators -> Armings]
           /\ [arming EXCEPT ![p].arms = d] \in [Operators -> Armings]
           /\ [arming EXCEPT ![p].key = d] \in [Operators -> Armings]
           /\ [arming EXCEPT ![p].cipher = c] \in [Operators -> Armings]
BY DEF IInv, TypeOK, Armings, Maybe

\* One more draw.
LEMMA DrawsType ==
    ASSUME IInv, NEW p \in Operators
    PROVE  LET Counts == [Operators -> [share : 0 .. MaxDraws, rho : 0 .. MaxDraws]]
           IN  /\ draws[p].share < MaxDraws => [draws EXCEPT ![p].share = @ + 1] \in Counts
               /\ draws[p].rho < MaxDraws => [draws EXCEPT ![p].rho = @ + 1] \in Counts
<1>1. draws[p] \in [share : 0 .. MaxDraws, rho : 0 .. MaxDraws]
  BY DEF IInv, TypeOK
<1>2. draws[p].share < MaxDraws => draws[p].share + 1 \in 0 .. MaxDraws
  BY <1>1, OperatorsAssumption
<1>3. draws[p].rho < MaxDraws => draws[p].rho + 1 \in 0 .. MaxDraws
  BY <1>1, OperatorsAssumption
<1> QED BY <1>1, <1>2, <1>3 DEF IInv, TypeOK

LEMMA DrawShareStep ==
    ASSUME IInv, NEW p \in Operators, DrawShare(p)
    PROVE  IInv'
<1> USE DEF DrawShare
<1>1. draws[p].share \in Nat /\ draws[p].share + 1 \in Draws
  BY OperatorsAssumption DEF IInv, TypeOK, Draws
<1>2. draws' \in [Operators -> [share : 0 .. MaxDraws, rho : 0 .. MaxDraws]]
  BY DrawsType DEF IInv, TypeOK
<1>3. arming' \in [Operators -> Armings]
  BY <1>1 DEF IInv, TypeOK, Armings, Maybe
<1>4. TypeOK'
  BY <1>2, <1>3 DEF IInv, TypeOK
<1>5. ProgressInv'
  BY DEF IInv, ProgressInv
<1>6. DrawInv'
  <2>1. \A q \in Operators :
           /\ arming'[q].arms = arming[q].arms /\ draws'[q].rho = draws[q].rho
           /\ q # p => arming'[q] = arming[q] /\ draws'[q] = draws[q]
    BY DEF IInv, TypeOK, Armings
  <2>2. arming'[p].share = draws[p].share + 1 /\ draws'[p].share = draws[p].share + 1
    BY DEF IInv, TypeOK, Armings
  <2>3. target # None => \A q \in Operators : target[q] \in Nat
    BY DEF IInv, TypeOK, Maybe, Shares, Draws
  <2>4. presig # None => \A q \in Operators : presig[q] \in Nat
    BY DEF IInv, TypeOK, Maybe, Shares, Draws
  <2> QED BY <1>1, <2>1, <2>2, <2>3, <2>4 DEF IInv, DrawInv
<1>7. PackageInv' /\ CipherInv' /\ NeverInvalid'
  BY BeforePackage DEF IInv, TypeOK, Armings, PackageInv, CipherInv, NeverInvalid
<1>8. OrderInv'
  BY DEF IInv, TypeOK, ProgressInv, OrderInv
<1> QED BY <1>4, <1>5, <1>6, <1>7, <1>8 DEF IInv

LEMMA ArmColumnsStep ==
    ASSUME IInv, NEW p \in Operators, ArmColumns(p)
    PROVE  IInv'
<1> USE DEF ArmColumns
<1>1. draws[p].rho \in Nat /\ draws[p].rho + 1 \in Draws
  BY OperatorsAssumption DEF IInv, TypeOK, Draws
<1>2. draws' \in [Operators -> [share : 0 .. MaxDraws, rho : 0 .. MaxDraws]]
  BY DrawsType DEF IInv, TypeOK
<1>3. arming' \in [Operators -> Armings]
  BY <1>1 DEF IInv, TypeOK, Armings, Maybe
<1>4. TypeOK'
  BY <1>2, <1>3 DEF IInv, TypeOK
<1>5. ProgressInv'
  BY DEF IInv, ProgressInv
<1>6. DrawInv'
  <2>1. \A q \in Operators :
           /\ arming'[q].share = arming[q].share /\ draws'[q].share = draws[q].share
           /\ q # p => arming'[q] = arming[q] /\ draws'[q] = draws[q]
    BY DEF IInv, TypeOK, Armings
  <2>2. arming'[p].arms = draws[p].rho + 1 /\ draws'[p].rho = draws[p].rho + 1
    BY DEF IInv, TypeOK, Armings
  <2> QED BY <1>1, <2>1, <2>2 DEF IInv, DrawInv
<1>7. PackageInv' /\ CipherInv' /\ NeverInvalid'
  BY BeforePackage DEF IInv, TypeOK, Armings, PackageInv, CipherInv, NeverInvalid
<1>8. OrderInv'
  BY DEF IInv, TypeOK, ProgressInv, OrderInv
<1> QED BY <1>4, <1>5, <1>6, <1>7, <1>8 DEF IInv

LEMMA ComputeKeyStep ==
    ASSUME IInv, NEW p \in Operators, ComputeKey(p)
    PROVE  IInv'
<1> USE DEF ComputeKey
<1>1. arming' \in [Operators -> Armings]
  BY DEF IInv, TypeOK, Armings, Maybe
<1>2. \A q \in Operators :
         /\ arming'[q].share = arming[q].share /\ arming'[q].arms = arming[q].arms
         /\ arming'[q].cipher = arming[q].cipher
         /\ q # p => arming'[q].key = arming[q].key
  BY DEF IInv, TypeOK, Armings
<1>3. arming'[p].key = arming[p].arms
  BY DEF IInv, TypeOK, Armings
<1>4. TypeOK' /\ ProgressInv' /\ DrawInv'
  BY <1>1, <1>2 DEF IInv, TypeOK, ProgressInv, DrawInv
<1>5. PackageInv' /\ CipherInv' /\ NeverInvalid'
  BY <1>2 DEF IInv, TypeOK, PackageInv, CipherInv, NeverInvalid
\* In order the key was that of the arms already, once anything is attested.
<1>6. OrderInv'
  <2> SUFFICES ASSUME inOrder PROVE OrderInv'
    BY DEF OrderInv
  <2>1. target # None => \A q \in Operators :
           arming'[q].key = arming[q].key /\ arming[q].key = arming[q].arms
    BY <1>2, <1>3 DEF IInv, OrderInv
  <2>2. attested # {} => target # None
    BY DEF IInv, ProgressInv
  <2> QED BY <1>2, <2>1, <2>2 DEF IInv, TypeOK, OrderInv, AttestationHolds, AdCore
<1> QED BY <1>4, <1>5, <1>6 DEF IInv

LEMMA EncryptStep ==
    ASSUME IInv, NEW p \in Operators, NEW d \in 1 .. draws[p].share, Encrypt(p, d)
    PROVE  IInv'
<1> USE DEF Encrypt
<1> DEFINE cipher == [key   |-> arming[p].key,
                      ad    |-> AdCore(ctx, p, arming[p].share, target, arming[p]),
                      share |-> d]
<1>1. d \in Draws
  <2>1. draws[p].share \in 0 .. MaxDraws
    BY DEF IInv, TypeOK
  <2> QED BY <2>1, OperatorsAssumption DEF Draws
<1>2. cipher \in Ciphers
  <2>1. ctx \in Contexts /\ target \in Shares
    BY DEF IInv, TypeOK, ProgressInv, Maybe
  <2>2. arming[p].share \in Draws /\ arming[p].arms \in Draws /\ arming[p].key \in Draws
    BY DEF IInv, TypeOK, Armings, Maybe, Armed
  <2> QED BY <1>1, <2>1, <2>2 DEF Ciphers, AdCores, AdCore
<1>3. arming' = [arming EXCEPT ![p].cipher = cipher]
  OBVIOUS
<1> HIDE DEF cipher
<1>4. arming' \in [Operators -> Armings]
  BY <1>2, <1>3 DEF IInv, TypeOK, Armings, Maybe
<1>5. \A q \in Operators :
         /\ arming'[q].share = arming[q].share /\ arming'[q].arms = arming[q].arms
         /\ arming'[q].key = arming[q].key
         /\ q # p => arming'[q].cipher = arming[q].cipher
  BY <1>3 DEF IInv, TypeOK, Armings
<1>6. TypeOK' /\ ProgressInv' /\ DrawInv'
  BY <1>4, <1>5, BeforePackage DEF IInv, TypeOK, ProgressInv, DrawInv
<1>7. PackageInv' /\ CipherInv' /\ NeverInvalid'
  BY <1>5 DEF IInv, TypeOK, PackageInv, CipherInv, NeverInvalid
<1>8. OrderInv'
  BY <1>5 DEF IInv, TypeOK, OrderInv, AttestationHolds, AdCore
<1> QED BY <1>6, <1>7, <1>8 DEF IInv

LEMMA AttestStep ==
    ASSUME IInv, NEW p \in Operators, Attest(p)
    PROVE  IInv'
<1> USE DEF Attest
<1>1. attested' \in SUBSET Operators /\ attested' \subseteq attested \cup {p}
  BY DEF IInv, TypeOK
<1>2. p \in attested' =>
         AttestationHolds(arming[p], AdCore(ctx, p, arming[p].share, target, arming[p]))
  OBVIOUS
<1>3. TypeOK' /\ DrawInv' /\ PackageInv' /\ NeverInvalid'
  BY <1>1 DEF IInv, TypeOK, DrawInv, PackageInv, NeverInvalid
<1>4. ProgressInv'
  BY BeforePackage DEF IInv, ProgressInv
<1>5. CipherInv'
  <2>1. arming[p].cipher \in Ciphers
    BY DEF IInv, TypeOK, Armings, Maybe
  <2>2. p \in attested' => arming[p].cipher.share = arming[p].cipher.ad.t
    BY <1>2 DEF AttestationHolds
  <2> QED BY <1>1, <2>1, <2>2 DEF IInv, CipherInv
<1>6. OrderInv'
  BY <1>1, <1>2 DEF IInv, OrderInv, AttestationHolds, AdCore
<1> QED BY <1>3, <1>4, <1>5, <1>6 DEF IInv

LEMMA SignReadyStep ==
    ASSUME IInv, NEW p \in Operators, SignReady(p)
    PROVE  IInv'
<1>1. TypeOK' /\ ProgressInv'
  BY DEF SignReady, IInv, TypeOK, ProgressInv
<1> QED BY <1>1 DEF SignReady, IInv, DrawInv, PackageInv, CipherInv, OrderInv, NeverInvalid,
               AttestationHolds, AdCore

LEMMA RecoverShareStep ==
    ASSUME IInv, NEW p \in Operators, RecoverShare(p)
    PROVE  IInv'
<1> USE DEF RecoverShare
<1>1. package = [ctx |-> ctx, target |-> target, armers |-> arming] /\ attested = Operators
  BY OperatorsAssumption DEF IInv, TypeOK, ProgressInv, PackageInv
<1>2. arming[p].cipher \in Ciphers /\ arming[p].cipher.share = arming[p].cipher.ad.t
  BY <1>1 DEF IInv, CipherInv
\* The tag fixes the AD_core, the attestation the share that goes with it.
<1>3. arming[p].cipher.share = arming[p].share
  BY <1>1, <1>2 DEF TagHolds, PackagedAd, AdCore
<1>4. recovered' = [recovered EXCEPT ![p] = arming[p].share]
  BY <1>1, <1>3
<1>5. arming[p].share \in Draws
  BY <1>2, <1>3 DEF Ciphers
<1>6. TypeOK'
  BY <1>4, <1>5 DEF IInv, TypeOK, Maybe
<1>7. ProgressInv' /\ CipherInv'
  BY <1>4 DEF IInv, TypeOK, ProgressInv, CipherInv
<1> QED BY <1>6, <1>7 DEF IInv, DrawInv, PackageInv, OrderInv, NeverInvalid,
               AttestationHolds, AdCore

--------------------------------------------------------------------------------
(***************************************************************************)
(* One lemma per step of the harness.                                      *)
(***************************************************************************)
LEMMA SumCommitmentsStep ==
    ASSUME IInv, SumCommitments
    PROVE  IInv'
<1> USE DEF SumCommitments
<1>1. \A p \in Operators : /\ arming[p].share \in Draws /\ arming[p].arms \in Draws
                           /\ arming[p].share = draws[p].share
                           /\ draws[p].share # 0 /\ draws[p].rho # 0
  BY DEF IInv, TypeOK, DrawInv, Armings, Maybe, Armed
<1>2. target' \in Shares /\ \A p \in Operators : target'[p] = arming[p].share
  BY <1>1 DEF Shares
<1>3. TypeOK'
  BY <1>2 DEF IInv, TypeOK, Maybe
<1>4. ProgressInv'
  BY DEF IInv, ProgressInv
<1>5. DrawInv'
  BY <1>1, <1>2 DEF IInv, DrawInv, ProgressInv, Draws
<1>6. attested = {} /\ presig = None /\ package = None
  BY OperatorsAssumption DEF IInv, ProgressInv
<1>7. PackageInv' /\ CipherInv' /\ NeverInvalid'
  BY <1>6 DEF IInv, PackageInv, CipherInv, NeverInvalid
<1>8. OrderInv'
  BY <1>2, <1>6 DEF OrderInv
<1> QED BY <1>3, <1>4, <1>5, <1>7, <1>8 DEF IInv

LEMMA PreSignStep ==
    ASSUME IInv, PreSign
    PROVE  IInv'
<1> USE DEF PreSign
<1>1. \A p \in Operators : /\ arming[p].share \in Draws
                           /\ arming[p].share = draws[p].share
  <2>1. \A p \in Operators : draws[p].share \in 0 .. MaxDraws
    BY DEF IInv, TypeOK
  <2> QED BY <2>1, OperatorsAssumption DEF IInv, DrawInv, Draws
<1>2. presig' \in Shares /\ \A p \in Operators : presig'[p] = arming[p].share
  BY <1>1 DEF Shares
<1>3. TypeOK'
  BY <1>2 DEF IInv, TypeOK, Maybe
<1>4. ProgressInv'
  BY DEF IInv, ProgressInv
<1>5. DrawInv'
  BY <1>1, <1>2 DEF IInv, DrawInv, Draws
<1>6. inOrder => presig' = target
  BY <1>2 DEF IInv, TypeOK, OrderInv, Maybe, Shares
<1>7. OrderInv'
  BY <1>6 DEF IInv, OrderInv, AttestationHolds, AdCore
<1> QED BY <1>3, <1>4, <1>5, <1>7 DEF IInv, PackageInv, CipherInv, NeverInvalid

LEMMA FinalizeContextStep ==
    ASSUME IInv, FinalizeContext
    PROVE  IInv'
<1> USE DEF FinalizeContext
<1>1. target # None /\ attested = {} /\ package = None
  BY OperatorsAssumption DEF IInv, ProgressInv
<1>2. \A p \in Operators : arming[p].arms \in Draws
  <2>1. \A p \in Operators : draws[p].rho \in 0 .. MaxDraws
    BY DEF IInv, TypeOK
  <2> QED BY <1>1, <2>1, OperatorsAssumption DEF IInv, DrawInv, Draws
<1>3. ctx' \in Contexts
  BY <1>1, <1>2 DEF IInv, TypeOK, Maybe, Contexts, Shares
<1>4. TypeOK'
  BY <1>3 DEF IInv, TypeOK, Maybe
<1>5. ProgressInv' /\ OrderInv'
  BY <1>1 DEF IInv, ProgressInv, OrderInv
<1> QED BY <1>1, <1>4, <1>5 DEF IInv, DrawInv, PackageInv, CipherInv, NeverInvalid

LEMMA FreezePackageStep ==
    ASSUME IInv, FreezePackage
    PROVE  IInv'
<1> USE DEF FreezePackage
<1>1. ctx \in Contexts /\ target \in Shares
  BY OperatorsAssumption DEF IInv, TypeOK, ProgressInv, Maybe
<1>2. package' \in Packages
  BY <1>1 DEF IInv, TypeOK, Packages
<1>3. TypeOK' /\ ProgressInv' /\ PackageInv'
  BY <1>2, BeforePackage DEF IInv, TypeOK, ProgressInv, PackageInv, Maybe
<1> QED BY <1>3 DEF IInv, DrawInv, CipherInv, OrderInv, NeverInvalid, AttestationHolds, AdCore

LEMMA DepositStep ==
    ASSUME IInv, Deposit
    PROVE  IInv'
<1>1. TypeOK' /\ ProgressInv'
  BY DEF Deposit, IInv, TypeOK, ProgressInv
<1> QED BY <1>1 DEF Deposit, IInv, DrawInv, PackageInv, CipherInv, OrderInv, NeverInvalid,
               AttestationHolds, AdCore

LEMMA ProveStep ==
    ASSUME IInv, Prove
    PROVE  IInv'
<1>1. TypeOK' /\ ProgressInv'
  BY DEF Prove, IInv, TypeOK, ProgressInv
<1> QED BY <1>1 DEF Prove, IInv, DrawInv, PackageInv, CipherInv, OrderInv, NeverInvalid,
               AttestationHolds, AdCore

\* A recovered share is the last one drawn, and the one in the pre-signature lies between
\* the one in the adaptor point and that: equal sums leave no room.
LEMMA RecoveredAll ==
    ASSUME IInv, \A p \in Operators : recovered[p] # None, SumMatches
    PROVE  recovered = presig
<1>1. funded /\ package # None /\ ctx # None /\ presig # None /\ target # None
  BY OperatorsAssumption DEF IInv, ProgressInv
<1>2. package.target = target
  BY <1>1 DEF IInv, PackageInv
<1>3. presig \in Shares /\ target \in Shares
  BY <1>1 DEF IInv, TypeOK, Maybe
<1>4. \A p \in Operators : recovered[p] = draws[p].share /\ recovered[p] = target[p]
  <2> SUFFICES ASSUME NEW p \in Operators
               PROVE  recovered[p] = draws[p].share /\ recovered[p] = target[p]
    OBVIOUS
  <2>1. recovered[p] = arming[p].share
    BY DEF IInv, CipherInv
  <2>2. arming[p].share = draws[p].share
    BY <1>1 DEF IInv, DrawInv
  <2> QED BY <1>2, <2>1, <2>2 DEF SumMatches
<1>5. \A p \in Operators : recovered[p] = presig[p]
  <2> SUFFICES ASSUME NEW p \in Operators PROVE recovered[p] = presig[p]
    OBVIOUS
  <2>1. target[p] \in Nat /\ presig[p] \in Nat
    BY <1>3 DEF Shares, Draws
  <2>2. target[p] <= presig[p] /\ presig[p] <= draws[p].share
    BY <1>1 DEF IInv, DrawInv
  <2> QED BY <1>4, <2>1, <2>2
<1> QED BY <1>3, <1>5 DEF IInv, TypeOK, Shares

LEMMA FinishStep ==
    ASSUME IInv, Finish
    PROVE  IInv'
<1>1. spend' # "invalid" /\ spend' \in {"refused", "valid"}
  BY RecoveredAll DEF Finish
<1>2. TypeOK' /\ ProgressInv' /\ NeverInvalid'
  BY <1>1 DEF Finish, IInv, TypeOK, ProgressInv, NeverInvalid
<1> QED BY <1>2 DEF Finish, IInv, DrawInv, PackageInv, CipherInv, OrderInv,
               AttestationHolds, AdCore

--------------------------------------------------------------------------------
LEMMA IInvStep == IInv /\ [Next]_vars => IInv'
<1> SUFFICES ASSUME IInv, [Next]_vars PROVE IInv'
  OBVIOUS
<1>1. ASSUME NEW p \in Operators, DrawShare(p) PROVE IInv'
  BY <1>1, DrawShareStep
<1>2. ASSUME NEW p \in Operators, ArmColumns(p) PROVE IInv'
  BY <1>2, ArmColumnsStep
<1>3. ASSUME NEW p \in Operators, ComputeKey(p) PROVE IInv'
  BY <1>3, ComputeKeyStep
<1>4. ASSUME NEW p \in Operators, NEW d \in 1 .. draws[p].share, Encrypt(p, d) PROVE IInv'
  BY <1>4, EncryptStep
<1>5. ASSUME NEW p \in Operators, Attest(p) PROVE IInv'
  BY <1>5, AttestStep
<1>6. ASSUME NEW p \in Operators, SignReady(p) PROVE IInv'
  BY <1>6, SignReadyStep
<1>7. ASSUME NEW p \in Operators, RecoverShare(p) PROVE IInv'
  BY <1>7, RecoverShareStep
<1>8. CASE SumCommitments
  BY <1>8, SumCommitmentsStep
<1>9. CASE PreSign
  BY <1>9, PreSignStep
<1>10. CASE FinalizeContext
  BY <1>10, FinalizeContextStep
<1>11. CASE FreezePackage
  BY <1>11, FreezePackageStep
<1>12. CASE Deposit
  BY <1>12, DepositStep
<1>13. CASE Prove
  BY <1>13, ProveStep
<1>14. CASE Finish
  BY <1>14, FinishStep
<1>15. CASE UNCHANGED vars
  BY <1>15 DEF vars, IInv, TypeOK, ProgressInv, DrawInv, PackageInv, CipherInv, OrderInv,
               NeverInvalid, AttestationHolds, AdCore
<1> QED BY <1>1, <1>2, <1>3, <1>4, <1>5, <1>6, <1>7, <1>8, <1>9, <1>10, <1>11, <1>12,
           <1>13, <1>14, <1>15 DEF Next

\* The inductive invariant holds in every reachable state.
THEOREM Invariance == Spec => []IInv
BY IInvInit, IInvStep, PTL DEF Spec

\* Type correctness: what a deposit package is made of is there when it is frozen, whatever
\* the order of the calls.
THEOREM TypeCorrect == Spec => []TypeOK
<1>1. IInv => TypeOK
  BY DEF IInv
<1> QED BY <1>1, Invariance, PTL

\* No broken signature is finished, in any order of the calls, for any number of
\* operators and of refreshed shares.
THEOREM BrokenNeverFinished == Spec => []NeverInvalid
<1>1. IInv => NeverInvalid
  BY DEF IInv
<1> QED BY <1>1, Invariance, PTL

\* A share that decapsulation recovers is the one its package commits to.
THEOREM CommittedRecovered == Spec => []RecoveredAsCommitted
<1>1. IInv => RecoveredAsCommitted
  <2> SUFFICES ASSUME IInv, NEW p \in Operators, recovered[p] # None
               PROVE  recovered[p] = package.armers[p].share
    BY DEF RecoveredAsCommitted
  <2>1. package = [ctx |-> ctx, target |-> target, armers |-> arming]
    BY OperatorsAssumption DEF IInv, ProgressInv, PackageInv
  <2> QED BY <2>1 DEF IInv, CipherInv
<1> QED BY <1>1, Invariance, PTL

\* In the harness's order a deposit can be spent: the tags open, and point, pre-signature
\* and ciphertexts hold the same shares.
LEMMA Spendable == IInv => DepositSpendable
<1> SUFFICES ASSUME IInv, inOrder, funded, NEW p \in Operators
             PROVE  /\ TagHolds(p)
                    /\ package.armers[p].cipher.share = presig[p]
                    /\ package.target[p] = presig[p]
  BY DEF DepositSpendable
<1>1. /\ package = [ctx |-> ctx, target |-> target, armers |-> arming]
      /\ attested = Operators /\ presig # None /\ target # None
  BY OperatorsAssumption DEF IInv, ProgressInv, PackageInv
<1>2. /\ presig = target /\ arming[p].share = target[p] /\ arming[p].key = arming[p].arms
      /\ AttestationHolds(arming[p], AdCore(ctx, p, arming[p].share, target, arming[p]))
  BY <1>1 DEF IInv, OrderInv
<1> QED BY <1>1, <1>2 DEF TagHolds, PackagedAd, AttestationHolds, AdCore

THEOREM DepositsSpendable == Spec => []DepositSpendable
BY Spendable, Invariance, PTL

--------------------------------------------------------------------------------
(***************************************************************************)
(* The refinement, but for its fairness.                                   *)
(***************************************************************************)
\* What WitnessRelease says of each step: funds are locked after every operator registered
\* and leave when a witness is public.
SafeRelease == Release!Init /\ [][Release!Next]_(Release!vars)

LEMMA ReleaseInit == Init => Release!Init
BY NoneAssumption, OperatorsAssumption DEF Init, Release!Init

LEMMA ReleaseStep ==
    IInv /\ [Next]_vars => [Release!Next]_(Release!vars)
<1> SUFFICES ASSUME IInv, [Next]_vars PROVE [Release!Next]_(Release!vars)
  OBVIOUS
<1> DEFINE Quiet == UNCHANGED <<inOrder, signed, funded, proof, spend>>
<1>1. CASE Quiet
  BY <1>1 DEF Release!vars
<1>2. ASSUME NEW p \in Operators, SignReady(p) PROVE [Release!Next]_(Release!vars)
  <2>1. spend = "valid" => funded
    BY OperatorsAssumption, NoneAssumption DEF IInv, ProgressInv
  <2>2. signed = Operators => signed' = Operators
    BY <1>2 DEF SignReady
  <2> QED BY <1>2, <2>1, <2>2
          DEF SignReady, Release!vars, Release!Next, Release!Register
<1>3. CASE Deposit
  <2>1. spend # "valid"
    BY <1>3, OperatorsAssumption, NoneAssumption DEF Deposit, IInv, ProgressInv
  <2> QED BY <1>3, <2>1 DEF Deposit, Release!vars, Release!Next, Release!Lock
<1>4. CASE Prove
  BY <1>4 DEF Prove, Release!vars, Release!Next, Release!Reveal
<1>5. CASE Finish
  <2>1. spend # "valid" /\ funded /\ proof
    BY <1>5, OperatorsAssumption, NoneAssumption DEF Finish, IInv, ProgressInv
  <2> QED BY <1>5, <2>1 DEF Finish, Release!vars, Release!Next, Release!Release
<1>6. Quiet \/ (\E p \in Operators : SignReady(p)) \/ Deposit \/ Prove \/ Finish
  BY DEF Next, vars, DrawShare, ArmColumns, ComputeKey, Encrypt, Attest, RecoverShare,
         SumCommitments, PreSign, FinalizeContext, FreezePackage
<1> QED BY <1>1, <1>2, <1>3, <1>4, <1>5, <1>6

\* The ceremony implements the safety part of WitnessRelease, for any number of operators.
THEOREM ReleaseSafety == Spec => SafeRelease
BY ReleaseInit, ReleaseStep, Invariance, PTL DEF Spec, SafeRelease

================================================================================
