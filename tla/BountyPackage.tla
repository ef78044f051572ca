----------------------------- MODULE BountyPackage -----------------------------
(***************************************************************************)
(* The pvugc-bounty command line: `arm` draws a Bitcoin key, prints its    *)
(* address, seals the key's two shares under the statement "I know a       *)
(* passphrase" and writes a package; `decap` opens a package with the      *)
(* passphrase and prints the key.                                          *)
(*                                                                         *)
(* Runs of the program meet in one file.  fs::write truncates the file,    *)
(* then writes at its own offset: runs that write the same path overlay    *)
(* each other, and a run that dies leaves a prefix.  The head of a package *)
(* (address and statement hash) has one size for every command line, the   *)
(* proving key and the shares have sizes of their own: a file is read with *)
(* the lengths in the proving key that lies in it, whoever wrote the rest. *)
(*                                                                         *)
(* What an arm run draws (proving key, secret, exponents) is named by the  *)
(* run.  A share sealed under R^rho of one run's verifying key opens with  *)
(* the commitments of a valid proof under that key only: this is proved in *)
(* OneSidedPpe_proofs, and a tag binds its ciphertext to key and AD_core.  *)
(***************************************************************************)
EXTENDS SharedFile, FiniteSets, SequencesExt

CONSTANTS
    Arms,           \* runs of `arm`
    Decaps,         \* runs of `decap`
    Inputs,         \* command lines: [pass, ctx], sequences of bytes without NUL
    ChunkBytes,     \* bytes packed into one field element (8 in the code)
    Rate,           \* elements the sponge absorbs between permutations
    PkUnits,        \* units of the file that the proving key of a command line takes
    ShareUnits      \* and each of its two shares

ASSUME ChunkAssumption == ChunkBytes \in Nat \ {0} /\ Rate \in Nat \ {0}
ASSUME InputsAssumption == Inputs \subseteq [pass : Seq(1 .. 255), ctx : Seq(1 .. 255)]
ASSUME UnitsAssumption ==
    PkUnits \in [Inputs -> Nat \ {0}] /\ ShareUnits \in [Inputs -> Nat \ {0}]

--------------------------------------------------------------------------------
(***************************************************************************)
(* The statement hash.                                                     *)
(***************************************************************************)
\* The k-th chunk of a text as an element: bytes beyond its end count as zero,
\* and elements are compared, never computed with, so a chunk stands for itself.
Chunk(text, k) ==
    [b \in 1 .. ChunkBytes |-> LET at == (k - 1) * ChunkBytes + b
                               IN  IF at <= Len(text) THEN text[at] ELSE 0]
ZeroElement == [b \in 1 .. ChunkBytes |-> 0]

\* Mutant: the bytes after the last full chunk are dropped.
BugAbsorbed(text) ==
    IF text = << >> THEN <<ZeroElement>>
    ELSE [k \in 1 .. Len(text) \div ChunkBytes |-> Chunk(text, k)]
\* absorb_bytes_native_fr: a text of no bytes absorbs one zero.
Absorbed(text) ==
    IF text = << >> THEN <<ZeroElement>>
    ELSE [k \in 1 .. (Len(text) + ChunkBytes - 1) \div ChunkBytes |-> Chunk(text, k)]

\* Absorbing adds to the rate part of the state, which a permutation mixes once it is full
\* or squeezed: elements are not told from zeros that fill the last block.  The two chunks
\* of the domain tag fill a block and are left out.
StatementHash ==
    [i \in Inputs |->
        LET e == Absorbed(i.pass) \o Absorbed(i.ctx)
            missing == (Rate - (Len(e) % Rate)) % Rate
        IN  e \o [k \in 1 .. missing |-> ZeroElement]]

\* PreimageCircuit: one witness per byte of the passphrase, ctx in the constants.
PreimageCircuit(i) == [witnesses |-> Len(i.pass), ctx |-> i.ctx]

--------------------------------------------------------------------------------
VARIABLES
    pc,         \* where an arm run is; past "idle" its address is on stdout and can be funded
    input,      \* the command line of every run, None before it starts
    file,       \* the units of the package, each the run that wrote it; None: no file
    written,    \* units an arm run has written
    alone,      \* arm runs whose package no other run has touched since they opened it
    read,       \* what a decap run has read so far
    outcome,    \* how a decap run ended: None, "failed" (a panic or exit 1) or "done"
    key         \* the key it named by the arm run that drew it

vars == <<pc, input, file, written, alone, read, outcome, key>>

\* A package in the order of write_bounty_package: the head, which is one unit, the proving
\* key and the shares.
HeadUnit == 1
PkUnit == 2
Shares == {0, 1}
PkSection(i) == PkUnit .. 1 + PkUnits[i]
ShareSection(i, k) ==
    LET before == 1 + PkUnits[i] + k * ShareUnits[i]
    IN  before + 1 .. before + ShareUnits[i]
Total(i) == 1 + PkUnits[i] + 2 * ShareUnits[i]
Nobody == "nobody"

ASSUME RunsAssumption ==
    /\ Arms \cap Decaps = {} /\ Hole \notin Arms /\ Nobody \notin Arms
    /\ None \notin Arms \cup Inputs \cup Seq(Arms \cup {Hole}) \cup {"failed", "done"}

Init ==
    /\ pc = [a \in Arms |-> "idle"]
    /\ input = [r \in Arms \cup Decaps |-> None]
    /\ file = None
    /\ written = [a \in Arms |-> 0]
    /\ alone = {}
    /\ read = [d \in Decaps |-> << >>]
    /\ outcome = [d \in Decaps |-> None]
    /\ key = [d \in Decaps |-> None]

--------------------------------------------------------------------------------
(***************************************************************************)
(* arm                                                                     *)
(***************************************************************************)
\* Hash, setup, secret and shares; then the address is printed.
PrintAddress(a, i) ==
    /\ pc[a] = "idle"
    /\ pc' = [pc EXCEPT ![a] = "printed"]
    /\ input' = [input EXCEPT ![a] = i]
    /\ UNCHANGED <<file, written, alone, read, outcome, key>>

Writing(a) == pc[a] = "writing"

\* Both shares are sealed, then fs::write opens the path and truncates what is there.
OpenPackage(a) ==
    /\ pc[a] = "printed"
    /\ pc' = [pc EXCEPT ![a] = "writing"]
    /\ file' = << >>
    /\ alone' = IF \E b \in Arms : Writing(b) THEN {} ELSE {a}
    /\ UNCHANGED <<input, written, read, outcome, key>>

\* Mutant: one unit too many.
BugWriteUnit(a) ==
    /\ Writing(a) /\ written[a] <= Total(input[a])
    /\ file' = Written(file, written[a], a)
    /\ written' = [written EXCEPT ![a] = @ + 1]
    /\ UNCHANGED <<pc, input, alone, read, outcome, key>>

WriteUnit(a) ==
    /\ Writing(a) /\ written[a] < Total(input[a])
    /\ file' = Written(file, written[a], a)
    /\ written' = [written EXCEPT ![a] = @ + 1]
    /\ UNCHANGED <<pc, input, alone, read, outcome, key>>

\* "wrote bounty package"
FinishArm(a) ==
    /\ Writing(a) /\ written[a] = Total(input[a])
    /\ pc' = [pc EXCEPT ![a] = "done"]
    /\ UNCHANGED <<input, file, written, alone, read, outcome, key>>

\* The process is killed, or the write fails (expect panics).  A run that ends before it
\* opens the package is one that takes no further step.
Interrupt(a) ==
    /\ Writing(a)
    /\ pc' = [pc EXCEPT ![a] = "interrupted"]
    /\ UNCHANGED <<input, file, written, alone, read, outcome, key>>

--------------------------------------------------------------------------------
(***************************************************************************)
(* decap                                                                   *)
(***************************************************************************)
StartDecap(d, i) ==
    /\ input[d] = None
    /\ input' = [input EXCEPT ![d] = i]
    /\ UNCHANGED <<pc, file, written, alone, read, outcome, key>>

AtEnd(d) == file # None => Len(read[d]) >= Len(file)

\* fs::read goes on until the end of the file, as it is at that moment.
ReadUnit(d) ==
    /\ input[d] # None /\ outcome[d] = None /\ ~ AtEnd(d)
    /\ read' = [read EXCEPT ![d] = Append(@, file[Len(@) + 1])]
    /\ UNCHANGED <<pc, input, file, written, alone, outcome, key>>

\* read_bounty_package gets past its expects: the first unit of a proving key says how much
\* is needed, what comes after it is not looked at.
Parses(p) ==
    /\ Len(p) >= PkUnit /\ p[HeadUnit] # Hole /\ p[PkUnit] # Hole
    /\ Len(p) >= Total(input[p[PkUnit]])

\* The run that wrote a stretch of p.  One with zeros or of several runs is Nobody's: it
\* does not parse, does not prove or has no tag.
WriterOf(p, section) ==
    LET writers == {p[u] : u \in section}
    IN  IF \E a \in Arms : writers = {a} THEN CHOOSE a \in Arms : writers = {a} ELSE Nobody

\* What read_bounty_package makes of the units: nothing when an expect fails.
ReadPackage(p) ==
    LET i == input[p[PkUnit]]
    IN  IF Parses(p)
        THEN {[head |-> p[HeadUnit],
               pk |-> WriterOf(p, PkSection(i)),
               shares |-> [k \in Shares |-> WriterOf(p, ShareSection(i, k))]]}
        ELSE {}

AdCore(vk, hash, arms, k) == [vk |-> vk, hash |-> hash, arms |-> arms, index |-> k]
\* Mutant: both shares are sealed under the first one's index.
BugSealed(a, k) == [key |-> a, ad |-> AdCore(a, StatementHash[input[a]], a, 0)]
\* Share k as run a seals it, with the AD_core of the key-commitment tag.
Sealed(a, k) == [key |-> a, ad |-> AdCore(a, StatementHash[input[a]], a, k)]

\* Mutant: the proof is not verified before it is used.
BugProves(i, a) == a \in Arms
\* A proof made with input i verifies under the proving key of run a: it is a key for the
\* circuit of that run's passphrase length and ctx.
Proves(i, a) == a \in Arms /\ PreimageCircuit(i) = PreimageCircuit(input[a])
\* What decapsulation yields from the arms of run b: R^rho when they were made for the key.
DerivedKey(a, b) == IF a = b THEN b ELSE None

\* verify_key_commitment_dem on share k of package q.
TagHolds(q, k) ==
    /\ q.shares[k] \in Arms
    /\ LET s == Sealed(q.shares[k], k)
       IN  /\ s.key = DerivedKey(q.pk, q.shares[k])
           /\ s.ad = AdCore(q.pk, StatementHash[input[q.head]], q.shares[k], k)

\* The exits before a key is printed.
Accepts(q, i) ==
    /\ StatementHash[input[q.head]] = StatementHash[i]
    /\ Proves(i, q.pk)
    /\ \A k \in Shares : TagHolds(q, k)

\* The shares of one run sum to its secret, shares of two runs to the key of nobody.
SecretOf(q) == IF q.shares[0] = q.shares[1] THEN q.shares[0] ELSE Nobody

\* The key is out when its address is compared with the one in the package.
ExitCode(q) == IF q.head = SecretOf(q) THEN "done" ELSE "failed"

\* From the bytes read to the exit code.
Decap(d) ==
    LET accepted == {q \in ReadPackage(read[d]) : Accepts(q, input[d])}
    IN  /\ input[d] # None /\ outcome[d] = None /\ AtEnd(d)
        /\ \/ \E q \in accepted :
                 /\ outcome' = [outcome EXCEPT ![d] = ExitCode(q)]
                 /\ key' = [key EXCEPT ![d] = SecretOf(q)]
           \/ /\ accepted = {}
              /\ outcome' = [outcome EXCEPT ![d] = "failed"]
              /\ UNCHANGED key
        /\ UNCHANGED <<pc, input, file, written, alone, read>>

Next ==
    \/ \E a \in Arms :
          \/ \E i \in Inputs : PrintAddress(a, i)
          \/ OpenPackage(a) \/ WriteUnit(a) \/ FinishArm(a) \/ Interrupt(a)
    \/ \E d \in Decaps :
          \/ \E i \in Inputs : StartDecap(d, i)
          \/ ReadUnit(d) \/ Decap(d)

\* A started decap run goes on by itself; nobody has to start one, or finish an arm.
Spec == Init /\ [][Next]_vars /\ \A d \in Decaps : WF_vars(ReadUnit(d) \/ Decap(d))

--------------------------------------------------------------------------------
TypeOK ==
    /\ pc \in [Arms -> {"idle", "printed", "writing", "done", "interrupted"}]
    /\ input \in [Arms \cup Decaps -> Inputs \cup {None}]
    /\ alone \subseteq Arms
    /\ file # None => file \in Seq(Arms \cup {Hole})
    /\ written \in [Arms -> Nat]
    /\ \A a \in Arms : written[a] <= (IF pc[a] = "idle" THEN 0 ELSE Total(input[a]))
    /\ read \in [Decaps -> Seq(Arms \cup {Hole})]
    /\ outcome \in [Decaps -> {None, "failed", "done"}]
    /\ key \in [Decaps -> Arms \cup {None, Nobody}]

\* A key that is printed is the secret of one arm run, and goes to the passphrase and
\* context that run was given: neither parts of two packages read as one, nor a split of
\* the same bytes between passphrase and context with the same statement hash, yields one.
KeyForItsInput ==
    \A d \in Decaps : key[d] # None => key[d] \in Arms /\ input[key[d]] = input[d]

\* Command lines that run together to the same text, split at the end of an element.
OneText(i, j) ==
    /\ i.pass \o i.ctx = j.pass \o j.ctx
    /\ \A x, y \in {i, j} : Len(x.pass) < Len(y.pass) => Len(x.pass) % ChunkBytes = 0

\* A run that prints a key and then fails, because the key's address is not the one in the
\* head of the package, has read the head of another run, and the two were given one and the
\* same text, split between passphrase and context at the same place or at the end of an
\* element: no other head lies in front of a proving key and shares that open.
MismatchMeansOneText ==
    \A d \in Decaps : key[d] # None /\ outcome[d] = "failed" =>
        LET other == read[d][HeadUnit]
        IN  other # key[d] /\ OneText(input[other], input[key[d]])

\* A printed address is safe to fund once its run has ended and while no other run opens
\* the path: whoever then asks with its passphrase and context gets its key.  Before that,
\* an interrupted or overlapping run may leave it funded and lost.
FinishedPackageOpens ==
    \A a \in Arms, d \in Decaps :
        (/\ pc[a] = "done" /\ a \in alone
         /\ input[d] = input[a] /\ read[d] = << >> /\ outcome[d] = None)
           ~> (key[d] = a \/ a \notin alone)

================================================================================
