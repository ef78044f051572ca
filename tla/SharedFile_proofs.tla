--------------------------- MODULE SharedFile_proofs ---------------------------
(***************************************************************************)
(* Proofs about the two components whose runs meet in files: SetupCache,   *)
(* for any callers, circuits and files, any way of naming the files and    *)
(* any number of blocks, and BountyPackage, for any runs of both commands, *)
(* any command lines without NUL bytes, any sizes of their packages, any   *)
(* chunk size and any rate.                                                *)
(***************************************************************************)
EXTENDS SetupCache, BountyPackage, SequenceTheorems, FiniteSetTheorems, TLAPS

\* The unit is where the writer is, every other unit is kept, and holes are only behind the
\* old end.
IsWritten(S, content, n, unit, new) ==
    /\ new \in Seq(S)
    /\ Len(new) = IF Len(content) > n THEN Len(content) ELSE n + 1
    /\ new[n + 1] = unit
    /\ \A i \in 1 .. Len(content) : i # n + 1 => new[i] = content[i]
    /\ \A i \in 1 .. Len(new) : i > Len(content) /\ i # n + 1 => new[i] = Hole

LEMMA WrittenUnits ==
    ASSUME NEW S, Hole \in S, NEW content \in Seq(S), NEW n \in Nat, NEW unit \in S
    PROVE  IsWritten(S, content, n, unit, Written(content, n, unit))
<1> DEFINE new == Written(content, n, unit)
           size == IF Len(content) > n THEN Len(content) ELSE n + 1
<1>1. /\ size \in Nat /\ n + 1 \in 1 .. size /\ Len(content) <= size /\ Len(content) \in Nat
      /\ size = IF Len(content) > n THEN Len(content) ELSE n + 1
  OBVIOUS
<1>2. new = [i \in 1 .. size |-> IF i = n + 1 THEN unit
                                 ELSE IF i <= Len(content) THEN content[i] ELSE Hole]
  BY DEF Written
<1> HIDE DEF new, size
<1>3. new \in [1 .. size -> S]
  BY <1>1, <1>2
<1>4. new \in Seq(S) /\ Len(new) = size
  BY <1>1, <1>3
<1>5. new[n + 1] = unit
  BY <1>1, <1>2
<1>6. \A i \in 1 .. Len(content) : i # n + 1 => new[i] = content[i]
  <2>1. ASSUME NEW i \in 1 .. Len(content), i # n + 1 PROVE new[i] = content[i]
    <3>1. i \in 1 .. size /\ i <= Len(content)
      BY <1>1
    <3> QED BY <1>2, <2>1, <3>1
  <2> QED BY <2>1
<1>7. \A i \in 1 .. size : i > Len(content) /\ i # n + 1 => new[i] = Hole
  <2>1. ASSUME NEW i \in 1 .. size, i > Len(content), i # n + 1 PROVE new[i] = Hole
    <3>1. ~ (i <= Len(content))
      BY <1>1, <2>1
    <3> QED BY <1>2, <2>1, <3>1
  <2> QED BY <2>1
<1> QED BY <1>1, <1>4, <1>5, <1>6, <1>7 DEF new, IsWritten

--------------------------------------------------------------------------------
(***************************************************************************)
(* SetupCache.                                                             *)
(***************************************************************************)
CacheMarks == Circuits \cup {Hole}

\* What is on disk, or in a buffer, is a sequence of at most Blocks blocks.
LEMMA ContentType ==
    ASSUME NEW content
    PROVE  content \in Contents <=>
             content \in Seq(CacheMarks) /\ Len(content) \in 0 .. Blocks
<1>1. ASSUME content \in Contents
      PROVE  content \in Seq(CacheMarks) /\ Len(content) \in 0 .. Blocks
  <2>1. PICK n \in 0 .. Blocks : content \in [1 .. n -> CacheMarks]
    BY <1>1 DEF Contents, CacheMarks
  <2> QED BY <2>1, ShapeAssumption
<1>2. ASSUME content \in Seq(CacheMarks), Len(content) \in 0 .. Blocks
      PROVE  content \in Contents
  BY <1>2 DEF Contents, CacheMarks
<1> QED BY <1>1, <1>2

LEMMA EmptyContent == << >> \in Contents /\ Len(<< >>) = 0
<1>1. << >> \in Seq(CacheMarks) /\ Len(<< >>) = 0 /\ 0 \in 0 .. Blocks
  BY ShapeAssumption
<1> QED BY <1>1, ContentType

LEMMA SetupContent ==
    ASSUME NEW c \in Circuits
    PROVE  /\ Setup(c) \in Contents /\ Len(Setup(c)) = Blocks
           /\ \A i \in 1 .. Blocks : Setup(c)[i] = c
<1>1. Setup(c) \in [1 .. Blocks -> CacheMarks]
  BY DEF Setup, CacheMarks
<1>2. Setup(c) \in Seq(CacheMarks) /\ Len(Setup(c)) = Blocks
  BY <1>1, ShapeAssumption
<1> QED BY <1>2, ContentType, ShapeAssumption DEF Setup

\* A write puts its block where the writer is, keeps every other block and leaves
\* holes only behind the old end.
LEMMA WrittenContent ==
    ASSUME NEW content \in Contents, NEW n \in Nat, n < Blocks, NEW c \in Circuits
    PROVE  LET new == Written(content, n, c)
           IN  /\ new \in Contents
               /\ Len(new) = IF Len(content) > n THEN Len(content) ELSE n + 1
               /\ new[n + 1] = c
               /\ \A i \in 1 .. Len(content) : i # n + 1 => new[i] = content[i]
<1> DEFINE new == Written(content, n, c)
<1>1. content \in Seq(CacheMarks) /\ Len(content) \in 0 .. Blocks
  BY ContentType
<1>2. Hole \in CacheMarks /\ c \in CacheMarks
  BY DEF CacheMarks
<1>3. IsWritten(CacheMarks, content, n, c, new)
  BY <1>1, <1>2, WrittenUnits, Zenon
<1> HIDE DEF new
<1>4. new \in Contents
  BY <1>1, <1>3, ContentType, ShapeAssumption DEF IsWritten
<1> QED BY <1>3, <1>4 DEF new, IsWritten

\* What a reader has grows by one block.
LEMMA AppendContent ==
    ASSUME NEW content \in Contents, Len(content) < Blocks, NEW e \in CacheMarks
    PROVE  /\ Append(content, e) \in Contents
           /\ Len(Append(content, e)) = Len(content) + 1
           /\ Append(content, e)[Len(content) + 1] = e
           /\ \A i \in 1 .. Len(content) : Append(content, e)[i] = content[i]
<1> DEFINE new == Append(content, e)
<1>1. content \in Seq(CacheMarks) /\ Len(content) \in 0 .. Blocks
  BY ContentType
<1>2. /\ new \in Seq(CacheMarks)
      /\ Len(new) = Len(content) + 1
      /\ new[Len(content) + 1] = e
      /\ \A i \in 1 .. Len(content) : new[i] = content[i]
  BY <1>1, AppendProperties
<1> HIDE DEF new
<1>3. new \in Contents
  BY <1>1, <1>2, ContentType, ShapeAssumption
<1> QED BY <1>2, <1>3 DEF new

--------------------------------------------------------------------------------
(***************************************************************************)
(* The inductive invariant.                                                *)
(***************************************************************************)
\* The circuit, the offset and the buffer of a call in progress; a caller that
\* is not computing any more found or made the file.
CallOK(p) ==
    /\ caller[p].step \in {"compute", "write", "read", "returned"} =>
          caller[p].circuit \in Circuits
    /\ caller[p].step = "compute" => caller[p].offset = 0
    /\ caller[p].step \in {"write", "read"} =>
          files[Path(p)] \in Contents /\ caller[p].offset < Blocks
    /\ caller[p].step = "write" => /\ caller[p].circuit \in history[Path(p)].writers
                                   /\ caller[p].setup = Setup(caller[p].circuit)
    /\ caller[p].step = "read" => Len(caller[p].setup) = caller[p].offset
    /\ caller[p].step = "returned" => Len(caller[p].setup) = Blocks

\* While no two writers met on a file, there is at most one, it is at the end of
\* the file, and all blocks were written.
TidyOK(f) ==
    ~ history[f].overlap =>
        /\ \A p, q \in Writers(f) : p = q
        /\ \A p \in Writers(f) : Len(files[f]) = caller[p].offset
        /\ files[f] \in Contents =>
              \A i \in 1 .. Len(files[f]) : files[f][i] \in history[f].writers

\* So what a reader or a writer has in its buffer was written.
BufferOK(p) ==
    caller[p].step \in {"read", "returned"} /\ ~ history[Path(p)].overlap =>
        \A i \in 1 .. Len(caller[p].setup) :
            caller[p].setup[i] \in history[Path(p)].writers

\* The first n blocks of a file are whole.
Covered(f, n) ==
    n <= Len(files[f]) /\ \A i \in 1 .. n : files[f][i] \in history[f].writers

\* Of the writers of a file, the last one to truncate it still covers all it has
\* written, or is through.
CoverOK(f) ==
    files[f] \in Contents /\ ~ history[f].killed =>
        Covered(f, Blocks) \/ \E p \in Writers(f) : Covered(f, caller[p].offset)

CallInv == \A p \in Callers : CallOK(p)
TidyInv == \A f \in Paths : TidyOK(f)
BufferInv == \A p \in Callers : BufferOK(p)
CoverInv == \A f \in Paths : CoverOK(f)
CacheIInv == CacheTypeOK /\ CallInv /\ TidyInv /\ BufferInv /\ CoverInv

\* Init: no file, no call.
LEMMA CacheIInvInit == CacheInit => CacheIInv
<1> SUFFICES ASSUME CacheInit PROVE CacheIInv
  OBVIOUS
<1> USE AbsentAssumption DEF CacheInit, Idle
<1>1. CacheTypeOK
  BY EmptyContent, ShapeAssumption DEF CacheTypeOK, Steps, Histories
<1>2. CallInv /\ BufferInv
  BY DEF CallInv, CallOK, BufferInv, BufferOK
<1>3. TidyInv /\ CoverInv
  BY DEF TidyInv, TidyOK, CoverInv, CoverOK, Writers
<1> QED BY <1>1, <1>2, <1>3 DEF CacheIInv

\* A step of p that neither touches the file nor ends or begins a write disturbs
\* nothing but what the invariant says of p itself.
LEMMA CallerStep ==
    ASSUME CacheIInv, NEW p \in Callers,
           UNCHANGED <<files, history>>, DOMAIN caller' = Callers,
           \A q \in Callers \ {p} : caller'[q] = caller[q],
           caller[p].step # "write", caller'[p].step # "write",
           CallOK(p)', BufferOK(p)'
    PROVE  CallInv' /\ TidyInv' /\ BufferInv' /\ CoverInv'
<1> USE DEF CacheIInv
<1>1. ASSUME NEW f \in Paths
      PROVE  /\ Writers(f)' = Writers(f)
             /\ \A q \in Writers(f) : caller'[q] = caller[q]
  BY DEF Writers, Path
<1>2. ASSUME NEW q \in Callers, q # p PROVE CallOK(q)' /\ BufferOK(q)'
  <2>1. caller'[q] = caller[q] /\ CallOK(q) /\ BufferOK(q)
    BY <1>2 DEF CallInv, BufferInv
  <2> QED BY <2>1 DEF CallOK, BufferOK, Path
<1>3. ASSUME NEW f \in Paths PROVE TidyOK(f)' /\ CoverOK(f)'
  <2>1. TidyOK(f) /\ CoverOK(f)
    BY DEF TidyInv, CoverInv
  <2> QED BY <1>1, <2>1 DEF TidyOK, CoverOK, Covered
<1> QED BY <1>2, <1>3 DEF CallInv, TidyInv, BufferInv, CoverInv

LEMMA StepCall ==
    ASSUME CacheIInv, NEW p \in Callers, NEW c \in Circuits, Call(p, c) PROVE CacheIInv'
<1> USE DEF CacheIInv
<1> DEFINE st == IF files[CachePath(c)] = Absent THEN "compute" ELSE "read"
<1>1. /\ caller' = [caller EXCEPT ![p] =
            [step |-> st, circuit |-> c, offset |-> 0, setup |-> << >>]]
      /\ UNCHANGED <<files, history>> /\ caller[p].step # "write"
  BY DEF Call, Busy
<1>2. /\ caller'[p] = [step |-> st, circuit |-> c, offset |-> 0, setup |-> << >>]
      /\ DOMAIN caller' = Callers /\ \A q \in Callers \ {p} : caller'[q] = caller[q]
  BY <1>1 DEF CacheTypeOK
<1>3. st \in {"compute", "read"} /\ (st = "read" => files[CachePath(c)] \in Contents)
  BY ShapeAssumption DEF CacheTypeOK
<1> HIDE DEF st
<1>4. CacheTypeOK'
  BY <1>1, <1>3, EmptyContent, ShapeAssumption DEF CacheTypeOK, Steps
<1>5. CallOK(p)' /\ BufferOK(p)'
  BY <1>1, <1>2, <1>3, EmptyContent, ShapeAssumption DEF CallOK, BufferOK, Path
<1> QED BY <1>1, <1>2, <1>3, <1>4, <1>5, CallerStep

LEMMA StepAuditPanics ==
    ASSUME CacheIInv, NEW p \in Callers, AuditPanics(p) PROVE CacheIInv'
<1> USE DEF CacheIInv
<1>1. /\ caller' = [caller EXCEPT ![p].step = "panicked"]
      /\ UNCHANGED <<files, history>> /\ caller[p].step # "write"
  BY DEF AuditPanics
<1>2. /\ caller'[p].step = "panicked"
      /\ DOMAIN caller' = Callers /\ \A q \in Callers \ {p} : caller'[q] = caller[q]
  BY <1>1 DEF CacheTypeOK
<1>3. CacheTypeOK'
  BY <1>1 DEF CacheTypeOK, Steps
<1>4. CallOK(p)' /\ BufferOK(p)'
  BY <1>2 DEF CallOK, BufferOK
<1> QED BY <1>1, <1>2, <1>3, <1>4, CallerStep

\* A reader's next block: one that was written, if no two writers met.
LEMMA StepRead ==
    ASSUME CacheIInv, NEW p \in Callers, Read(p) PROVE CacheIInv'
<1> USE DEF CacheIInv
<1> DEFINE n == caller[p].offset + 1
           content == files[Path(p)]
           got == Append(caller[p].setup, IF n <= Len(content) THEN content[n] ELSE Hole)
<1>1. caller[p].step = "read" /\ UNCHANGED <<files, history>>
  BY DEF Read
<1>2. /\ CallOK(p) /\ BufferOK(p)
      /\ caller[p].circuit \in Circuits /\ Path(p) \in Paths
      /\ content \in Contents
      /\ caller[p].offset \in Nat /\ caller[p].offset < Blocks
      /\ caller[p].setup \in Contents /\ Len(caller[p].setup) = caller[p].offset
  BY <1>1, ShapeAssumption DEF CallInv, BufferInv, CallOK, CacheTypeOK, Path
<1>3. CASE EndOfFile(p)
  <2>1. caller' = [caller EXCEPT ![p].step = "panicked"]
    BY <1>3 DEF Read
  <2>2. /\ caller'[p].step = "panicked"
        /\ DOMAIN caller' = Callers /\ \A q \in Callers \ {p} : caller'[q] = caller[q]
    BY <2>1 DEF CacheTypeOK
  <2>3. CacheTypeOK'
    BY <1>1, <2>1 DEF CacheTypeOK, Steps
  <2>4. CallOK(p)' /\ BufferOK(p)'
    BY <2>2 DEF CallOK, BufferOK
  <2> QED BY <1>1, <2>2, <2>3, <2>4, CallerStep
<1>4. CASE ~ EndOfFile(p)
  <2>1. n <= Len(content) /\ content[n] \in CacheMarks /\ n \in 1 .. Blocks
    <3>1. content \in Seq(CacheMarks) /\ Len(content) \in 0 .. Blocks
      BY <1>2, ContentType
    <3> QED BY <1>2, <1>4, <3>1, ShapeAssumption DEF EndOfFile
  <2>2. got = Append(caller[p].setup, content[n])
    BY <2>1
  <2>3. /\ got \in Contents /\ Len(got) = n /\ got[n] = content[n]
        /\ \A i \in 1 .. n - 1 : got[i] = caller[p].setup[i]
    <3>1. Len(caller[p].setup) < Blocks /\ Len(caller[p].setup) + 1 = n
      BY <1>2
    <3> QED BY <1>2, <2>1, <2>2, <3>1, AppendContent
  <2>4. PICK st \in {"panicked", "returned", "read"} :
           /\ caller' = [caller EXCEPT ![p].offset = n, ![p].setup = got, ![p].step = st]
           /\ st = "returned" => n = Blocks
           /\ st = "read" => n # Blocks
    BY <1>4 DEF Read
  <2> HIDE DEF n, content, got
  <2>5. /\ caller'[p] = [caller[p] EXCEPT !.offset = n, !.setup = got, !.step = st]
        /\ DOMAIN caller' = Callers /\ \A q \in Callers \ {p} : caller'[q] = caller[q]
    BY <2>4 DEF CacheTypeOK
  <2>6. /\ caller'[p].step = st /\ caller'[p].offset = n /\ caller'[p].setup = got
        /\ caller'[p].circuit = caller[p].circuit /\ Path(p)' = Path(p)
    BY <2>5 DEF CacheTypeOK, Path
  <2>7. CacheTypeOK'
    <3>1. caller'[p] \in [step : Steps, circuit : Circuits \cup {None},
                          offset : 0 .. Blocks, setup : Contents]
      <4>1. n \in 0 .. Blocks /\ st \in Steps /\ caller[p].circuit \in Circuits \cup {None}
        BY <1>2, <2>1, <2>4, ShapeAssumption DEF Steps
      <4>2. caller'[p] = [step |-> st, circuit |-> caller[p].circuit,
                          offset |-> n, setup |-> got]
        <5>1. caller[p] \in [step : Steps, circuit : Circuits \cup {None},
                             offset : 0 .. Blocks, setup : Contents]
          BY DEF CacheTypeOK
        <5> QED BY <2>5, <5>1
      <4> QED BY <2>3, <4>1, <4>2
    <3> QED BY <1>1, <2>4, <2>5, <3>1 DEF CacheTypeOK
  <2>8. CallOK(p)'
    BY <1>1, <1>2, <2>1, <2>3, <2>4, <2>6, ShapeAssumption DEF CallOK, content
  <2>9. BufferOK(p)'
    <3>1. ASSUME ~ history[Path(p)].overlap
          PROVE  content[n] \in history[Path(p)].writers
      BY <1>2, <2>1, <3>1 DEF TidyInv, TidyOK, content
    <3>2. ASSUME ~ history[Path(p)].overlap, NEW i \in 1 .. n
          PROVE  got[i] \in history[Path(p)].writers
      <4>1. CASE i = n
        BY <2>3, <3>1, <3>2, <4>1
      <4>2. CASE i # n
        BY <1>1, <1>2, <2>1, <2>3, <3>2, <4>2 DEF BufferOK, n
      <4> QED BY <4>1, <4>2
    <3> QED BY <1>1, <2>3, <2>6, <3>2 DEF BufferOK
  <2> QED BY <1>1, <2>4, <2>5, <2>6, <2>7, <2>8, <2>9, CallerStep
<1> QED BY <1>3, <1>4

LEMMA StepCreate ==
    ASSUME CacheIInv, NEW p \in Callers, Create(p) PROVE CacheIInv'
<1> USE DEF CacheIInv
<1>0. caller[p].circuit \in Circuits /\ Path(p) \in Paths
  BY ShapeAssumption DEF Create, CallInv, CallOK, Path
<1>1. PICK g \in Paths, c \in Circuits : g = Path(p) /\ c = caller[p].circuit
  BY <1>0
<1>2. /\ caller[p].step = "compute" /\ caller[p].offset = 0
      /\ files' = [files EXCEPT ![g] = << >>]
      /\ caller' = [caller EXCEPT ![p].step = "write", ![p].setup = Setup(c)]
      /\ history' = [history EXCEPT ![g].writers = @ \cup {c},
                                    ![g].overlap = @ \/ Writers(g) # {}]
  BY <1>1 DEF Create, CallInv, CallOK
<1>3. /\ caller'[p].step = "write" /\ caller'[p].setup = Setup(c)
      /\ caller'[p].offset = 0 /\ caller'[p].circuit = c /\ Path(p)' = g
      /\ DOMAIN caller' = Callers /\ \A q \in Callers \ {p} : caller'[q] = caller[q]
  BY <1>1, <1>2 DEF CacheTypeOK, Path
<1>4. /\ files'[g] = << >> /\ \A f \in Paths \ {g} : files'[f] = files[f]
      /\ \A f \in Paths \ {g} : history'[f] = history[f]
      /\ history'[g].writers = history[g].writers \cup {c}
      /\ ~ history'[g].overlap => ~ history[g].overlap /\ Writers(g) = {}
  BY <1>2 DEF CacheTypeOK, Histories
<1>5. CacheTypeOK'
  <2>1. files' \in [Paths -> Contents \cup {Absent}]
    BY <1>2, EmptyContent DEF CacheTypeOK
  <2>2. caller' \in [Callers -> [step : Steps, circuit : Circuits \cup {None},
                                 offset : 0 .. Blocks, setup : Contents]]
    <3>1. caller[p] \in [step : Steps, circuit : Circuits \cup {None},
                         offset : 0 .. Blocks, setup : Contents]
      BY DEF CacheTypeOK
    <3>2. Setup(c) \in Contents /\ "write" \in Steps
      BY SetupContent DEF Steps
    <3>3. [caller[p] EXCEPT !.step = "write", !.setup = Setup(c)] \in
             [step : Steps, circuit : Circuits \cup {None},
              offset : 0 .. Blocks, setup : Contents]
      BY <3>1, <3>2
    <3> QED BY <1>2, <3>3 DEF CacheTypeOK
  <2>3. history' \in [Paths -> Histories]
    <3>1. history[g] \in Histories /\ (Writers(g) # {}) \in BOOLEAN
      BY DEF CacheTypeOK
    <3> QED BY <1>2, <3>1 DEF CacheTypeOK, Histories
  <2> QED BY <2>1, <2>2, <2>3 DEF CacheTypeOK
<1>6. /\ Writers(g)' = Writers(g) \cup {p}
      /\ \A f \in Paths \ {g} : Writers(f)' = Writers(f) /\ p \notin Writers(f)
  <2>1. ASSUME NEW q \in Callers, q # p, NEW f
        PROVE  q \in Writers(f)' <=> q \in Writers(f)
    BY <1>3, <2>1 DEF Writers, Path
  <2>2. ASSUME NEW f PROVE p \notin Writers(f) /\ (p \in Writers(f)' <=> f = g)
    BY <1>1, <1>2, <1>3 DEF Writers
  <2>3. \A f : Writers(f) \subseteq Callers /\ Writers(f)' \subseteq Callers
    BY DEF Writers
  <2>4. ASSUME NEW f PROVE f = g => Writers(f)' = Writers(f) \cup {p}
    BY <2>1, <2>2, <2>3
  <2>5. ASSUME NEW f, f # g PROVE Writers(f)' = Writers(f) /\ p \notin Writers(f)
    BY <2>1, <2>2, <2>3, <2>5
  <2> QED BY <2>4, <2>5
<1>7. CallInv'
  <2>1. CallOK(p)'
    <3>1. files'[Path(p)'] \in Contents
      BY <1>3, <1>4, EmptyContent
    <3>2. c \in history'[Path(p)'].writers /\ 0 < Blocks
      BY <1>3, <1>4, ShapeAssumption
    <3> QED BY <1>3, <3>1, <3>2 DEF CallOK
  <2>2. ASSUME NEW q \in Callers, q # p PROVE CallOK(q)'
    <3>1. CallOK(q) /\ caller'[q] = caller[q] /\ Path(q)' = Path(q)
      BY <1>3, <2>2 DEF CallInv, Path
    <3>2. caller[q].circuit \in Circuits => Path(q) \in Paths
      BY ShapeAssumption DEF Path
    <3> QED BY <1>4, <3>1, <3>2, EmptyContent DEF CallOK
  <2> QED BY <2>1, <2>2 DEF CallInv
<1>8. TidyInv'
  <2> SUFFICES ASSUME NEW f \in Paths PROVE TidyOK(f)'
    BY DEF TidyInv
  <2>1. CASE f = g
    BY <1>3, <1>4, <1>6, <2>1, EmptyContent DEF TidyOK
  <2>2. CASE f # g
    <3>1. TidyOK(f) /\ \A q \in Writers(f) : caller'[q] = caller[q]
      BY <1>3, <1>6, <2>2 DEF TidyInv, Writers
    <3> QED BY <1>4, <1>6, <2>2, <3>1 DEF TidyOK
  <2> QED BY <2>1, <2>2
<1>9. BufferInv'
  <2> SUFFICES ASSUME NEW q \in Callers PROVE BufferOK(q)'
    BY DEF BufferInv
  <2>1. CASE q = p
    BY <1>3, <2>1 DEF BufferOK
  <2>2. CASE q # p
    <3>1. BufferOK(q) /\ CallOK(q) /\ caller'[q] = caller[q] /\ Path(q)' = Path(q)
      BY <1>3, <2>2 DEF BufferInv, CallInv, Path
    <3>2. caller[q].circuit \in Circuits => Path(q) \in Paths
      BY ShapeAssumption DEF Path
    <3> QED BY <1>4, <3>1, <3>2 DEF BufferOK, CallOK
  <2> QED BY <2>1, <2>2
<1>10. CoverInv'
  <2> SUFFICES ASSUME NEW f \in Paths PROVE CoverOK(f)'
    BY DEF CoverInv
  <2>1. CASE f = g
    BY <1>3, <1>4, <1>6, <2>1, EmptyContent DEF CoverOK, Covered
  <2>2. CASE f # g
    <3>1. CoverOK(f) /\ \A q \in Writers(f) : caller'[q] = caller[q]
      BY <1>3, <1>6, <2>2 DEF CoverInv, Writers
    <3> QED BY <1>4, <1>6, <2>2, <3>1 DEF CoverOK, Covered
  <2> QED BY <2>1, <2>2
<1> QED BY <1>5, <1>7, <1>8, <1>9, <1>10

\* A write keeps what was covered, and covers one block more for its writer.
LEMMA StepWrite ==
    ASSUME CacheIInv, NEW p \in Callers, Write(p) PROVE CacheIInv'
<1> USE DEF CacheIInv
<1>0. /\ CallOK(p) /\ caller[p].step = "write"
      /\ caller[p].circuit \in Circuits /\ Path(p) \in Paths
      /\ caller[p].offset \in 0 .. Blocks /\ caller[p].offset < Blocks
  BY ShapeAssumption DEF Write, CallInv, CallOK, Path, CacheTypeOK
<1>1. PICK g \in Paths, c \in Circuits, n \in 0 .. Blocks :
         g = Path(p) /\ c = caller[p].circuit /\ n = caller[p].offset
  BY <1>0
<1>2. PICK st \in {"returned", "write"} :
         /\ caller' = [caller EXCEPT ![p].offset = n + 1, ![p].step = st]
         /\ st = "returned" <=> n + 1 = Blocks
  BY <1>1 DEF Write
<1>3. PICK old \in Contents : old = files[g]
  BY <1>0, <1>1 DEF CallOK
<1> DEFINE new == Written(old, n, c)
<1>4. /\ files' = [files EXCEPT ![g] = new] /\ history' = history
      /\ files'[g] = new /\ \A f \in Paths \ {g} : files'[f] = files[f]
  BY <1>1, <1>3 DEF Write, CacheTypeOK
<1>5. n \in Nat /\ n < Blocks /\ n + 1 \in 1 .. Blocks
  BY <1>0, <1>1, ShapeAssumption
<1>6. /\ old \in Seq(CacheMarks) /\ Len(old) \in 0 .. Blocks
      /\ new \in Contents
      /\ Len(new) = IF Len(old) > n THEN Len(old) ELSE n + 1
      /\ new[n + 1] = c
      /\ \A i \in 1 .. Len(old) : i # n + 1 => new[i] = old[i]
  BY <1>5, WrittenContent, ContentType
<1> HIDE DEF new
<1>7. c \in history[g].writers /\ caller[p].setup = Setup(c)
  BY <1>0, <1>1 DEF CallOK
<1>8. /\ caller'[p].step = st /\ caller'[p].setup = Setup(c)
      /\ caller'[p].offset = n + 1 /\ caller'[p].circuit = c /\ Path(p)' = g
      /\ DOMAIN caller' = Callers /\ \A q \in Callers \ {p} : caller'[q] = caller[q]
  BY <1>1, <1>2, <1>7 DEF CacheTypeOK, Path
<1>9. CacheTypeOK'
  <2>1. files' \in [Paths -> Contents \cup {Absent}]
    BY <1>4, <1>6 DEF CacheTypeOK
  <2>2. caller' \in [Callers -> [step : Steps, circuit : Circuits \cup {None},
                                 offset : 0 .. Blocks, setup : Contents]]
    <3>1. caller[p] \in [step : Steps, circuit : Circuits \cup {None},
                         offset : 0 .. Blocks, setup : Contents]
      BY DEF CacheTypeOK
    <3>2. n + 1 \in 0 .. Blocks /\ st \in Steps
      BY <1>5, ShapeAssumption DEF Steps
    <3>3. [caller[p] EXCEPT !.offset = n + 1, !.step = st] \in
             [step : Steps, circuit : Circuits \cup {None},
              offset : 0 .. Blocks, setup : Contents]
      BY <3>1, <3>2
    <3> QED BY <1>2, <3>3 DEF CacheTypeOK
  <2> QED BY <1>4, <2>1, <2>2 DEF CacheTypeOK
<1>10. ASSUME NEW f \in Paths
       PROVE  /\ Writers(f)' \subseteq Writers(f)
              /\ \A q \in Writers(f) : q # p => q \in Writers(f)' /\ caller'[q] = caller[q]
              /\ f # g => p \notin Writers(f) /\ Writers(f)' = Writers(f)
              /\ f = g => p \in Writers(f)
              /\ f = g /\ st = "write" => p \in Writers(f)'
  <2>1. ASSUME NEW q \in Callers, q # p
        PROVE  (q \in Writers(f)' <=> q \in Writers(f)) /\ caller'[q] = caller[q]
    BY <1>8, <2>1 DEF Writers, Path
  <2>2. /\ p \in Writers(f) <=> f = g
        /\ p \in Writers(f)' <=> f = g /\ st = "write"
    BY <1>0, <1>1, <1>8 DEF Writers
  <2>3. Writers(f) \subseteq Callers /\ Writers(f)' \subseteq Callers
    BY DEF Writers
  <2> QED BY <2>1, <2>2, <2>3
<1>11. CallInv'
  <2>1. CallOK(p)'
    <3>1. files'[Path(p)'] \in Contents
      BY <1>4, <1>6, <1>8
    <3>2. c \in history'[Path(p)'].writers
      BY <1>4, <1>7, <1>8
    <3>4. st = "write" => n + 1 < Blocks
      BY <1>2, <1>5, ShapeAssumption
    <3>3. Len(Setup(c)) = Blocks
      BY SetupContent
    <3> QED BY <1>8, <3>1, <3>2, <3>3, <3>4 DEF CallOK
  <2>2. ASSUME NEW q \in Callers, q # p PROVE CallOK(q)'
    <3>1. CallOK(q) /\ caller'[q] = caller[q] /\ Path(q)' = Path(q)
      BY <1>8, <2>2 DEF CallInv, Path
    <3>2. caller[q].circuit \in Circuits => Path(q) \in Paths
      BY ShapeAssumption DEF Path
    <3> QED BY <1>4, <1>6, <3>1, <3>2 DEF CallOK
  <2> QED BY <2>1, <2>2 DEF CallInv
<1>12. TidyInv'
  <2> SUFFICES ASSUME NEW f \in Paths, ~ history'[f].overlap
               PROVE  /\ \A q, r \in Writers(f)' : q = r
                      /\ \A q \in Writers(f)' : Len(files'[f]) = caller'[q].offset
                      /\ files'[f] \in Contents =>
                            \A i \in 1 .. Len(files'[f]) : files'[f][i] \in history'[f].writers
    BY DEF TidyInv, TidyOK
  <2>1. TidyOK(f) /\ ~ history[f].overlap
    BY <1>4 DEF TidyInv
  <2>2. CASE f = g
    <3>1. Len(old) = n /\ \A i \in 1 .. Len(old) : old[i] \in history[g].writers
      <4>1. p \in Writers(f) /\ files[f] = old
        BY <1>3, <1>10, <2>2
      <4>2. Len(files[f]) = caller[p].offset
        BY <2>1, <4>1 DEF TidyOK
      <4>3. \A i \in 1 .. Len(files[f]) : files[f][i] \in history[f].writers
        BY <2>1, <4>1 DEF TidyOK
      <4>4. Len(old) = n
        BY <1>1, <4>1, <4>2
      <4>5. \A i \in 1 .. Len(old) : old[i] \in history[f].writers
        BY <4>1, <4>3
      <4>6. history[f] = history[g]
        BY <2>2
      <4> QED BY <4>4, <4>5, <4>6
    <3>2. Len(new) = n + 1 /\ \A i \in 1 .. n + 1 : new[i] \in history[g].writers
      <4>1. Len(new) = n + 1
        BY <1>5, <1>6, <3>1
      <4>2. ASSUME NEW i \in 1 .. n + 1, i # n + 1 PROVE new[i] \in history[g].writers
        <5>1. i \in 1 .. Len(old)
          BY <1>5, <3>1, <4>2
        <5> QED BY <1>6, <3>1, <4>2, <5>1
      <4> QED BY <1>6, <1>7, <4>1, <4>2
    <3>3. \A q \in Writers(f)' : q = p
      BY <1>10, <2>1, <2>2 DEF TidyOK
    <3> QED BY <1>4, <1>8, <2>2, <3>2, <3>3
  <2>3. CASE f # g
    BY <1>4, <1>10, <2>1, <2>3 DEF TidyOK
  <2> QED BY <2>2, <2>3
<1>13. BufferInv'
  <2>1. BufferOK(p)'
    <3>1. \A i \in 1 .. Len(Setup(c)) : Setup(c)[i] = c
      BY SetupContent
    <3> QED BY <1>4, <1>7, <1>8, <3>1 DEF BufferOK
  <2>2. ASSUME NEW q \in Callers, q # p PROVE BufferOK(q)'
    <3>1. BufferOK(q) /\ caller'[q] = caller[q] /\ Path(q)' = Path(q)
      BY <1>8, <2>2 DEF BufferInv, Path
    <3> QED BY <1>4, <3>1 DEF BufferOK
  <2> QED BY <2>1, <2>2 DEF BufferInv
<1>14. CoverInv'
  <2> SUFFICES ASSUME NEW f \in Paths, files'[f] \in Contents, ~ history'[f].killed
               PROVE  \/ Covered(f, Blocks)'
                      \/ \E q \in Writers(f)' : Covered(f, caller[q].offset)'
    BY DEF CoverInv, CoverOK
  <2>1. CASE f # g
    BY <1>4, <1>10, <2>1 DEF CoverInv, CoverOK, Covered
  <2>2. CASE f = g
    <3>1. ASSUME NEW m \in Nat, Covered(f, m) PROVE Covered(f, m)'
      <4>1. m <= Len(old) /\ \A i \in 1 .. m : old[i] \in history[g].writers
        BY <1>3, <2>2, <3>1 DEF Covered
      <4>2. m <= Len(new) /\ \A i \in 1 .. m : new[i] \in history[g].writers
        BY <1>5, <1>6, <1>7, <4>1
      <4> QED BY <1>4, <2>2, <4>2 DEF Covered
    <3>2. ASSUME Covered(f, n) PROVE Covered(f, n + 1)'
      <4>1. n <= Len(old) /\ \A i \in 1 .. n : old[i] \in history[g].writers
        BY <1>3, <2>2, <3>2 DEF Covered
      <4>2. n + 1 <= Len(new) /\ \A i \in 1 .. n + 1 : new[i] \in history[g].writers
        BY <1>5, <1>6, <1>7, <4>1
      <4> QED BY <1>4, <2>2, <4>2 DEF Covered
    <3>3. Covered(f, Blocks) \/ \E q \in Writers(f) : Covered(f, caller[q].offset)
      BY <1>3, <1>4, <2>2 DEF CoverInv, CoverOK
    <3>4. CASE Covered(f, Blocks)
      BY <3>1, <3>4, ShapeAssumption
    <3>5. CASE \E q \in Writers(f) : Covered(f, caller[q].offset)
      <4>1. PICK q \in Writers(f) : Covered(f, caller[q].offset)
        BY <3>5
      <4>2. CASE q = p
        <5>1. Covered(f, n + 1)'
          BY <1>1, <3>2, <4>1, <4>2
        <5>2. st = "write" => p \in Writers(f)' /\ caller'[p].offset = n + 1
          BY <1>8, <1>10, <2>2
        <5> QED BY <1>2, <5>1, <5>2 DEF Covered
      <4>3. CASE q # p
        <5>1. q \in Writers(f)' /\ caller'[q] = caller[q]
          BY <1>10, <4>1, <4>3
        <5>2. caller[q].offset \in Nat
          BY DEF CacheTypeOK, Writers
        <5> QED BY <3>1, <4>1, <5>1, <5>2 DEF Covered
      <4> QED BY <4>2, <4>3
    <3> QED BY <3>3, <3>4, <3>5
  <2> QED BY <2>1, <2>2
<1> QED BY <1>9, <1>11, <1>12, <1>13, <1>14

\* Who is killed while it writes leaves a mark; who is not leaves no trace.
LEMMA StepKill ==
    ASSUME CacheIInv, NEW p \in Callers, Kill(p) PROVE CacheIInv'
<1> USE DEF CacheIInv
<1>0. caller[p].circuit \in Circuits /\ Path(p) \in Paths
  BY ShapeAssumption DEF Kill, Busy, CallInv, CallOK, Path
<1>1. PICK g \in Paths : g = Path(p)
  BY <1>0
<1>2. /\ caller' = [caller EXCEPT ![p].step = "killed"] /\ files' = files
      /\ history' = [history EXCEPT ![g].killed = @ \/ caller[p].step = "write"]
  BY <1>1 DEF Kill
<1>3. /\ caller'[p].step = "killed"
      /\ DOMAIN caller' = Callers /\ \A q \in Callers \ {p} : caller'[q] = caller[q]
  BY <1>2 DEF CacheTypeOK
<1>4. /\ \A f \in Paths : /\ history'[f].writers = history[f].writers
                          /\ history'[f].overlap = history[f].overlap
                          /\ ~ history'[f].killed => ~ history[f].killed
      /\ ~ history'[g].killed => caller[p].step # "write"
  BY <1>2 DEF CacheTypeOK, Histories
<1>5. CacheTypeOK'
  <2>1. caller' \in [Callers -> [step : Steps, circuit : Circuits \cup {None},
                                 offset : 0 .. Blocks, setup : Contents]]
    BY <1>2 DEF CacheTypeOK, Steps
  <2>2. history' \in [Paths -> Histories]
    <3>1. history[g] \in Histories /\ (caller[p].step = "write") \in BOOLEAN
      BY DEF CacheTypeOK
    <3> QED BY <1>2, <3>1 DEF CacheTypeOK, Histories
  <2> QED BY <1>2, <2>1, <2>2 DEF CacheTypeOK
<1>6. ASSUME NEW f \in Paths
      PROVE  /\ Writers(f)' \subseteq Writers(f)
             /\ \A q \in Writers(f)' : caller'[q] = caller[q]
             /\ p \in Writers(f) => f = g /\ caller[p].step = "write"
             /\ p \notin Writers(f) => Writers(f)' = Writers(f)
  <2>1. ASSUME NEW q \in Callers, q # p
        PROVE  (q \in Writers(f)' <=> q \in Writers(f)) /\ caller'[q] = caller[q]
    BY <1>3, <2>1 DEF Writers, Path
  <2>2. /\ p \notin Writers(f)'
        /\ p \in Writers(f) => f = g /\ caller[p].step = "write"
    BY <1>1, <1>3 DEF Writers
  <2>3. Writers(f) \subseteq Callers /\ Writers(f)' \subseteq Callers
    BY DEF Writers
  <2> QED BY <2>1, <2>2, <2>3
<1>7. CallInv' /\ BufferInv'
  <2>1. CallOK(p)' /\ BufferOK(p)'
    BY <1>3 DEF CallOK, BufferOK
  <2>2. ASSUME NEW q \in Callers, q # p PROVE CallOK(q)' /\ BufferOK(q)'
    <3>1. CallOK(q) /\ BufferOK(q) /\ caller'[q] = caller[q] /\ Path(q)' = Path(q)
      BY <1>3, <2>2 DEF CallInv, BufferInv, Path
    <3>2. caller[q].circuit \in Circuits => Path(q) \in Paths
      BY ShapeAssumption DEF Path
    <3> QED BY <1>2, <1>4, <3>1, <3>2 DEF CallOK, BufferOK
  <2> QED BY <2>1, <2>2 DEF CallInv, BufferInv
<1>8. ASSUME NEW f \in Paths PROVE TidyOK(f)'
  <2>1. TidyOK(f)
    BY DEF TidyInv
  <2> QED BY <1>2, <1>4, <1>6, <2>1 DEF TidyOK
<1>9. ASSUME NEW f \in Paths PROVE CoverOK(f)'
  <2>1. CoverOK(f)
    BY DEF CoverInv
  <2> QED BY <1>2, <1>4, <1>6, <2>1 DEF CoverOK, Covered
<1> QED BY <1>5, <1>7, <1>8, <1>9 DEF TidyInv, CoverInv

LEMMA CacheIInvStep == ASSUME CacheIInv, [CacheNext]_cacheVars PROVE CacheIInv'
<1>1. CASE CacheNext
  <2>1. PICK p \in Callers :
           \/ \E c \in Circuits : Call(p, c)
           \/ AuditPanics(p) \/ Create(p) \/ Write(p) \/ Read(p) \/ Kill(p)
    BY <1>1 DEF CacheNext
  <2> QED BY <2>1, StepCall, StepAuditPanics, StepCreate, StepWrite, StepRead, StepKill
<1>2. CASE UNCHANGED cacheVars
  BY <1>2 DEF cacheVars, CacheIInv, CacheTypeOK, CallInv, CallOK, TidyInv, TidyOK, BufferInv,
              BufferOK, CoverInv, CoverOK, Covered, Writers, Path
<1> QED BY <1>1, <1>2

\* The inductive invariant holds in every reachable state.
THEOREM CacheInvariance == CacheSpec => []CacheIInv
<1>1. CacheIInv /\ [CacheNext]_cacheVars => CacheIInv'
  BY CacheIInvStep
<1> QED BY CacheIInvInit, <1>1, PTL DEF CacheSpec

--------------------------------------------------------------------------------
\* What is on disk and in memory has its type: no write leaves a file, and no
\* read a buffer, that is longer than a setup.
THEOREM CacheTypeCorrect == CacheSpec => []CacheTypeOK
<1>1. CacheIInv => CacheTypeOK
  BY DEF CacheIInv
<1> QED BY CacheInvariance, <1>1, PTL

\* As long as one circuit was written to a file and no two writers met on it, a
\* call returns that circuit's whole setup: never a file cut short by a crash.
THEOREM WholeSetup == CacheSpec => []ReturnsWholeSetup
<1>1. ASSUME CacheIInv PROVE ReturnsWholeSetup
  <2> SUFFICES ASSUME NEW p \in Callers, caller[p].step = "returned",
                      OneCircuit(Path(p)), ~ history[Path(p)].overlap
               PROVE  \E c \in history[Path(p)].writers : caller[p].setup = Setup(c)
    BY DEF ReturnsWholeSetup
  <2> DEFINE got == caller[p].setup
  <2>1. /\ got \in Contents /\ Len(got) = Blocks
        /\ \A i \in 1 .. Blocks : got[i] \in history[Path(p)].writers
    BY <1>1 DEF CacheIInv, CacheTypeOK, CallInv, CallOK, BufferInv, BufferOK
  <2>2. got = [i \in 1 .. Blocks |-> got[i]] /\ 1 \in 1 .. Blocks
    <3>1. got \in Seq(CacheMarks)
      BY <2>1, ContentType
    <3> QED BY <2>1, <3>1, ShapeAssumption
  <2> HIDE DEF got
  <2>3. \A i \in 1 .. Blocks : got[i] = got[1]
    BY <2>1, <2>2 DEF OneCircuit
  <2>4. got = Setup(got[1]) /\ got[1] \in history[Path(p)].writers
    BY <2>1, <2>2, <2>3 DEF Setup
  <2> QED BY <2>4 DEF got
<1>2. CacheIInv => ReturnsWholeSetup
  BY <1>1
<1> QED BY CacheInvariance, <1>2, PTL

\* Writers of one circuit may race: once they are through and none was killed,
\* the file is whole, whatever was truncated and skipped on the way.
THEOREM RacesHeal == CacheSpec => []RaceHeals
<1>1. ASSUME CacheIInv PROVE RaceHeals
  <2> SUFFICES ASSUME NEW f \in Paths, files[f] # Absent, Writers(f) = {},
                      ~ history[f].killed, OneCircuit(f)
               PROVE  \E c \in history[f].writers : files[f] = Setup(c)
    BY DEF RaceHeals
  <2>1. PICK content \in Contents : content = files[f]
    BY <1>1 DEF CacheIInv, CacheTypeOK
  <2>2. Covered(f, Blocks)
    BY <1>1, <2>1 DEF CacheIInv, CoverInv, CoverOK
  <2>3. content \in Seq(CacheMarks) /\ Len(content) = Blocks
    <3>1. content \in Seq(CacheMarks) /\ Len(content) \in 0 .. Blocks
      BY ContentType
    <3> QED BY <2>1, <2>2, <3>1, ShapeAssumption DEF Covered
  <2>4. content = [i \in 1 .. Blocks |-> content[i]] /\ 1 \in 1 .. Blocks
    BY <2>3, ShapeAssumption
  <2>5. \A i \in 1 .. Blocks :
           content[i] \in history[f].writers /\ content[i] = content[1]
    BY <2>1, <2>2, <2>4 DEF Covered, OneCircuit
  <2>6. content = Setup(content[1]) /\ content[1] \in history[f].writers
    BY <2>4, <2>5 DEF Setup
  <2> QED BY <2>1, <2>6
<1>2. CacheIInv => RaceHeals
  BY <1>1
<1> QED BY CacheInvariance, <1>2, PTL

\* A file cut short with no writer left, and nobody who found it absent, stays
\* short: nothing in the code ever writes it again.
THEOREM PoisonForGood == CacheSpec => PoisonStays
<1>1. ASSUME CacheIInv, [CacheNext]_cacheVars, NEW f \in Paths, Poisoned(f) PROVE Poisoned(f)'
  <2>1. CASE CacheNext
    <3>1. PICK p \in Callers :
             \/ \E c \in Circuits : Call(p, c)
             \/ AuditPanics(p) \/ Create(p) \/ Write(p) \/ Read(p) \/ Kill(p)
      BY <2>1 DEF CacheNext
    <3>2. ASSUME NEW c \in Circuits, Call(p, c) PROVE Poisoned(f)'
      BY <1>1, <3>2, ShapeAssumption DEF Call, Poisoned, Path, CacheIInv, CacheTypeOK
    <3>3. CASE AuditPanics(p)
      BY <1>1, <3>3 DEF AuditPanics, Poisoned, Path, CacheIInv, CacheTypeOK
    <3>4. CASE Create(p)
      <4>1. Path(p) # f
        BY <1>1, <3>4 DEF Create, Poisoned
      <4> QED BY <1>1, <3>4, <4>1 DEF Create, Poisoned, Path, CacheIInv, CacheTypeOK
    <3>5. CASE Write(p)
      <4>1. Path(p) # f
        BY <1>1, <3>5 DEF Write, Poisoned
      <4>2. files'[f] = files[f]
        BY <1>1, <3>5, <4>1 DEF Write, CacheIInv, CacheTypeOK
      <4>3. /\ Path(p)' = Path(p)
            /\ \A q \in Callers \ {p} : caller'[q] = caller[q] /\ Path(q)' = Path(q)
        BY <1>1, <3>5 DEF Write, Path, CacheIInv, CacheTypeOK
      <4>4. ASSUME NEW q \in Callers, caller'[q].step \in {"compute", "write"}
            PROVE  Path(q)' # f
        <5>1. CASE q = p
          BY <4>1, <4>3, <5>1
        <5>2. CASE q # p
          BY <1>1, <4>3, <4>4, <5>2 DEF Poisoned
        <5> QED BY <5>1, <5>2
      <4> QED BY <1>1, <4>2, <4>4 DEF Poisoned
    <3>6. CASE Read(p)
      <4>1. PICK st \in {"panicked", "returned", "read"} :
               /\ caller'[p].step = st
               /\ \A q \in Callers \ {p} : caller'[q] = caller[q]
        <5>1. caller \in [Callers -> [step : Steps, circuit : Circuits \cup {None},
                                      offset : 0 .. Blocks, setup : Contents]]
          BY <1>1 DEF CacheIInv, CacheTypeOK
        <5>2. CASE EndOfFile(p)
          BY <3>6, <5>1, <5>2 DEF Read
        <5>3. CASE ~ EndOfFile(p)
          <6> DEFINE n == caller[p].offset + 1
                     content == files[Path(p)]
                     got == Append(caller[p].setup,
                                   IF n <= Len(content) THEN content[n] ELSE Hole)
          <6>1. PICK st \in {"panicked", "returned", "read"} :
                   caller' = [caller EXCEPT ![p].offset = n, ![p].setup = got,
                                            ![p].step = st]
            BY <3>6, <5>3 DEF Read
          <6> HIDE DEF n, got
          <6> QED BY <5>1, <6>1
        <5> QED BY <5>2, <5>3
      <4>2. files' = files /\ \A q \in Callers \ {p} : Path(q)' = Path(q)
        BY <3>6, <4>1 DEF Read, Path
      <4> QED BY <1>1, <4>1, <4>2 DEF Poisoned
    <3>7. CASE Kill(p)
      BY <1>1, <3>7 DEF Kill, Poisoned, Path, CacheIInv, CacheTypeOK
    <3> QED BY <3>1, <3>2, <3>3, <3>4, <3>5, <3>6, <3>7
  <2>2. CASE UNCHANGED cacheVars
    BY <1>1, <2>2 DEF cacheVars, Poisoned, Path
  <2> QED BY <1>1, <2>1, <2>2
<1>2. CacheIInv /\ [CacheNext]_cacheVars => [\A f \in Paths : Poisoned(f) => Poisoned(f)']_cacheVars
  BY <1>1
<1> QED BY CacheInvariance, <1>2, PTL DEF CacheSpec, PoisonStays

--------------------------------------------------------------------------------
(***************************************************************************)
(* BountyPackage.                                                          *)
(***************************************************************************)
Bytes == 1 .. 255

LEMMA DivMod ==
    ASSUME NEW a \in Nat, NEW b \in Nat \ {0}
    PROVE  a \div b \in Nat /\ a % b \in 0 .. b - 1 /\ a = (a \div b) * b + (a % b)
OBVIOUS

\* A package has its head, a proving key and two shares.
LEMMA Totals ==
    ASSUME NEW i \in Inputs
    PROVE  Total(i) \in Nat /\ PkUnits[i] \in Nat \ {0} /\ ShareUnits[i] \in Nat \ {0}
BY UnitsAssumption DEF Total

--------------------------------------------------------------------------------
(***************************************************************************)
(* The statement hash shows the text of a command line, passphrase and     *)
(* context run together, and little more.                                  *)
(***************************************************************************)
Elements == [1 .. ChunkBytes -> 0 .. 255]

\* The number of elements of a text: as many as its bytes fill, and at least one.
Count(text) == IF Len(text) = 0 THEN 1 ELSE (Len(text) + ChunkBytes - 1) \div ChunkBytes

\* A text goes on with zeros for ever.
Byte(text, at) == IF at <= Len(text) THEN text[at] ELSE 0

LEMMA AbsorbedChunks ==
    ASSUME NEW text \in Seq(Bytes)
    PROVE  /\ Absorbed(text) \in Seq(Elements)
           /\ Count(text) \in Nat /\ Len(Absorbed(text)) = Count(text)
           /\ \A k \in 1 .. Count(text) : Absorbed(text)[k] = Chunk(text, k)
<1>1. ASSUME NEW k \in Nat \ {0} PROVE Chunk(text, k) \in Elements
  <2>1. ASSUME NEW b \in 1 .. ChunkBytes
        PROVE  (IF (k - 1) * ChunkBytes + b <= Len(text)
                THEN text[(k - 1) * ChunkBytes + b] ELSE 0) \in 0 .. 255
    <3>1. (k - 1) * ChunkBytes \in Nat
      BY ChunkAssumption
    <3>2. (k - 1) * ChunkBytes + b \in Nat \ {0}
      BY <3>1, ChunkAssumption
    <3>3. \A at \in Nat \ {0} : (IF at <= Len(text) THEN text[at] ELSE 0) \in 0 .. 255
      <4>1. \A at \in 1 .. Len(text) : text[at] \in Bytes
        OBVIOUS
      <4> QED BY <4>1 DEF Bytes
    <3> QED BY <3>2, <3>3
  <2> QED BY <2>1 DEF Chunk, Elements
<1>2. CASE text = << >>
  <2>1. Chunk(text, 1) = ZeroElement
    <3>1. ASSUME NEW b \in 1 .. ChunkBytes
          PROVE  (1 - 1) * ChunkBytes + b = b /\ ~ (b <= Len(text))
      BY <1>2, ChunkAssumption
    <3> QED BY <3>1 DEF Chunk, ZeroElement
  <2>2. Absorbed(text) = <<Chunk(text, 1)>> /\ Count(text) = 1
    BY <1>2, <2>1 DEF Absorbed, Count
  <2> QED BY <1>1, <2>2
<1>3. CASE text # << >>
  <2>1. Len(text) \in Nat \ {0}
    BY <1>3
  <2>2. Count(text) = (Len(text) + ChunkBytes - 1) \div ChunkBytes /\ Count(text) \in Nat
    <3>1. Len(text) + ChunkBytes - 1 \in Nat
      BY <2>1, ChunkAssumption
    <3> QED BY <2>1, <3>1, DivMod, ChunkAssumption DEF Count
  <2>3. Absorbed(text) = [k \in 1 .. Count(text) |-> Chunk(text, k)]
    BY <1>3, <2>2 DEF Absorbed
  <2>4. Absorbed(text) \in [1 .. Count(text) -> Elements]
    BY <1>1, <2>3
  <2> QED BY <2>2, <2>3, <2>4
<1> QED BY <1>2, <1>3

\* The elements have room for the text, and less than one of them is filled up.
LEMMA CountBounds ==
    ASSUME NEW text \in Seq(Bytes)
    PROVE  /\ Count(text) \in Nat \ {0}
           /\ Len(text) <= Count(text) * ChunkBytes
           /\ Count(text) > 1 => Count(text) * ChunkBytes < Len(text) + ChunkBytes
<1>1. CASE Len(text) = 0
  BY <1>1, ChunkAssumption DEF Count
<1>2. CASE Len(text) # 0
  <2> DEFINE room == Len(text) + ChunkBytes - 1
             q == room \div ChunkBytes
             r == room % ChunkBytes
  <2>1. Len(text) \in Nat \ {0} /\ room \in Nat /\ room = Len(text) + ChunkBytes - 1
        /\ ChunkBytes \in Nat \ {0}
    BY <1>2, ChunkAssumption
  <2> HIDE DEF room
  <2>2. /\ q \in Nat /\ r \in 0 .. ChunkBytes - 1 /\ room = q * ChunkBytes + r
        /\ Count(text) = q
    <3>1. q \in Nat /\ r \in 0 .. ChunkBytes - 1 /\ room = q * ChunkBytes + r
      BY <2>1, DivMod
    <3>2. Count(text) = q
      BY <1>2 DEF Count, room
    <3> QED BY <3>1, <3>2
  <2> HIDE DEF q, r
  <2>3. q * ChunkBytes \in Nat
    BY <2>1, <2>2
  <2>4. q # 0
    <3>1. q = 0 => q * ChunkBytes = 0
      BY <2>1
    <3> QED BY <2>1, <2>2, <2>3, <3>1
  <2> QED BY <2>1, <2>2, <2>3, <2>4
<1> QED BY <1>1, <1>2

\* Every place belongs to one byte of one element.
LEMMA ByteOfChunk ==
    ASSUME NEW at \in Nat \ {0}
    PROVE  \E k \in Nat \ {0}, b \in 1 .. ChunkBytes : (k - 1) * ChunkBytes + b = at
<1> DEFINE q == (at - 1) \div ChunkBytes
           r == (at - 1) % ChunkBytes
<1>1. /\ q \in Nat /\ r \in 0 .. ChunkBytes - 1 /\ at - 1 = q * ChunkBytes + r
      /\ q * ChunkBytes \in Nat /\ ChunkBytes \in Nat \ {0}
  <2>1. at - 1 \in Nat
    OBVIOUS
  <2>2. q \in Nat /\ r \in 0 .. ChunkBytes - 1 /\ at - 1 = q * ChunkBytes + r
    BY <2>1, DivMod, ChunkAssumption
  <2> HIDE DEF q, r
  <2> QED BY <2>2, ChunkAssumption
<1> HIDE DEF q, r
<1>2. q + 1 \in Nat \ {0} /\ r + 1 \in 1 .. ChunkBytes /\ (q + 1) - 1 = q
  BY <1>1
<1>3. ((q + 1) - 1) * ChunkBytes + (r + 1) = at
  <2>1. ((q + 1) - 1) * ChunkBytes = q * ChunkBytes
    BY <1>2
  <2> QED BY <1>1, <2>1
<1> QED BY <1>2, <1>3

LEMMA NoNul == \A x \in Bytes : x # 0
BY DEF Bytes

\* Texts without NUL bytes are what they go on with before the zeros.
LEMMA BytesEqual ==
    ASSUME NEW s \in Seq(Bytes), NEW t \in Seq(Bytes),
           \A at \in Nat \ {0} : Byte(s, at) = Byte(t, at)
    PROVE  s = t
<1>1. ASSUME NEW u \in Seq(Bytes), NEW v \in Seq(Bytes), NEW at \in 1 .. Len(u),
             Byte(u, at) = Byte(v, at)
      PROVE  at <= Len(v) /\ u[at] = v[at]
  <2>1. u[at] \in Bytes
    OBVIOUS
  <2>2. u[at] # 0
    BY <2>1, NoNul
  <2> QED BY <1>1, <2>2 DEF Byte
<1>2. \A at \in 1 .. Len(s) : at <= Len(t) /\ s[at] = t[at]
  BY <1>1
<1>3. \A at \in 1 .. Len(t) : at <= Len(s) /\ t[at] = s[at]
  BY <1>1
<1>4. Len(s) = Len(t)
  BY <1>2, <1>3
<1> QED BY <1>2, <1>4, SeqEqual

\* The bytes under the statement hash: those of the passphrase, zeros up to the end of its
\* last element, those of the context, and zeros.
Width(x) == Count(x.pass) * ChunkBytes
Stream(x, at) ==
    IF at <= Width(x) THEN Byte(x.pass, at) ELSE Byte(x.ctx, at - Width(x))

\* Chunk k of a text is there beyond its end, too: then it is zero.
LEMMA ChunkByte ==
    ASSUME NEW text \in Seq(Bytes), NEW k \in Nat \ {0}, NEW b \in 1 .. ChunkBytes
    PROVE  /\ Chunk(text, k)[b] = Byte(text, (k - 1) * ChunkBytes + b)
           /\ k > Count(text) => Chunk(text, k)[b] = 0
<1>1. Chunk(text, k)[b] = Byte(text, (k - 1) * ChunkBytes + b)
  BY DEF Chunk, Byte
<1>2. ASSUME k > Count(text) PROVE ~ ((k - 1) * ChunkBytes + b <= Len(text))
  <2>1. PICK n \in Nat \ {0} : n = Count(text) /\ Len(text) <= n * ChunkBytes
    BY CountBounds
  <2>2. PICK c \in Nat : k - 1 = n + c
    <3>1. (k - 1) - n \in Nat /\ k - 1 = n + ((k - 1) - n)
      BY <1>2, <2>1
    <3> QED BY <3>1
  <2>3. (n + c) * ChunkBytes = n * ChunkBytes + c * ChunkBytes /\ c * ChunkBytes \in Nat
        /\ n * ChunkBytes \in Nat
    BY ChunkAssumption
  <2>4. (k - 1) * ChunkBytes = n * ChunkBytes + c * ChunkBytes
    BY <2>2, <2>3
  <2>5. b \in Nat \ {0}
    BY ChunkAssumption
  <2>6. Len(text) \in Nat
    OBVIOUS
  <2> QED BY <2>1, <2>3, <2>4, <2>5, <2>6
<1>3. k > Count(text) => Byte(text, (k - 1) * ChunkBytes + b) = 0
  BY <1>2 DEF Byte
<1> QED BY <1>1, <1>3

InputTexts(x) == x.pass \in Seq(Bytes) /\ x.ctx \in Seq(Bytes)

LEMMA InputsAreTexts ==
    ASSUME NEW x \in Inputs
    PROVE  InputTexts(x) /\ x = [pass |-> x.pass, ctx |-> x.ctx]
BY InputsAssumption DEF Bytes, InputTexts

\* Element k of the hash, which goes on with zeros, is one of the passphrase or the context.
LEMMA HashElement ==
    ASSUME NEW x \in Inputs, NEW k \in Nat \ {0}, NEW b \in 1 .. ChunkBytes
    PROVE  (IF k <= Len(StatementHash[x]) THEN StatementHash[x][k] ELSE ZeroElement)[b]
             = IF k <= Count(x.pass) THEN Chunk(x.pass, k)[b]
               ELSE Chunk(x.ctx, k - Count(x.pass))[b]
<1> DEFINE n == Count(x.pass)
           m == Count(x.ctx)
           e == Absorbed(x.pass) \o Absorbed(x.ctx)
           missing == (Rate - (Len(e) % Rate)) % Rate
           pad == [u \in 1 .. missing |-> ZeroElement]
<1>1. /\ n \in Nat \ {0} /\ m \in Nat \ {0}
      /\ x.pass \in Seq(Bytes) /\ x.ctx \in Seq(Bytes)
      /\ Absorbed(x.pass) \in Seq(Elements) /\ Absorbed(x.ctx) \in Seq(Elements)
      /\ Len(Absorbed(x.pass)) = n /\ Len(Absorbed(x.ctx)) = m
      /\ \A u \in 1 .. n : Absorbed(x.pass)[u] = Chunk(x.pass, u)
      /\ \A u \in 1 .. m : Absorbed(x.ctx)[u] = Chunk(x.ctx, u)
  BY InputsAreTexts, AbsorbedChunks, CountBounds DEF InputTexts
<1> HIDE DEF n, m
<1>2. /\ e \in Seq(Elements) /\ Len(e) = n + m
      /\ \A u \in 1 .. n + m : e[u] = IF u <= n THEN Absorbed(x.pass)[u]
                                      ELSE Absorbed(x.ctx)[u - n]
  <2>1. PICK s \in Seq(Elements), t \in Seq(Elements) :
           s = Absorbed(x.pass) /\ t = Absorbed(x.ctx) /\ Len(s) = n /\ Len(t) = m
    BY <1>1
  <2>2. /\ s \o t \in Seq(Elements) /\ Len(s \o t) = n + m
        /\ \A u \in 1 .. n + m : (s \o t)[u] = IF u <= n THEN s[u] ELSE t[u - n]
    BY <2>1, ConcatProperties
  <2> QED BY <2>1, <2>2
<1> HIDE DEF e
<1>3. missing \in Nat
  <2>1. Rate - (Len(e) % Rate) \in Nat
    BY <1>1, <1>2, DivMod, ChunkAssumption
  <2> QED BY <2>1, DivMod, ChunkAssumption
<1> HIDE DEF missing
<1>4. pad \in Seq(Elements) /\ Len(pad) = missing
      /\ \A u \in 1 .. missing : pad[u] = ZeroElement
  <2>1. pad \in [1 .. missing -> Elements]
    BY ChunkAssumption DEF ZeroElement, Elements
  <2> QED BY <1>3, <2>1
<1>5. StatementHash[x] = e \o pad
  BY DEF StatementHash, e, missing
<1> HIDE DEF pad
<1>6. /\ Len(e \o pad) = n + m + missing
      /\ \A u \in 1 .. n + m + missing :
            (e \o pad)[u] = IF u <= n + m THEN e[u] ELSE pad[u - (n + m)]
  <2>1. /\ Len(e \o pad) = Len(e) + Len(pad)
        /\ \A u \in 1 .. Len(e) + Len(pad) :
              (e \o pad)[u] = IF u <= Len(e) THEN e[u] ELSE pad[u - Len(e)]
    BY <1>2, <1>4, ConcatProperties
  <2>2. Len(e) = n + m /\ Len(pad) = missing
    BY <1>2, <1>4
  <2> QED BY <2>1, <2>2
<1>7. CASE k <= n
  <2>1. k \in 1 .. n /\ k \in 1 .. n + m /\ k \in 1 .. n + m + missing /\ k <= n + m
    BY <1>1, <1>3, <1>7
  <2>2. (e \o pad)[k] = e[k] /\ e[k] = Absorbed(x.pass)[k]
    BY <1>2, <1>6, <1>7, <2>1
  <2>3. StatementHash[x][k] = Chunk(x.pass, k)
    BY <1>1, <1>5, <2>1, <2>2
  <2>4. k <= Len(StatementHash[x])
    BY <1>5, <1>6, <2>1
  <2> QED BY <1>7, <2>3, <2>4 DEF n
<1>8. CASE k > n /\ k <= n + m
  <2>1. k - n \in 1 .. m /\ k \in 1 .. n + m /\ k \in 1 .. n + m + missing /\ ~ (k <= n)
    BY <1>1, <1>3, <1>8
  <2>2. (e \o pad)[k] = e[k] /\ e[k] = Absorbed(x.ctx)[k - n]
    BY <1>2, <1>6, <1>8, <2>1
  <2>3. StatementHash[x][k] = Chunk(x.ctx, k - n)
    BY <1>1, <1>5, <2>1, <2>2
  <2>4. k <= Len(StatementHash[x])
    BY <1>5, <1>6, <2>1
  <2> QED BY <2>1, <2>3, <2>4 DEF n
<1>9. CASE k > n + m
  <2>1. k - n \in Nat \ {0} /\ k - n > m /\ ~ (k <= n) /\ ~ (k <= n + m)
    BY <1>1, <1>9
  <2>2. Chunk(x.ctx, k - n)[b] = 0
    BY <1>1, <2>1, ChunkByte DEF m
  <2>3. ZeroElement[b] = 0
    BY DEF ZeroElement
  <2>4. k <= n + m + missing => (e \o pad)[k] = ZeroElement
    <3>1. k <= n + m + missing => k \in 1 .. n + m + missing /\ k - (n + m) \in 1 .. missing
      BY <1>1, <1>3, <1>9
    <3> QED BY <1>4, <1>6, <2>1, <3>1
  <2> QED BY <1>5, <1>6, <2>1, <2>2, <2>3, <2>4 DEF n
<1> QED BY <1>1, <1>7, <1>8, <1>9

\* Command lines of one hash have the same stream.
LEMMA SameStream ==
    ASSUME NEW i \in Inputs, NEW j \in Inputs, StatementHash[i] = StatementHash[j],
           NEW at \in Nat \ {0}
    PROVE  Stream(i, at) = Stream(j, at)
<1>1. PICK k \in Nat \ {0}, b \in 1 .. ChunkBytes : (k - 1) * ChunkBytes + b = at
  BY ByteOfChunk
<1>2. ASSUME NEW x \in Inputs
      PROVE  Stream(x, at) = IF k <= Count(x.pass) THEN Chunk(x.pass, k)[b]
                             ELSE Chunk(x.ctx, k - Count(x.pass))[b]
  <2>1. PICK n \in Nat \ {0} : n = Count(x.pass)
    BY InputsAreTexts, CountBounds DEF InputTexts
  <2>2. x.pass \in Seq(Bytes) /\ x.ctx \in Seq(Bytes)
    BY InputsAreTexts DEF InputTexts
  <2>3. n * ChunkBytes \in Nat /\ (k - 1) * ChunkBytes \in Nat /\ ChunkBytes \in Nat
    BY ChunkAssumption
  <2>4. CASE k <= n
    <3>1. PICK c \in Nat : n = k + c
      <4>1. n - k \in Nat /\ n = k + (n - k)
        BY <2>4
      <4> QED BY <4>1
    <3>2. (k + c) * ChunkBytes = (k - 1) * ChunkBytes + ChunkBytes + c * ChunkBytes
          /\ c * ChunkBytes \in Nat
      BY ChunkAssumption
    <3>3. at <= n * ChunkBytes
      BY <1>1, <2>3, <3>1, <3>2
    <3> QED BY <1>1, <2>1, <2>2, <2>4, <3>3, ChunkByte DEF Stream, Width
  <2>5. CASE k > n
    <3>1. PICK c \in Nat : k = n + c + 1
      <4>1. (k - n) - 1 \in Nat /\ k = n + ((k - n) - 1) + 1
        BY <2>5
      <4> QED BY <4>1
    <3>2. (n + c) * ChunkBytes = n * ChunkBytes + c * ChunkBytes
          /\ c * ChunkBytes \in Nat
      BY ChunkAssumption
    <3>3. k - 1 = n + c /\ k - n = c + 1 /\ (c + 1) - 1 = c /\ ~ (k <= n)
      BY <3>1
    <3>4. at = n * ChunkBytes + (c * ChunkBytes + b)
      BY <1>1, <2>3, <3>2, <3>3
    <3>5. ~ (at <= n * ChunkBytes) /\ at - n * ChunkBytes = c * ChunkBytes + b
      BY <2>3, <3>2, <3>4
    <3>6. Chunk(x.ctx, c + 1)[b] = Byte(x.ctx, ((c + 1) - 1) * ChunkBytes + b)
      BY <2>2, ChunkByte
    <3> QED BY <2>1, <3>3, <3>5, <3>6 DEF Stream, Width
  <2> QED BY <2>1, <2>4, <2>5
<1> QED BY <1>2, HashElement

LEMMA MultipleMod ==
    ASSUME NEW n \in Nat, NEW c \in Nat \ {0}
    PROVE  (n * c) % c = 0
<1> DEFINE a == n * c
           q == a \div c
           r == a % c
<1>1. a \in Nat /\ a = n * c
  OBVIOUS
<1> HIDE DEF a
<1>2. q \in Nat /\ r \in 0 .. c - 1 /\ a = q * c + r
  BY <1>1, DivMod
<1> HIDE DEF q, r
<1>3. CASE n = q
  <2>1. n * c \in Nat /\ r \in Nat /\ n * c = n * c + r
    BY <1>1, <1>2, <1>3
  <2>2. r = 0
    BY <2>1
  <2> QED BY <2>2 DEF r, a
<1>4. CASE n < q
  <2>1. PICK d \in Nat : q = n + 1 + d
    <3>1. (q - n) - 1 \in Nat /\ q = n + 1 + ((q - n) - 1)
      BY <1>2, <1>4
    <3> QED BY <3>1
  <2>2. (n + 1 + d) * c = n * c + c + d * c /\ d * c \in Nat /\ n * c \in Nat
    OBVIOUS
  <2> QED BY <1>1, <1>2, <2>1, <2>2
<1>5. CASE n > q
  <2>1. PICK d \in Nat : n = q + 1 + d
    <3>1. (n - q) - 1 \in Nat /\ n = q + 1 + ((n - q) - 1)
      BY <1>2, <1>5
    <3> QED BY <3>1
  <2>2. (q + 1 + d) * c = q * c + c + d * c /\ d * c \in Nat /\ q * c \in Nat
    BY <1>2
  <2> QED BY <1>1, <1>2, <2>1, <2>2
<1> QED BY <1>2, <1>3, <1>4, <1>5

\* Passphrase and context run together.
Text(x) == x.pass \o x.ctx

LEMMA TextBytes ==
    ASSUME NEW x \in Inputs
    PROVE  /\ Text(x) \in Seq(Bytes) /\ Len(Text(x)) = Len(x.pass) + Len(x.ctx)
           /\ \A at \in Nat \ {0} :
                 Byte(Text(x), at) = IF at <= Len(x.pass) THEN x.pass[at]
                                     ELSE Byte(x.ctx, at - Len(x.pass))
           /\ \A at \in 1 .. Len(x.pass) : x.pass[at] # 0
           /\ \A at \in 1 .. Len(x.ctx) : x.ctx[at] # 0
<1>1. PICK s \in Seq(Bytes), t \in Seq(Bytes) : s = x.pass /\ t = x.ctx
  BY InputsAreTexts DEF InputTexts
<1>2. /\ s \o t \in Seq(Bytes) /\ Len(s \o t) = Len(s) + Len(t)
      /\ \A u \in 1 .. Len(s) + Len(t) : (s \o t)[u] = IF u <= Len(s) THEN s[u] ELSE t[u - Len(s)]
  BY ConcatProperties
<1>3. ASSUME NEW at \in Nat \ {0}
      PROVE  Byte(s \o t, at) = IF at <= Len(s) THEN s[at] ELSE Byte(t, at - Len(s))
  BY <1>2 DEF Byte
<1>4. (\A at \in 1 .. Len(s) : s[at] \in Bytes) /\ (\A at \in 1 .. Len(t) : t[at] \in Bytes)
  OBVIOUS
<1> QED BY <1>1, <1>2, <1>3, <1>4, NoNul DEF Text

\* What the widths are: room for the passphrase, in whole elements.
LEMMA Widths ==
    ASSUME NEW x \in Inputs
    PROVE  /\ Width(x) \in Nat \ {0} /\ Len(x.pass) \in Nat /\ Len(x.ctx) \in Nat
           /\ Len(x.pass) <= Width(x) /\ Width(x) % ChunkBytes = 0
<1>1. PICK n \in Nat \ {0} : n = Count(x.pass) /\ Len(x.pass) <= n * ChunkBytes
  BY InputsAreTexts, CountBounds DEF InputTexts
<1>2. n * ChunkBytes \in Nat \ {0} /\ Len(x.pass) \in Nat /\ Len(x.ctx) \in Nat
  BY ChunkAssumption, InputsAreTexts DEF InputTexts
<1>3. (n * ChunkBytes) % ChunkBytes = 0
  BY MultipleMod, ChunkAssumption
<1> QED BY <1>1, <1>2, <1>3 DEF Width

\* A passphrase of more elements goes beyond the last element of the other.
LEMMA WiderIsLonger ==
    ASSUME NEW i \in Inputs, NEW j \in Inputs, Width(i) < Width(j)
    PROVE  Width(i) < Len(j.pass)
<1>1. PICK n \in Nat \ {0}, m \in Nat \ {0} :
         /\ n = Count(i.pass) /\ m = Count(j.pass)
         /\ m > 1 => m * ChunkBytes < Len(j.pass) + ChunkBytes
  BY InputsAreTexts, CountBounds DEF InputTexts
<1>2. n * ChunkBytes < m * ChunkBytes
  BY <1>1 DEF Width
<1>3. n < m
  <2>1. ASSUME m <= n PROVE FALSE
    <3>1. PICK d \in Nat : n = m + d
      <4>1. n - m \in Nat /\ n = m + (n - m)
        BY <2>1
      <4> QED BY <4>1
    <3>2. (m + d) * ChunkBytes = m * ChunkBytes + d * ChunkBytes /\ d * ChunkBytes \in Nat
          /\ m * ChunkBytes \in Nat
      BY ChunkAssumption
    <3> QED BY <1>2, <3>1, <3>2
  <2> QED BY <2>1
<1>4. PICK d \in Nat : m = n + 1 + d
  <2>1. (m - n) - 1 \in Nat /\ m = n + 1 + ((m - n) - 1)
    BY <1>3
  <2> QED BY <2>1
<1>5. (n + 1 + d) * ChunkBytes = n * ChunkBytes + ChunkBytes + d * ChunkBytes
      /\ d * ChunkBytes \in Nat /\ n * ChunkBytes \in Nat /\ ChunkBytes \in Nat
  BY ChunkAssumption
<1>6. Len(j.pass) \in Nat
  BY InputsAreTexts DEF InputTexts
<1>7. m * ChunkBytes = n * ChunkBytes + ChunkBytes + d * ChunkBytes
  BY <1>4, <1>5
<1>8. n * ChunkBytes < Len(j.pass)
  <2> DEFINE nc == n * ChunkBytes
             mc == m * ChunkBytes
             dc == d * ChunkBytes
  <2>1. mc < Len(j.pass) + ChunkBytes
    BY <1>1, <1>3
  <2>2. mc = nc + ChunkBytes + dc /\ nc \in Nat /\ dc \in Nat /\ ChunkBytes \in Nat
    BY <1>5, <1>7
  <2> HIDE DEF nc, mc, dc
  <2>3. nc < Len(j.pass)
    BY <1>6, <2>1, <2>2
  <2> QED BY <2>3 DEF nc
<1> QED BY <1>1, <1>8 DEF Width

\* One width, one command line.
LEMMA SameWidth ==
    ASSUME NEW i \in Inputs, NEW j \in Inputs, StatementHash[i] = StatementHash[j],
           Width(i) = Width(j)
    PROVE  i = j
<1>1. PICK w \in Nat \ {0} : w = Width(i) /\ w = Width(j)
         /\ Len(i.pass) <= w /\ Len(j.pass) <= w
  BY Widths
<1>2. \A at \in Nat \ {0} : Stream(i, at) = Stream(j, at)
  BY SameStream
<1>3. i.pass \in Seq(Bytes) /\ i.ctx \in Seq(Bytes) /\ j.pass \in Seq(Bytes) /\ j.ctx \in Seq(Bytes)
  BY InputsAreTexts DEF InputTexts
<1>4. \A at \in Nat \ {0} : Byte(i.pass, at) = Byte(j.pass, at)
  <2>1. ASSUME NEW at \in Nat \ {0}, at <= w PROVE Byte(i.pass, at) = Byte(j.pass, at)
    BY <1>1, <1>2, <2>1 DEF Stream
  <2>2. ASSUME NEW at \in Nat \ {0}, at > w PROVE Byte(i.pass, at) = Byte(j.pass, at)
    BY <1>1, <1>3, <2>2 DEF Byte
  <2> QED BY <1>1, <2>1, <2>2
<1>5. \A at \in Nat \ {0} : Byte(i.ctx, at) = Byte(j.ctx, at)
  <2>1. ASSUME NEW at \in Nat \ {0} PROVE Byte(i.ctx, at) = Byte(j.ctx, at)
    <3>1. w + at \in Nat \ {0} /\ ~ (w + at <= w) /\ (w + at) - w = at
      BY <1>1
    <3>2. Stream(i, w + at) = Byte(i.ctx, at) /\ Stream(j, w + at) = Byte(j.ctx, at)
      BY <1>1, <3>1 DEF Stream
    <3> QED BY <1>2, <3>1, <3>2
  <2> QED BY <2>1
<1>6. i.pass = j.pass /\ i.ctx = j.ctx
  BY <1>3, <1>4, <1>5, BytesEqual
<1> QED BY <1>6, InputsAreTexts

\* The stream of a command line is its text when nothing lies between passphrase and context.
LEMMA StreamIsText ==
    ASSUME NEW x \in Inputs, Len(x.pass) = Width(x) \/ Len(x.ctx) = 0, NEW at \in Nat \ {0}
    PROVE  Stream(x, at) = Byte(Text(x), at)
<1>1. CASE Len(x.pass) = Width(x)
  BY <1>1, Widths, TextBytes DEF Stream, Byte
<1>2. CASE Len(x.ctx) = 0
  <2>1. \A u \in Nat \ {0} : Byte(x.ctx, u) = 0
    BY <1>2 DEF Byte
  <2>2. at > Len(x.pass) => Byte(Text(x), at) = 0 /\ Byte(x.pass, at) = 0
    <3>1. at > Len(x.pass) => at - Len(x.pass) \in Nat \ {0} /\ ~ (at <= Len(x.pass))
      BY Widths
    <3> QED BY <2>1, <3>1, TextBytes DEF Byte
  <2>3. at > Width(x) => at - Width(x) \in Nat \ {0} /\ at > Len(x.pass)
    BY Widths
  <2>4. at <= Len(x.pass) => Byte(Text(x), at) = Byte(x.pass, at)
    BY TextBytes DEF Byte
  <2> QED BY <2>1, <2>2, <2>3, <2>4, Widths DEF Stream
<1> QED BY <1>1, <1>2

\* Two widths: the narrow passphrase fills its elements, and the texts are one.
LEMMA TwoWidths ==
    ASSUME NEW i \in Inputs, NEW j \in Inputs, StatementHash[i] = StatementHash[j],
           Width(i) < Width(j)
    PROVE  Text(i) = Text(j) /\ Len(i.pass) = Width(i) /\ Len(i.pass) < Len(j.pass)
<1>1. \A at \in Nat \ {0} : Stream(i, at) = Stream(j, at)
  BY SameStream
<1>2. Width(i) \in Nat \ {0} /\ Width(j) \in Nat \ {0} /\ Width(i) < Len(j.pass)
      /\ Len(i.pass) \in Nat /\ Len(j.pass) \in Nat /\ Len(j.ctx) \in Nat
      /\ Len(i.pass) <= Width(i) /\ Len(j.pass) <= Width(j)
  BY Widths, WiderIsLonger
<1>3. Len(i.pass) = Width(i)
  <2>1. Stream(j, Width(i)) # 0
    <3>1. Width(i) \in 1 .. Len(j.pass) /\ Width(i) <= Width(j)
      BY <1>2
    <3>2. j.pass[Width(i)] # 0
      BY <3>1, TextBytes
    <3> QED BY <3>1, <3>2 DEF Stream, Byte
  <2>2. Stream(i, Width(i)) # 0
    BY <1>1, <1>2, <2>1
  <2>3. Width(i) <= Len(i.pass)
    BY <1>2, <2>2 DEF Stream, Byte
  <2> QED BY <1>2, <2>3
<1>4. \A at \in Nat \ {0} : Stream(i, at) = Byte(Text(i), at)
  BY <1>3, StreamIsText
<1>5. Len(j.pass) = Width(j) \/ Len(j.ctx) = 0
  <2>1. SUFFICES ASSUME Len(j.pass) < Width(j), Len(j.ctx) > 0 PROVE FALSE
    BY <1>2
  <2>2. Stream(j, Width(j)) = 0
    BY <1>2, <2>1 DEF Stream, Byte
  <2>3. Width(j) > Len(Text(i))
    <3>1. Byte(Text(i), Width(j)) = 0
      BY <1>1, <1>2, <1>4, <2>2
    <3>2. \A at \in 1 .. Len(Text(i)) : Text(i)[at] # 0
      <4>1. PICK t \in Seq(Bytes) : t = Text(i)
        BY TextBytes
      <4>2. \A at \in 1 .. Len(t) : t[at] \in Bytes
        OBVIOUS
      <4> QED BY <4>1, <4>2, NoNul
    <3>3. Len(Text(i)) \in Nat
      BY TextBytes
    <3> QED BY <1>2, <3>1, <3>2, <3>3 DEF Byte
  <2>4. Stream(j, Width(j) + 1) # 0
    <3>1. Width(j) + 1 \in Nat \ {0} /\ ~ (Width(j) + 1 <= Width(j))
          /\ (Width(j) + 1) - Width(j) = 1 /\ 1 \in 1 .. Len(j.ctx) /\ 1 <= Len(j.ctx)
      BY <1>2, <2>1
    <3>2. j.ctx[1] # 0
      BY <3>1, TextBytes
    <3> QED BY <3>1, <3>2 DEF Stream, Byte
  <2>5. Byte(Text(i), Width(j) + 1) # 0
    BY <1>1, <1>2, <1>4, <2>4
  <2>6. Width(j) + 1 <= Len(Text(i))
    BY <2>5 DEF Byte
  <2>7. Len(Text(i)) \in Nat
    BY TextBytes
  <2> QED BY <1>2, <2>3, <2>6, <2>7
<1>6. \A at \in Nat \ {0} : Stream(j, at) = Byte(Text(j), at)
  BY <1>5, StreamIsText
<1>7. \A at \in Nat \ {0} : Byte(Text(i), at) = Byte(Text(j), at)
  BY <1>1, <1>4, <1>6
<1>8. Text(i) = Text(j)
  BY <1>7, TextBytes, BytesEqual
<1> QED BY <1>2, <1>3, <1>8

\* Command lines of one hash are one text, and one command line if their passphrases have
\* one length.
LEMMA HashShowsText ==
    ASSUME NEW i \in Inputs, NEW j \in Inputs, StatementHash[i] = StatementHash[j]
    PROVE  OneText(i, j) /\ (Len(i.pass) = Len(j.pass) => i = j)
<1>1. \A x \in Inputs : Width(x) \in Nat /\ Len(x.pass) \in Nat /\ Width(x) % ChunkBytes = 0
  BY Widths
<1>2. CASE Width(i) = Width(j)
  <2>1. i = j
    BY <1>2, SameWidth
  <2> QED BY <1>1, <2>1 DEF OneText
<1>3. CASE Width(i) < Width(j)
  <2>1. Text(i) = Text(j) /\ Len(i.pass) = Width(i) /\ Len(i.pass) < Len(j.pass)
    BY <1>3, TwoWidths
  <2> QED BY <1>1, <2>1 DEF OneText, Text
<1>4. CASE Width(j) < Width(i)
  <2>1. Text(j) = Text(i) /\ Len(j.pass) = Width(j) /\ Len(j.pass) < Len(i.pass)
    BY <1>4, TwoWidths
  <2> QED BY <1>1, <2>1 DEF OneText, Text
<1> QED BY <1>1, <1>2, <1>3, <1>4

--------------------------------------------------------------------------------
(***************************************************************************)
(* The inductive invariant.                                                *)
(***************************************************************************)
Started(a) == a \in Arms /\ pc[a] # "idle"
Marks == Arms \cup {Hole}

\* A run that is past its address has its command line, and every unit on disk or read
\* is of such a run; the package is there once a run has opened it.
UnitsInv ==
    /\ \A a \in Arms : pc[a] # "idle" => input[a] \in Inputs
    /\ \A a \in Arms : pc[a] = "writing" => file # None
    /\ file # None => \A k \in 1 .. Len(file) : file[k] \in Arms => Started(file[k])
    /\ \A d \in Decaps : \A k \in 1 .. Len(read[d]) :
          read[d][k] \in Arms => Started(read[d][k])

\* A key that is out was drawn for the command line of the run that printed it, which has
\* ended; when it failed, the head was of another run, with one text.
KeyOK(d) ==
    key[d] # None =>
        /\ input[d] \in Inputs /\ outcome[d] # None
        /\ Started(key[d]) /\ input[key[d]] = input[d]
        /\ outcome[d] = "failed" =>
              /\ Started(read[d][HeadUnit]) /\ read[d][HeadUnit] # key[d]
              /\ OneText(input[read[d][HeadUnit]], input[key[d]])
KeyInv == \A d \in Decaps : KeyOK(d)

IInv == TypeOK /\ UnitsInv /\ KeyInv

\* A stretch of one writer is of a run whose units are all of it.
LEMMA OneWriter ==
    ASSUME NEW p, NEW section, NEW u \in section, WriterOf(p, section) \in Arms
    PROVE  p[u] = WriterOf(p, section)
<1> DEFINE writers == {p[v] : v \in section}
<1>1. PICK a \in Arms : writers = {a}
  BY RunsAssumption DEF WriterOf
<1>2. WriterOf(p, section) = a
  BY <1>1 DEF WriterOf
<1> QED BY <1>1, <1>2

\* What gets past all exits: a proving key and shares of one run, given the command line of
\* the run that opens it, under a head of the same text.
LEMMA AcceptedPackage ==
    ASSUME IInv, NEW d \in Decaps, input[d] \in Inputs,
           NEW q \in ReadPackage(read[d]), Accepts(q, input[d])
    PROVE  /\ q.head = read[d][HeadUnit]
           /\ Started(SecretOf(q)) /\ input[SecretOf(q)] = input[d]
           /\ Started(q.head) /\ OneText(input[q.head], input[SecretOf(q)])
<1> DEFINE p == read[d]
           i == input[p[PkUnit]]
<1>1. /\ Parses(p) /\ q.head = p[HeadUnit] /\ q.pk = WriterOf(p, PkSection(i))
      /\ \A k \in Shares : q.shares[k] = WriterOf(p, ShareSection(i, k))
  <2>1. Parses(p) /\ q = [head |-> p[HeadUnit],
               pk |-> WriterOf(p, PkSection(i)),
               shares |-> [k \in Shares |-> WriterOf(p, ShareSection(i, k))]]
    BY DEF ReadPackage
  <2> QED BY <2>1
<1>2. p \in Seq(Marks) /\ Len(p) >= 2 /\ p[1] # Hole /\ p[2] # Hole
  BY <1>1 DEF IInv, TypeOK, Parses, Marks, HeadUnit, PkUnit
<1>3. ASSUME NEW k \in {1, 2} PROVE Started(p[k]) /\ input[p[k]] \in Inputs
  <2>1. k \in 1 .. Len(p) /\ p[k] \in Arms
    BY <1>2 DEF Marks
  <2> QED BY <2>1 DEF IInv, UnitsInv, Started
<1>4. PICK a : a = q.pk /\ a \in Arms /\ PreimageCircuit(input[d]) = PreimageCircuit(input[a])
  BY DEF Accepts, Proves
<1>5. a = p[2]
  <2>1. PkUnit \in PkSection(i)
    BY <1>3, Totals DEF PkSection, PkUnit
  <2> QED BY <1>1, <1>4, <2>1, OneWriter DEF PkUnit
<1>6. ASSUME NEW k \in Shares
      PROVE  q.shares[k] = a /\ StatementHash[input[a]] = StatementHash[input[q.head]]
  <2> DEFINE s == q.shares[k]
  <2>1. TagHolds(q, k)
    BY DEF Accepts
  <2>2. s \in Arms /\ Sealed(s, k).key = s
        /\ Sealed(s, k).ad = AdCore(s, StatementHash[input[s]], s, k)
    BY <2>1 DEF Sealed, TagHolds
  <2>3. s = DerivedKey(q.pk, s)
    BY <2>1, <2>2 DEF TagHolds
  <2>4. AdCore(s, StatementHash[input[s]], s, k)
          = AdCore(q.pk, StatementHash[input[q.head]], s, k)
    BY <2>1, <2>2 DEF TagHolds
  <2>5. s = a
    BY <1>4, <2>2, <2>3, RunsAssumption DEF DerivedKey
  <2>6. StatementHash[input[s]] = StatementHash[input[q.head]]
    BY <2>4 DEF AdCore
  <2> QED BY <2>5, <2>6
<1>7. SecretOf(q) = a
  BY <1>6 DEF SecretOf, Shares
<1>8. /\ Started(a) /\ input[a] \in Inputs
      /\ Started(q.head) /\ input[q.head] \in Inputs
  BY <1>1, <1>3, <1>5 DEF HeadUnit
<1>9. /\ StatementHash[input[a]] = StatementHash[input[q.head]]
      /\ StatementHash[input[q.head]] = StatementHash[input[d]]
  BY <1>6 DEF Shares, Accepts
<1>10. input[a] = input[d]
  <2>1. Len(input[a].pass) = Len(input[d].pass)
    BY <1>4 DEF PreimageCircuit
  <2> QED BY <1>8, <1>9, <2>1, HashShowsText
<1>11. OneText(input[q.head], input[a])
  BY <1>8, <1>9, HashShowsText
<1> QED BY <1>1, <1>7, <1>8, <1>10, <1>11

LEMMA IInvInit == Init => IInv
<1> SUFFICES ASSUME Init PROVE IInv
  OBVIOUS
<1> USE DEF Init
<1>1. TypeOK
  BY DEF TypeOK
<1>2. UnitsInv
  BY DEF UnitsInv
<1>3. KeyInv
  BY DEF KeyInv, KeyOK
<1> QED BY <1>1, <1>2, <1>3 DEF IInv

\* A key stays right when no started run changes its command line, and nothing changes for
\* the run that printed it.
LEMMA KeyStep ==
    ASSUME IInv, NEW d \in Decaps,
           \A a \in Arms : Started(a) => Started(a)' /\ input'[a] = input[a],
           input[d] # None => input'[d] = input[d],
           read'[d] = read[d] \/ outcome[d] = None,
           outcome'[d] = outcome[d], key'[d] = key[d]
    PROVE  KeyOK(d)'
<1>1. KeyOK(d)
  BY DEF IInv, KeyInv
<1>2. CASE key[d] = None
  BY <1>2 DEF KeyOK
<1>3. CASE key[d] # None
  <2>1. /\ input[d] \in Inputs /\ outcome[d] # None
        /\ Started(key[d]) /\ input[key[d]] = input[d]
        /\ outcome[d] = "failed" =>
              /\ Started(read[d][HeadUnit]) /\ read[d][HeadUnit] # key[d]
              /\ OneText(input[read[d][HeadUnit]], input[key[d]])
    BY <1>1, <1>3 DEF KeyOK
  <2>2. input'[d] = input[d] /\ read'[d] = read[d]
    BY <2>1, RunsAssumption
  <2>3. key[d] \in Arms /\ Started(key[d])' /\ input'[key[d]] = input[key[d]]
    BY <2>1 DEF Started
  <2>4. outcome[d] = "failed" =>
           LET h == read[d][HeadUnit]
           IN  h \in Arms /\ Started(h)' /\ input'[h] = input[h]
    BY <2>1 DEF Started
  <2> QED BY <2>1, <2>2, <2>3, <2>4 DEF KeyOK, Started
<1> QED BY <1>2, <1>3

LEMMA StepPrintAddress ==
    ASSUME IInv, NEW a \in Arms, NEW i \in Inputs, PrintAddress(a, i) PROVE IInv'
<1> USE DEF IInv, PrintAddress
<1>1. TypeOK'
  BY Totals DEF TypeOK
<1>2. /\ pc'[a] = "printed" /\ input'[a] = i
      /\ \A b \in Arms \ {a} : pc'[b] = pc[b] /\ input'[b] = input[b]
      /\ \A d \in Decaps : input'[d] = input[d]
  BY RunsAssumption DEF TypeOK
<1>3. \A b \in Arms : Started(b) => Started(b)' /\ input'[b] = input[b]
  BY <1>2 DEF Started
<1>4. UnitsInv'
  BY <1>2 DEF UnitsInv, Started
<1>5. KeyInv'
  BY <1>2, <1>3, KeyStep DEF KeyInv
<1> QED BY <1>1, <1>4, <1>5

LEMMA StepOpenPackage ==
    ASSUME IInv, NEW a \in Arms, OpenPackage(a) PROVE IInv'
<1> USE DEF IInv, OpenPackage
<1>1. TypeOK'
  BY DEF TypeOK, Writing
<1>2. /\ pc'[a] = "writing" /\ pc[a] = "printed" /\ file' = << >>
      /\ \A b \in Arms \ {a} : pc'[b] = pc[b]
  BY DEF TypeOK
<1>3. \A b \in Arms : Started(b) => Started(b)' /\ input'[b] = input[b]
  BY <1>2 DEF Started
<1>4. UnitsInv'
  <2>1. << >> # None
    <3>1. << >> \in Seq(Arms \cup {Hole})
      OBVIOUS
    <3> QED BY <3>1, RunsAssumption, Zenon
  <2> QED BY <1>2, <2>1 DEF UnitsInv, Started
<1>5. KeyInv'
  BY <1>3, KeyStep DEF KeyInv
<1> QED BY <1>1, <1>4, <1>5

\* A unit lands where its run is and leaves the others alone; a gap reads as zeros.
LEMMA WrittenByRun ==
    ASSUME NEW f \in Seq(Marks), NEW n \in Nat, NEW a \in Arms
    PROVE  /\ Written(f, n, a) \in Seq(Marks)
           /\ \A k \in 1 .. Len(Written(f, n, a)) : Written(f, n, a)[k] \in Arms =>
                 \/ Written(f, n, a)[k] = a
                 \/ k \in 1 .. Len(f) /\ Written(f, n, a)[k] = f[k]
<1> DEFINE new == Written(f, n, a)
<1>1. Hole \in Marks /\ a \in Marks
  BY DEF Marks
<1>2. IsWritten(Marks, f, n, a, new)
  BY <1>1, WrittenUnits, Zenon
<1> HIDE DEF new
<1>3. ASSUME NEW k \in 1 .. Len(new), new[k] \in Arms
      PROVE  new[k] = a \/ (k \in 1 .. Len(f) /\ new[k] = f[k])
  <2>1. k \in 1 .. Len(f) \/ k > Len(f)
    BY <1>2 DEF IsWritten
  <2> QED BY <1>2, <1>3, <2>1, RunsAssumption DEF IsWritten
<1> QED BY <1>2, <1>3 DEF new, IsWritten

LEMMA StepWriteUnit ==
    ASSUME IInv, NEW a \in Arms, WriteUnit(a) PROVE IInv'
<1> USE DEF IInv
<1>1. /\ pc[a] = "writing" /\ written[a] < Total(input[a]) /\ written[a] \in Nat
      /\ input[a] \in Inputs /\ file \in Seq(Marks)
      /\ file' = Written(file, written[a], a)
      /\ written' = [written EXCEPT ![a] = @ + 1]
      /\ UNCHANGED <<pc, input, alone, read, outcome, key>>
  BY DEF WriteUnit, Writing, TypeOK, UnitsInv, Marks
<1>2. /\ file' \in Seq(Marks) /\ file' # None
      /\ \A k \in 1 .. Len(file') : file'[k] \in Arms =>
            file'[k] = a \/ (k \in 1 .. Len(file) /\ file'[k] = file[k])
  <2>1. file' \in Seq(Marks)
    BY <1>1, WrittenByRun
  <2>2. file' # None
    BY <2>1, RunsAssumption, Zenon DEF Marks
  <2>3. \A k \in 1 .. Len(file') : file'[k] \in Arms =>
            file'[k] = a \/ (k \in 1 .. Len(file) /\ file'[k] = file[k])
    BY <1>1, WrittenByRun
  <2> QED BY <2>1, <2>2, <2>3
<1>3. TypeOK'
  BY <1>1, <1>2, Totals DEF TypeOK, Marks
<1>4. UnitsInv'
  <2>1. file # None
    BY <1>1 DEF UnitsInv
  <2>2. \A k \in 1 .. Len(file') : file'[k] \in Arms => Started(file'[k])
    BY <1>1, <1>2, <2>1 DEF UnitsInv, Started
  <2> QED BY <1>1, <1>2, <2>2 DEF UnitsInv, Started
<1>5. KeyInv'
  BY <1>1, KeyStep DEF KeyInv, Started
<1> QED BY <1>3, <1>4, <1>5

\* FinishArm and Interrupt.
LEMMA StepEnd ==
    ASSUME IInv, NEW a \in Arms, FinishArm(a) \/ Interrupt(a) PROVE IInv'
<1> USE DEF IInv
<1>1. PICK end \in {"done", "interrupted"} : pc' = [pc EXCEPT ![a] = end]
  BY DEF FinishArm, Interrupt
<1>2. UNCHANGED <<input, file, written, alone, read, outcome, key>>
  BY DEF FinishArm, Interrupt
<1>3. /\ pc'[a] # "idle" /\ pc'[a] # "writing" /\ pc[a] # "idle"
      /\ \A b \in Arms \ {a} : pc'[b] = pc[b]
  BY <1>1 DEF TypeOK, FinishArm, Interrupt, Writing
<1>4. TypeOK'
  BY <1>1, <1>2, <1>3 DEF TypeOK
<1>5. UnitsInv'
  BY <1>2, <1>3 DEF UnitsInv, Started
<1>6. \A b \in Arms : Started(b) => Started(b)' /\ input'[b] = input[b]
  BY <1>2, <1>3 DEF Started
<1>7. KeyInv'
  BY <1>2, <1>6, KeyStep DEF KeyInv
<1> QED BY <1>4, <1>5, <1>7

LEMMA StepStartDecap ==
    ASSUME IInv, NEW d \in Decaps, NEW i \in Inputs, StartDecap(d, i) PROVE IInv'
<1> USE DEF IInv, StartDecap
<1>1. /\ \A b \in Arms : input'[b] = input[b]
      /\ \A e \in Decaps : input[e] # None => input'[e] = input[e]
  BY RunsAssumption DEF TypeOK
<1>2. TypeOK'
  BY <1>1 DEF TypeOK
<1>3. UnitsInv'
  BY <1>1 DEF UnitsInv, Started
<1>4. KeyInv'
  BY <1>1, KeyStep DEF KeyInv, Started
<1> QED BY <1>2, <1>3, <1>4

LEMMA StepReadUnit ==
    ASSUME IInv, NEW d \in Decaps, ReadUnit(d) PROVE IInv'
<1> USE DEF IInv
<1> DEFINE old == read[d]
           next == file[Len(old) + 1]
<1>1. /\ file # None /\ file \in Seq(Marks) /\ old \in Seq(Marks)
      /\ Len(old) + 1 \in 1 .. Len(file) /\ next \in Marks /\ outcome[d] = None
      /\ read' = [read EXCEPT ![d] = Append(old, next)]
      /\ UNCHANGED <<pc, input, file, written, alone, outcome, key>>
  BY DEF ReadUnit, AtEnd, TypeOK, Marks
<1>2. /\ Append(old, next) \in Seq(Marks) /\ Len(Append(old, next)) = Len(old) + 1
      /\ \A k \in 1 .. Len(old) : Append(old, next)[k] = old[k]
      /\ Append(old, next)[Len(old) + 1] = next
  BY <1>1, AppendProperties
<1>3. TypeOK'
  BY <1>1, <1>2 DEF TypeOK, Marks
<1>4. /\ read'[d] = Append(old, next)
      /\ \A e \in Decaps \ {d} : read'[e] = read[e]
  BY <1>1 DEF TypeOK
<1>5. next \in Arms => Started(next)
  BY <1>1 DEF UnitsInv
<1> HIDE DEF next
<1>6. \A k \in 1 .. Len(read'[d]) : read'[d][k] \in Arms => Started(read'[d][k])
  BY <1>1, <1>2, <1>4, <1>5 DEF UnitsInv
<1>7. UnitsInv'
  BY <1>1, <1>4, <1>6 DEF UnitsInv, Started
<1>8. KeyInv'
  BY <1>1, <1>4, KeyStep DEF KeyInv, Started
<1> QED BY <1>3, <1>7, <1>8

\* A run ends with exit code out and prints k, as KeyOK wants it.
Ends(d, out, k) ==
    /\ outcome' = [outcome EXCEPT ![d] = out] /\ key' = [key EXCEPT ![d] = k]
    /\ k # None => /\ Started(k) /\ input[k] = input[d]
                   /\ out = "failed" =>
                         /\ Started(read[d][HeadUnit]) /\ read[d][HeadUnit] # k
                         /\ OneText(input[read[d][HeadUnit]], input[k])

LEMMA StepDecap ==
    ASSUME IInv, NEW d \in Decaps, Decap(d) PROVE IInv'
<1> USE DEF IInv
<1> DEFINE accepted == {q \in ReadPackage(read[d]) : Accepts(q, input[d])}
<1>1. /\ input[d] \in Inputs /\ outcome[d] = None
      /\ UNCHANGED <<pc, input, file, written, alone, read>>
  BY DEF Decap, TypeOK
<1>2. PICK out \in {"failed", "done"}, k \in Arms \cup {None, Nobody} : Ends(d, out, k)
  <2>1. ASSUME NEW q \in accepted,
               outcome' = [outcome EXCEPT ![d] = ExitCode(q)],
               key' = [key EXCEPT ![d] = SecretOf(q)]
        PROVE  \E out \in {"failed", "done"}, k \in Arms \cup {None, Nobody} : Ends(d, out, k)
    <3>1. /\ q.head = read[d][HeadUnit]
          /\ Started(SecretOf(q)) /\ input[SecretOf(q)] = input[d]
          /\ Started(q.head) /\ OneText(input[q.head], input[SecretOf(q)])
      BY <1>1, AcceptedPackage
    <3>2. ExitCode(q) \in {"failed", "done"} /\ (ExitCode(q) = "failed" => q.head # SecretOf(q))
      BY DEF ExitCode
    <3>3. SecretOf(q) \in Arms
      BY <3>1 DEF Started
    <3> QED BY <2>1, <3>1, <3>2, <3>3 DEF Ends
  <2>2. ASSUME outcome' = [outcome EXCEPT ![d] = "failed"], UNCHANGED key
        PROVE  \E out \in {"failed", "done"}, k \in Arms \cup {None, Nobody} : Ends(d, out, k)
    <3>1. key' = [key EXCEPT ![d] = key[d]] /\ key[d] \in Arms \cup {None, Nobody}
      BY <2>2 DEF TypeOK
    <3>2. key[d] = None
      BY <1>1 DEF KeyInv, KeyOK
    <3> QED BY <2>2, <3>1, <3>2 DEF Ends
  <2> QED BY <2>1, <2>2 DEF Decap
<1>3. /\ outcome'[d] = out /\ key'[d] = k
      /\ \A e \in Decaps \ {d} : outcome'[e] = outcome[e] /\ key'[e] = key[e]
  BY <1>2 DEF TypeOK, Ends
<1>4. TypeOK'
  BY <1>1, <1>2 DEF TypeOK, Ends
<1>5. UnitsInv'
  BY <1>1 DEF UnitsInv, Started
<1>6. KeyOK(d)'
  BY <1>1, <1>2, <1>3, RunsAssumption DEF KeyOK, Started, Ends
<1>7. ASSUME NEW e \in Decaps, e # d PROVE KeyOK(e)'
  BY <1>1, <1>3, <1>7, KeyStep DEF Started
<1> QED BY <1>4, <1>5, <1>6, <1>7 DEF KeyInv

LEMMA IInvStep == ASSUME IInv, [Next]_vars PROVE IInv'
<1>1. CASE Next
  BY <1>1, StepPrintAddress, StepOpenPackage, StepWriteUnit, StepEnd, StepStartDecap,
     StepReadUnit, StepDecap DEF Next
<1>2. CASE UNCHANGED vars
  BY <1>2 DEF vars, IInv, TypeOK, UnitsInv, KeyInv, KeyOK, Started
<1> QED BY <1>1, <1>2

\* The inductive invariant holds in every reachable state.
THEOREM Invariance == Spec => []IInv
<1>1. IInv /\ [Next]_vars => IInv'
  BY IInvStep
<1> QED BY IInvInit, <1>1, PTL DEF Spec

--------------------------------------------------------------------------------
\* The package on disk is a sequence of units of arm runs and zeros, however runs overlap
\* and end, and a decap run reads such a sequence.
THEOREM TypeCorrect == Spec => []TypeOK
<1>1. IInv => TypeOK
  BY DEF IInv
<1> QED BY Invariance, <1>1, PTL

\* A key that is printed is the secret of one arm run, given the passphrase and context
\* that opened it, for all texts without NUL bytes: bytes moved between the two keep the
\* statement hash, and the proof's circuit tells them apart.
THEOREM KeysForTheirInput == Spec => []KeyForItsInput
<1>1. IInv => KeyForItsInput
  BY DEF IInv, KeyInv, KeyOK, Started, KeyForItsInput
<1> QED BY Invariance, <1>1, PTL

\* A key is printed by a run that fails only under the head of another run, given the same
\* passphrase and context or the same text split at the end of an element: the statement hash
\* tells no less, and the address is the only part of a package that no tag covers.
THEOREM MismatchesShareText == Spec => []MismatchMeansOneText
<1>1. IInv => MismatchMeansOneText
  BY DEF IInv, KeyInv, KeyOK, Started, MismatchMeansOneText
<1> QED BY Invariance, <1>1, PTL

===============================================================================
