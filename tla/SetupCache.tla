------------------------------- MODULE SetupCache ------------------------------
(***************************************************************************)
(* The file that caches a trusted setup between runs.                      *)
(*                                                                         *)
(* build_pvugc_setup_from_pk_for_with_samples keeps the lean proving key   *)
(* and T_const in outer_lean_setup_pk_vk_<cycle>.bin, and the fixtures     *)
(* keep the outer CRS in outer_crs_<cycle>_<inputs>.bin, with the same     *)
(* code shape: exists? open and deserialize : compute, create, serialize,  *)
(* flush.  Nothing locks the file.  Callers are threads and processes that *)
(* share a directory; each may be killed between two steps.                *)
(*                                                                         *)
(* A file is the sequence of blocks that reach it; a setup for circuit c   *)
(* is Blocks blocks equal to c.                                            *)
(***************************************************************************)
EXTENDS SharedFile

CONSTANTS
    Callers,        \* threads and processes
    Circuits,
    Paths,
    CachePath(_),   \* the file name code derives from a circuit
    Blocks,         \* blocks of a serialized setup
    Absent          \* no file

ASSUME ShapeAssumption ==
    /\ Blocks \in Nat \ {0}
    /\ \A c \in Circuits : CachePath(c) \in Paths
    /\ Hole \notin Circuits

VARIABLES
    files,      \* path -> Absent or the blocks on disk
    caller,     \* caller -> where its current call is
    history     \* path -> who wrote it, and what happened to the writers

cacheVars == <<files, caller, history>>

Setup(c) == [i \in 1 .. Blocks |-> c]

Contents == UNION {[1 .. n -> Circuits \cup {Hole}] : n \in 0 .. Blocks}

ASSUME AbsentAssumption == Absent \notin Contents

Steps == {"idle", "compute", "write", "read", "returned", "panicked", "killed"}
Idle == [step |-> "idle", circuit |-> None, offset |-> 0, setup |-> << >>]
Histories == [writers : SUBSET Circuits, overlap : BOOLEAN, killed : BOOLEAN]

Busy(p) == caller[p].step \in {"compute", "write", "read"}
Path(p) == CachePath(caller[p].circuit)
Writers(f) == {p \in Callers : caller[p].step = "write" /\ Path(p) = f}

CacheInit ==
    /\ files = [f \in Paths |-> Absent]
    /\ caller = [p \in Callers |-> Idle]
    /\ history = [f \in Paths |->
                    [writers |-> {}, overlap |-> FALSE, killed |-> FALSE]]

--------------------------------------------------------------------------------
\* Mutant: a short file counts as absent.
BugCall(p, c) ==
    /\ ~ Busy(p)
    /\ caller' = [caller EXCEPT ![p] =
         [step    |-> IF files[CachePath(c)] = Absent THEN "compute"
                      ELSE IF Len(files[CachePath(c)]) < Blocks THEN "compute" ELSE "read",
          circuit |-> c, offset |-> 0, setup |-> << >>]]
    /\ UNCHANGED <<files, history>>

\* Enter the function with circuit c: the only look at whether the file exists.
Call(p, c) ==
    /\ ~ Busy(p)
    /\ caller' = [caller EXCEPT ![p] =
         [step    |-> IF files[CachePath(c)] = Absent THEN "compute" ELSE "read",
          circuit |-> c, offset |-> 0, setup |-> << >>]]
    /\ UNCHANGED <<files, history>>

\* One of the audits of the computed bases fails: nothing was written yet.
AuditPanics(p) ==
    /\ caller[p].step = "compute"
    /\ caller' = [caller EXCEPT ![p].step = "panicked"]
    /\ UNCHANGED <<files, history>>

\* The setup is computed and audited; File::create truncates the file.
Create(p) ==
    /\ caller[p].step = "compute"
    /\ files' = [files EXCEPT ![Path(p)] = << >>]
    /\ caller' = [caller EXCEPT ![p].step = "write",
                                ![p].setup = Setup(caller[p].circuit)]
    /\ history' = [history EXCEPT
         ![Path(p)].writers = @ \cup {caller[p].circuit},
         ![Path(p)].overlap = @ \/ Writers(Path(p)) # {}]

\* One write of the serializer or of the final flush.  The caller returns the
\* setup it holds in memory, whatever the file has become.
Write(p) ==
    /\ caller[p].step = "write"
    /\ LET n == caller[p].offset
       IN  /\ files' = [files EXCEPT ![Path(p)] = Written(@, n, caller[p].circuit)]
           /\ caller' = [caller EXCEPT
                ![p].offset = n + 1,
                ![p].step = IF n + 1 = Blocks THEN "returned" ELSE "write"]
    /\ UNCHANGED history

\* Mutant: a short file is taken as it is.
BugEndOfFile(p) == FALSE

EndOfFile(p) == Len(files[Path(p)]) <= caller[p].offset

\* deserialize_uncompressed_unchecked reads on.  A short file is an error and
\* .expect panics; anything else of the right size may be accepted, though what
\* is no setup may also fail to parse.
Read(p) ==
    /\ caller[p].step = "read"
    /\ IF EndOfFile(p)
       THEN caller' = [caller EXCEPT ![p].step = "panicked"]
       ELSE LET n == caller[p].offset + 1
                content == files[Path(p)]
                got == Append(caller[p].setup, IF n <= Len(content) THEN content[n] ELSE Hole)
                sound == \E c \in Circuits : got = [i \in 1 .. n |-> c]
            IN  \E ok \in {TRUE} \cup (IF sound THEN {} ELSE {FALSE}) :
                   caller' = [caller EXCEPT
                     ![p].offset = n, ![p].setup = got,
                     ![p].step = IF ~ ok THEN "panicked"
                                 ELSE IF n = Blocks THEN "returned" ELSE "read"]
    /\ UNCHANGED <<files, history>>

\* The caller is killed, its buffered blocks lost, its file left as it is.
Kill(p) ==
    /\ Busy(p)
    /\ caller' = [caller EXCEPT ![p].step = "killed"]
    /\ history' = [history EXCEPT ![Path(p)].killed = @ \/ caller[p].step = "write"]
    /\ UNCHANGED files

CacheNext ==
    \E p \in Callers :
        \/ \E c \in Circuits : Call(p, c)
        \/ AuditPanics(p) \/ Create(p) \/ Write(p) \/ Read(p) \/ Kill(p)

CacheSpec == CacheInit /\ [][CacheNext]_cacheVars

--------------------------------------------------------------------------------
CacheTypeOK ==
    /\ files \in [Paths -> Contents \cup {Absent}]
    /\ caller \in [Callers -> [step : Steps, circuit : Circuits \cup {None},
                               offset : 0 .. Blocks, setup : Contents]]
    /\ history \in [Paths -> Histories]

OneCircuit(f) == \A c, d \in history[f].writers : c = d

\* As long as one circuit was written to a file, and no two writers met on it,
\* what a call returns is that circuit's whole setup: a file cut short by a
\* crash, truncated again or still being written is never taken for one.
ReturnsWholeSetup ==
    \A p \in Callers :
        /\ caller[p].step = "returned"
        /\ OneCircuit(Path(p)) /\ ~ history[Path(p)].overlap
        => \E c \in history[Path(p)].writers : caller[p].setup = Setup(c)

\* Writers of one circuit may race: when they are all through and none was
\* killed, the file is whole, whatever was truncated and skipped on the way.
RaceHeals ==
    \A f \in Paths :
        /\ files[f] # Absent /\ Writers(f) = {} /\ ~ history[f].killed
        /\ OneCircuit(f)
        => \E c \in history[f].writers : files[f] = Setup(c)

\* A file cut short, with nobody left who found it absent: every later call
\* for its path panics, in this process and the next, until it is deleted by hand.
Poisoned(f) ==
    /\ files[f] # Absent /\ Len(files[f]) < Blocks
    /\ \A p \in Callers : caller[p].step \in {"compute", "write"} => Path(p) # f
PoisonStays == [][\A f \in Paths : Poisoned(f) => Poisoned(f)']_cacheVars

\* "so caches from different circuits never collide": nothing of another
\* circuit is ever returned from a file no two writers met on.
CachesNeverCollide ==
    \A p \in Callers :
        caller[p].step = "returned" /\ ~ history[Path(p)].overlap =>
            caller[p].setup = Setup(caller[p].circuit)

================================================================================
