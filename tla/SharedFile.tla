------------------------------ MODULE SharedFile -------------------------------
(***************************************************************************)
(* What writes at offsets make of a file that others truncate: the file    *)
(* system under the setup caches and the bounty package.  A file is the    *)
(* sequence of the units it is written in; each writer has an offset of    *)
(* its own, so a write beyond the end of a truncated file leaves a hole of *)
(* zero bytes.                                                             *)
(***************************************************************************)
EXTENDS Naturals, Sequences

CONSTANTS
    Hole,   \* a unit of zero bytes
    None

\* Mutant: the unit goes to the end of the file, as with O_APPEND.
BugWritten(content, offset, unit) == Append(content, unit)

\* The content after a unit is written at an offset.
Written(content, offset, unit) ==
    [i \in 1 .. (IF Len(content) > offset THEN Len(content) ELSE offset + 1) |->
        IF i = offset + 1 THEN unit
        ELSE IF i <= Len(content) THEN content[i] ELSE Hole]

================================================================================
