---------------------------- MODULE MCBountyPackage ----------------------------
(***************************************************************************)
(* Two arm runs and one decap run over one path, with command lines that   *)
(* share a statement hash and command lines whose packages have one size.  *)
(***************************************************************************)
EXTENDS BountyPackage

CONSTANTS a1, a2, d1


\* With two bytes per element: one text split at two places, with one statement hash.
MCSplits == {[pass |-> <<1, 2, 3, 4>>, ctx |-> <<5>>],
             [pass |-> <<1, 2>>, ctx |-> <<3, 4, 5>>]}
\* And a text that differs in the byte that fills half an element.
MCInputs == MCSplits \cup {[pass |-> <<1, 2>>, ctx |-> <<3, 4, 6>>]}

\* The longer passphrase has the larger circuit: its second share lies behind the end of a
\* package of the shorter one.
MCPkUnits == [i \in Inputs |-> IF Len(i.pass) > 2 THEN 2 ELSE 1]
MCShareUnits == [i \in Inputs |-> 1]

================================================================================
