----------------------------- MODULE WitnessRelease ----------------------------
(***************************************************************************)
(* What a witness-gated bridge promises.  Funds are locked only after every *)
(* operator has registered the lock, leave it only when a witness for the  *)
(* statement is known, and then do leave it.                               *)
(***************************************************************************)
VARIABLES
    stage,      \* "open", "registered", "locked" or "released"
    witness     \* a proof of the statement is public

vars == <<stage, witness>>

Init == stage = "open" /\ witness = FALSE

Register == stage = "open" /\ stage' = "registered" /\ UNCHANGED witness

Lock == stage = "registered" /\ stage' = "locked" /\ UNCHANGED witness

Reveal == witness' = TRUE /\ UNCHANGED stage

Release == stage = "locked" /\ witness /\ stage' = "released" /\ UNCHANGED witness

Next == Register \/ Lock \/ Reveal \/ Release

Spec == Init /\ [][Next]_vars /\ WF_vars(Release)

================================================================================
