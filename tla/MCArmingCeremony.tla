--------------------------- MODULE MCArmingCeremony ----------------------------
(***************************************************************************)
(* ArmingCeremony with two operators, who may each draw two shares and two *)
(* exponents.                                                              *)
(***************************************************************************)
EXTENDS ArmingCeremony

CONSTANTS alice, bob

================================================================================
