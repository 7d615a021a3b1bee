------------------------------ MODULE MCAmmSetup -------------------------------
(* Instances of AmmSetup for TLC. *)
EXTENDS AmmSetup
===============================================================================
