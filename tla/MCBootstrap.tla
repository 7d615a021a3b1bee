------------------------------ MODULE MCBootstrap -------------------------------
(* The instance of Bootstrap that TLC checks. *)
EXTENDS Bootstrap
===============================================================================
