---------------------------- MODULE MCWalletSession ----------------------------
(* Instances of WalletSession for TLC. *)
EXTENDS WalletSession, TLC

CallSymmetry == Permutations(Calls)
===============================================================================
