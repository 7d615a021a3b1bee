------------------------------- MODULE MCTxStore -------------------------------
(* Instances of TxStore for TLC. *)
EXTENDS TxStore, TLC

PollSymmetry == Permutations(Polls)
===============================================================================
