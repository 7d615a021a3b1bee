---------------------------- MODULE MCNativeProver ----------------------------
(* Instances of NativeProver for TLC. *)
EXTENDS NativeProver, TLC

\* Safety and refinement treat the calls alike.
CallSymmetry == Permutations(Calls)
===============================================================================
