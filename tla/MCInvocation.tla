---------------------------- MODULE MCInvocation ----------------------------
(* Small instances of Invocation. *)
EXTENDS Invocation, TLC

Symmetry == Permutations(Receivers) \cup Permutations(Workers) \cup Permutations(Takers)
=============================================================================
