--------------------------- MODULE MCRequestReply ---------------------------
(* Constant values for model checking RequestReply. *)
EXTENDS RequestReply, TLC

Symmetry == Permutations(Replicas)
=============================================================================
