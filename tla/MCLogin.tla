------------------------------ MODULE MCLogin ------------------------------
(* A small instance of Login; no handler differs from another. *)
EXTENDS Login, TLC

HandlerSymmetry == Permutations(Handlers)
=============================================================================
