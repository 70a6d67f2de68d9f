------------------------------ MODULE MCClient ------------------------------
(* Small instances of the Client, with its inductive invariant and the      *)
(* Lifecycle it implements.                                                  *)
EXTENDS ClientInvariant, ClientLifecycle, TLC

Symmetry == Permutations(Reads)
============================================================================
