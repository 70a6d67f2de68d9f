----------------------------- MODULE MCTidLoop -----------------------------
(* TidLoop on a ring small enough to visit every set of used identifiers.  *)
EXTENDS TidLoop
============================================================================
