--------------------------- MODULE MCSharedSpool ----------------------------
(* Small instances of SharedSpool: processes and files are interchangeable.  *)
EXTENDS SharedSpool, TLC

Symmetric == Permutations(Procs) \cup Permutations(Files)

=============================================================================
