------------------------------ MODULE MCServer ------------------------------
(* Small instances of Server: descriptors and connections are               *)
(* interchangeable.                                                          *)
EXTENDS Server, TLC

Symmetric == Permutations(Fds) \cup Permutations(Conns)

=============================================================================
