---------------------------- MODULE MCTelemetry -----------------------------
(* Small instances of Telemetry: clients, connections and descriptors are    *)
(* interchangeable.                                                          *)
EXTENDS Telemetry, TLC

TelemetrySymmetric ==
  Permutations(Clients) \cup Permutations(Conns) \cup Permutations(Fds)

=============================================================================
