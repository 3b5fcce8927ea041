------------------------------ MODULE MCLogger ------------------------------
(* Small instances of Logger: a client as main.c opens the log, and a process *)
(* that logs less and with a lock.                                            *)
EXTENDS Logger, TLC

CONSTANTS client, quiet

ProcSet == {client, quiet}
LevelOf == [p \in ProcSet |-> IF p = client THEN INFO ELSE WARN]

=============================================================================
