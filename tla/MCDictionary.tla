---------------------------- MODULE MCDictionary ----------------------------
(* Small instances of Dictionary: three keys of which two have one hash, in   *)
(* two slots that grow to four.                                               *)
EXTENDS Dictionary, TLC

CONSTANTS k1, k2, k3

KeySet == {k1, k2, k3}
HashOf == [k \in KeySet |-> IF k = k3 THEN 2 ELSE 1]

=============================================================================
