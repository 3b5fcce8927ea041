------------------------------ MODULE DictMap -------------------------------
(***************************************************************************)
(* What a dictionary promises: a partial map from keys to values, NULL     *)
(* being a value (a section of an ini file), and the status dictionary_set *)
(* returned last.  Only a failed allocation may make a call do less.       *)
(***************************************************************************)
EXTENDS Integers

CONSTANTS Keys, Vals, NULL

VARIABLES map, ret, faults

mapVars == <<map, ret, faults>>

Init == map = << >> /\ ret = 0 /\ faults = 0

With(m, key, value) ==
  [k \in DOMAIN m \cup {key} |-> IF k = key THEN value ELSE m[k]]

Put(key, value) ==
  map' = With(map, key, value) /\ ret' = 0 /\ UNCHANGED faults

Remove(key) ==
  /\ map' = [k \in DOMAIN map \ {key} |-> map[k]]
  /\ UNCHANGED <<ret, faults>>

\* dictionary_new and dictionary_del.
Clear == map' = << >> /\ UNCHANGED ret /\ faults' >= faults

\* The dictionary could not grow, and the caller is told.
Refuse == ret' = -1 /\ faults' > faults /\ UNCHANGED map

\* The value could not be copied, and the caller is told it was.
PutNothing(key) ==
  map' = With(map, key, NULL) /\ ret' = 0 /\ faults' > faults

\* The key could not be copied, and the caller is told it was.
Ignore(key) ==
  /\ key \notin DOMAIN map
  /\ ret' = 0 /\ faults' > faults /\ UNCHANGED map

Next ==
  \/ \E k \in Keys : \/ \E v \in Vals \cup {NULL} : Put(k, v)
                     \/ Remove(k) \/ PutNothing(k) \/ Ignore(k)
  \/ Clear \/ Refuse

Spec == Init /\ [][Next]_mapVars

=============================================================================
