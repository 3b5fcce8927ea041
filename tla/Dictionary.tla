----------------------------- MODULE Dictionary -----------------------------
(***************************************************************************)
(* dictionary.c: keys, values and hashes in three arrays that double when  *)
(* they are full.  n counts insertions less deletions, holes are left where *)
(* a key was deleted, and every allocation may fail.  The text of keys is   *)
(* abstracted to model values, their hash to a function that may collide.   *)
(***************************************************************************)
EXTENDS Integers, FiniteSets, FiniteSetsExt

CONSTANTS
  Keys, Vals,
  NULL,       \* the null pointer
  Hash,       \* dictionary_hash; two keys may have one hash
  MinSize,    \* DICTMINSZ
  MaxSize,    \* bound: slots
  MaxFaults   \* bound: allocations that fail

ASSUME DictAssumption ==
  /\ NULL \notin Keys \cup Vals
  /\ Hash \in [Keys -> Nat]
  /\ MinSize \in Nat \ {0} /\ MaxSize \in Nat /\ MinSize <= MaxSize
  /\ MaxFaults \in Nat

VARIABLES
  st,         \* "none": no dictionary; "live"; "crashed": a null array was used
  missing,    \* arrays dictionary_new could not allocate
  size, n, key, val, hash,   \* struct _dictionary_
  ret,        \* what dictionary_set returned last
  faults,     \* what the bound counts
  unkeyed,    \* history: insertions whose key could not be copied
  leaked      \* history: values overwritten in a slot without a key

dict == <<missing, size, n, key, val, hash>>
vars == <<st, dict, ret, faults, unkeyed, leaked>>

Slots == 0 .. size - 1
Used  == {i \in Slots : key[i] # NULL}
At(k) == {i \in Used : hash[i] = Hash[k] /\ key[i] = k}

\* dictionary_get: the first slot whose hash and key are those asked for.
Get(k, def) == IF At(k) = {} THEN def ELSE val[Min(At(k))]

TypeOK ==
  /\ st \in {"none", "live", "crashed"}
  /\ missing \subseteq {"key", "val", "hash"}
  /\ size \in Nat /\ n \in 0 .. size
  /\ key \in [Slots -> Keys \cup {NULL}]
  /\ val \in [Slots -> Vals \cup {NULL}]
  /\ hash \in [Slots -> Nat]
  /\ ret \in {0, -1} /\ faults \in Nat
  /\ unkeyed \in Nat /\ leaked \in Nat

Empty(sz) ==
  /\ size' = sz /\ n' = 0
  /\ key' = [i \in 0 .. sz - 1 |-> NULL]
  /\ val' = [i \in 0 .. sz - 1 |-> NULL]
  /\ hash' = [i \in 0 .. sz - 1 |-> 0]
  /\ unkeyed' = 0 /\ leaked' = 0

Init ==
  /\ st = "none" /\ missing = {}
  /\ size = 0 /\ n = 0 /\ key = << >> /\ val = << >> /\ hash = << >>
  /\ ret = 0 /\ faults = 0 /\ unkeyed = 0 /\ leaked = 0

Spend(f) == faults + f <= MaxFaults /\ faults' = faults + f

\* The arrays are not looked at: a dictionary without them is returned.
New ==
  /\ st = "none"
  /\ missing' \in SUBSET {"key", "val", "hash"}
  /\ Spend(Cardinality(missing'))
  /\ st' = "live" /\ Empty(MinSize)
  /\ UNCHANGED ret

Crash ==
  /\ st' = "crashed"
  /\ UNCHANGED <<dict, ret, faults, unkeyed, leaked>>

\* dictionary_del reads keys and values, get and unset the keys, set all three.
CrashDel   == st = "live" /\ missing \cap {"key", "val"} # {} /\ Crash
CrashUnset == st = "live" /\ "key" \in missing /\ Crash
CrashSet   == st = "live" /\ missing # {} /\ Crash

Del ==
  /\ st = "live" /\ missing \cap {"key", "val"} = {}
  /\ st' = "none" /\ missing' = {} /\ Empty(0)
  /\ UNCHANGED <<ret, faults>>

-----------------------------------------------------------------------------
\* Mutant: only the first n slots are searched.
FoundBelowN(k) == {i \in At(k) : i < n}

\* The search of dictionary_set, which an empty dictionary skips.
Found(k) == IF n > 0 THEN At(k) ELSE {}

\* What xstrdup leaves of a value, at a cost of c failed allocations.
Copies(v, c) == IF c = 0 THEN v ELSE NULL
MayFail(v) == IF v = NULL THEN {0} ELSE {0, 1}

Replace(k, v) ==
  /\ st = "live" /\ missing = {} /\ Found(k) # {}
  /\ \E c \in MayFail(v) :
       /\ Spend(c)
       /\ val' = [val EXCEPT ![Min(Found(k))] = Copies(v, c)]
  /\ ret' = 0
  /\ UNCHANGED <<st, missing, size, n, key, hash, unkeyed, leaked>>

\* dictionary_grow: the old array and as many empty slots again.
Grown(f, fill) == [i \in 0 .. 2 * size - 1 |-> IF i \in Slots THEN f[i] ELSE fill]

\* Mutant: slot n is taken for free, as it is while nothing was deleted.
SlotN(keys, sz) == n

\* The first empty slot from n on, and from 0 after the last.
FreeSlot(keys, sz) ==
  LET free == {j \in 0 .. sz - 1 : keys[(n + j) % sz] = NULL}
  IN  (n + Min(free)) % sz

\* Key and value are copied or not, one by one; the slot is counted all the same.
Insert(k, v, keys, vals, hashes, sz) ==
  LET i == FreeSlot(keys, sz) IN
  \E ck \in {0, 1}, cv \in MayFail(v) :
    /\ Spend(ck + cv)
    /\ size' = sz
    /\ key' = [keys EXCEPT ![i] = Copies(k, ck)]
    /\ val' = [vals EXCEPT ![i] = Copies(v, cv)]
    /\ hash' = [hashes EXCEPT ![i] = Hash[k]]
    /\ n' = n + 1 /\ ret' = 0
    /\ unkeyed' = unkeyed + ck
    /\ leaked' = IF vals[i] = NULL THEN leaked ELSE leaked + 1
    /\ UNCHANGED <<st, missing>>

Add(k, v) ==
  /\ st = "live" /\ missing = {} /\ Found(k) = {}
  /\ n # size
  /\ Insert(k, v, key, val, hash, size)

AddGrown(k, v) ==
  /\ st = "live" /\ missing = {} /\ Found(k) = {}
  /\ n = size /\ 2 * size <= MaxSize
  /\ Insert(k, v, Grown(key, NULL), Grown(val, NULL), Grown(hash, 0), 2 * size)

GrowFails(k) ==
  /\ st = "live" /\ missing = {} /\ Found(k) = {}
  /\ n = size
  /\ Spend(1) /\ ret' = -1
  /\ UNCHANGED <<st, dict, unkeyed, leaked>>

\* Mutant: the value stays behind in the slot.
UnsetKeepsValue(k) ==
  /\ st = "live" /\ "key" \notin missing /\ At(k) # {}
  /\ LET i == Min(At(k)) IN
       /\ key' = [key EXCEPT ![i] = NULL]
       /\ hash' = [hash EXCEPT ![i] = 0]
  /\ n' = n - 1
  /\ UNCHANGED <<st, missing, size, val, ret, faults, unkeyed, leaked>>

Unset(k) ==
  /\ st = "live" /\ "key" \notin missing /\ At(k) # {}
  /\ LET i == Min(At(k)) IN
       /\ key' = [key EXCEPT ![i] = NULL]
       /\ val' = [val EXCEPT ![i] = NULL]
       /\ hash' = [hash EXCEPT ![i] = 0]
  /\ n' = n - 1
  /\ UNCHANGED <<st, missing, size, ret, faults, unkeyed, leaked>>

Next ==
  \/ New \/ Del \/ CrashDel \/ CrashUnset \/ CrashSet
  \/ \E k \in Keys : \/ Unset(k) \/ GrowFails(k)
                     \/ \E v \in Vals \cup {NULL} :
                          Replace(k, v) \/ Add(k, v) \/ AddGrown(k, v)

Spec == Init /\ [][Next]_vars

-----------------------------------------------------------------------------
\* A key is in one slot only, with the hash it is searched by, however many
\* deletions left holes before it (dictionary.c:263-280, 289-298): a second copy
\* would come back to life when the first is deleted.
Unique ==
  /\ \A i \in Used : hash[i] = Hash[key[i]]
  /\ \A i, j \in Used : key[i] = key[j] => i = j

\* n is the keys stored and the insertions that lost their key: it never counts
\* less than the slots in use, so the search for an empty slot ends and the
\* search for a key is not skipped (dictionary.c:265, 281-301, 340-347).
Counted == n = Cardinality(Used) + unkeyed

\* A dictionary has a slot, so that doubling its slots makes room (dictionary.c:155,
\* 281-287).
HasSlots == st = "live" => size > 0

\* What every call relies on and leaves (dictionary.c:150-349).
Consistent == TypeOK /\ Unique /\ Counted /\ HasSlots

\* A value without a key, or one overwritten in its slot, comes from an insertion
\* whose key could not be copied (dictionary.c:296-297, 340-345).
Orphans == {i \in Slots \ Used : val[i] # NULL}
OrphansExplained == leaked + Cardinality(Orphans) <= unkeyed

\* What get finds is a map that every call changes as DictMap says, through
\* holes, growth and colliding hashes (dictionary.c:150-349).
Stored == [k \in {key[i] : i \in Used} |-> Get(k, NULL)]
Abstract == INSTANCE DictMap WITH map <- Stored
Implements == Abstract!Spec

=============================================================================
