-------------------------- MODULE DictionaryProofs ---------------------------
(***************************************************************************)
(* What dictionary.c relies on, for any keys, hashes, sizes and failures:  *)
(* keys are unique and n counts them and the keys that were lost, so that  *)
(* the search for an empty slot ends in one.                               *)
(***************************************************************************)
EXTENDS Dictionary, FiniteSetTheorems, WellFoundedInduction, TLAPS

\* A set of natural numbers has a least element, which is its Min.
LEMMA MinIn ==
  ASSUME NEW S \in SUBSET Nat, S # {}
  PROVE  Min(S) \in S /\ \A y \in S : Min(S) <= y
<1> DEFINE R == {ss \in Nat \X Nat : ss[1] < ss[2]}
<1>1. IsWellFoundedOn(R, Nat)
  <2>1. R = OpToRel(<, Nat)
    BY DEF OpToRel
  <2> QED
    BY <2>1, NatLessThanWellFounded
<1>2. PICK x \in S : \A y \in S : ~ (<<y, x>> \in R)
  BY <1>1, WFMin
<1>3. \A y \in S : x <= y
  <2> SUFFICES ASSUME NEW y \in S PROVE x <= y
    OBVIOUS
  <2>1. x \in Nat /\ y \in Nat
    OBVIOUS
  <2>2. y < x => <<y, x>> \in R
    BY <2>1
  <2> QED
    BY <1>2, <2>1, <2>2
<1> QED
  BY <1>3 DEF Min

\* What % gives below its divisor, and once above it.
LEMMA ModBelow ==
  ASSUME NEW a \in Nat, NEW d \in Nat, a < d
  PROVE  a % d = a /\ (a + d) % d = a
  BY SMTT(30)

\* What % gives is below its divisor.
LEMMA ModRange ==
  ASSUME NEW a \in Nat, NEW d \in Nat, d > 0
  PROVE  a % d \in 0 .. d - 1
  OBVIOUS

\* The search that starts at n finds an empty slot when there is one.
LEMMA FreeSlotIsFree ==
  ASSUME NEW sz \in Nat, NEW keys, n \in 0 .. sz - 1,
         NEW i \in 0 .. sz - 1, keys[i] = NULL
  PROVE  FreeSlot(keys, sz) \in 0 .. sz - 1 /\ keys[FreeSlot(keys, sz)] = NULL
<1> DEFINE free == {j \in 0 .. sz - 1 : keys[(n + j) % sz] = NULL}
           j == IF i >= n THEN i - n ELSE i - n + sz
<1>1. j \in 0 .. sz - 1 /\ (n + j) % sz = i
  <2>1. j \in 0 .. sz - 1 /\ n + j \in {i, i + sz}
    OBVIOUS
  <2> QED
    BY <2>1, ModBelow
<1>2. j \in free
  BY <1>1
<1>3. Min(free) \in free
  <2>1. free \in SUBSET Nat
    OBVIOUS
  <2> HIDE DEF free
  <2> QED
    BY <1>2, <2>1, MinIn
<1>4. (n + Min(free)) % sz \in 0 .. sz - 1
  <2>1. n + Min(free) \in Nat /\ sz > 0
    BY <1>3
  <2> QED
    BY <2>1, ModRange
<1> QED
  BY <1>3, <1>4 DEF FreeSlot

\* When fewer slots are used than there are, one is empty.
LEMMA HoleLeft ==
  ASSUME NEW sz \in Nat, NEW used, IsFiniteSet(used), Cardinality(used) < sz
  PROVE  \E i \in 0 .. sz - 1 : i \notin used
<1> SUFFICES ASSUME 0 .. sz - 1 \in SUBSET used
             PROVE  FALSE
  OBVIOUS
<1>1. Cardinality(0 .. sz - 1) = sz
  BY FS_Interval
<1>2. Cardinality(0 .. sz - 1) <= Cardinality(used)
  BY FS_Subset
<1>3. Cardinality(used) \in Nat
  BY FS_CardinalityType
<1> QED
  BY <1>1, <1>2, <1>3

-----------------------------------------------------------------------------
(* The invariant, call by call.                                              *)

\* The slots in use can be counted.
LEMMA UsedIsFinite ==
  ASSUME size \in Nat
  PROVE  IsFiniteSet(Used) /\ Cardinality(Used) \in Nat
<1>1. IsFiniteSet(0 .. size - 1)
  BY FS_Interval
<1>2. Used \in SUBSET (0 .. size - 1)
  BY DEF Used, Slots
<1> QED
  BY <1>1, <1>2, FS_Subset, FS_CardinalityType

\* A program starts without a dictionary.
LEMMA InitConsistent == Init => Consistent
<1> SUFFICES ASSUME Init PROVE Consistent
  OBVIOUS
<1>1. Slots = {} /\ Used = {}
  BY DEF Init, Slots, Used
<1>2. key \in [Slots -> Keys \cup {NULL}] /\ val \in [Slots -> Vals \cup {NULL}]
        /\ hash \in [Slots -> Nat]
  BY <1>1 DEF Init
<1>3. Cardinality(Used) = 0
  BY <1>1, FS_EmptySet
<1> QED
  BY <1>1, <1>2, <1>3 DEF Init, Consistent, TypeOK, Unique, Counted, HasSlots

\* The slot of an insertion is empty, because n counts at least the slots in use.
LEMMA InsertsInHole ==
  ASSUME Consistent, NEW sz \in Nat, n < sz, NEW keys,
         {i \in 0 .. sz - 1 : keys[i] # NULL} = Used
  PROVE  FreeSlot(keys, sz) \in 0 .. sz - 1 /\ keys[FreeSlot(keys, sz)] = NULL
<1>1. IsFiniteSet(Used) /\ Cardinality(Used) < sz /\ n \in 0 .. sz - 1
  BY UsedIsFinite DEF Consistent, TypeOK, Counted
<1>2. PICK hole \in 0 .. sz - 1 : hole \notin Used
  BY <1>1, HoleLeft
<1>3. keys[hole] = NULL
  BY <1>2
<1> QED
  BY <1>1, <1>3, FreeSlotIsFree, Zenon

\* An insertion that looks for its slot in arrays that hold the same keys: those of
\* the dictionary, or longer ones.
LEMMA InsertKeeps ==
  ASSUME Consistent, st = "live", NEW k \in Keys, NEW v \in Vals \cup {NULL},
         NEW sz \in Nat, n < sz,
         NEW keys \in [0 .. sz - 1 -> Keys \cup {NULL}],
         NEW vals \in [0 .. sz - 1 -> Vals \cup {NULL}],
         NEW hashes \in [0 .. sz - 1 -> Nat],
         {i \in 0 .. sz - 1 : keys[i] # NULL} = Used,
         \A i \in Used : keys[i] = key[i] /\ hashes[i] = hash[i],
         \A i \in Used : key[i] # k,
         Insert(k, v, keys, vals, hashes, sz)
  PROVE  Consistent'
<1> USE DictAssumption DEF DictAssumption
<1> DEFINE i == FreeSlot(keys, sz)
<1>1. n \in Nat /\ unkeyed \in Nat /\ IsFiniteSet(Used) /\ Cardinality(Used) \in Nat
        /\ n = Cardinality(Used) + unkeyed
  BY UsedIsFinite DEF Consistent, TypeOK, Counted
<1>2. i \in 0 .. sz - 1 /\ keys[i] = NULL
  BY InsertsInHole
<1> HIDE DEF i
<1>3. i \notin Used
  BY <1>2
<1>4. PICK ck \in {0, 1}, cv \in MayFail(v) :
        /\ Spend(ck + cv)
        /\ size' = sz
        /\ key' = [keys EXCEPT ![i] = Copies(k, ck)]
        /\ val' = [vals EXCEPT ![i] = Copies(v, cv)]
        /\ hash' = [hashes EXCEPT ![i] = Hash[k]]
        /\ n' = n + 1 /\ ret' = 0
        /\ unkeyed' = unkeyed + ck
        /\ leaked' = IF vals[i] = NULL THEN leaked ELSE leaked + 1
        /\ UNCHANGED <<st, missing>>
  BY DEF Insert, i
<1>5. Slots' = 0 .. sz - 1
  BY <1>4 DEF Slots
<1>6. Copies(k, ck) \in Keys \cup {NULL} /\ Copies(v, cv) \in Vals \cup {NULL}
  BY DEF Copies
<1>7. TypeOK'
  <2>1. faults' \in Nat
    BY <1>4 DEF Consistent, TypeOK, Spend, MayFail
  <2>2. key' \in [Slots' -> Keys \cup {NULL}] /\ val' \in [Slots' -> Vals \cup {NULL}]
          /\ hash' \in [Slots' -> Nat]
    BY <1>2, <1>4, <1>5, <1>6
  <2>3. unkeyed' \in Nat /\ leaked' \in Nat /\ size' \in Nat /\ n' \in 0 .. size'
    BY <1>1, <1>4 DEF Consistent, TypeOK
  <2> QED
    BY <1>4, <2>1, <2>2, <2>3 DEF Consistent, TypeOK
<1>8. ck = 0 => Used' = Used \cup {i} /\ key'[i] = k /\ hash'[i] = Hash[k]
  BY <1>2, <1>4, <1>5 DEF Used, Copies
<1>9. ck = 1 => Used' = Used
  BY <1>2, <1>4, <1>5 DEF Used, Copies
<1>10. \A j \in Used : j # i /\ key'[j] = key[j] /\ hash'[j] = hash[j]
  BY <1>2, <1>3, <1>4
<1>11. Unique'
  <2>1. \A j \in Used : hash[j] = Hash[key[j]] /\ key[j] # k
    BY DEF Consistent, Unique
  <2>2. \A h, j \in Used : key[h] = key[j] => h = j
    BY DEF Consistent, Unique
  <2>3. ASSUME NEW j \in Used'
        PROVE  hash'[j] = Hash[key'[j]]
    <3>1. CASE j \in Used
      BY <1>10, <2>1, <3>1
    <3>2. CASE j = i /\ ck = 0
      BY <1>8, <3>2
    <3> QED
      BY <1>8, <1>9, <2>3, <3>1, <3>2
  <2>4. ASSUME NEW h \in Used', NEW j \in Used', key'[h] = key'[j]
        PROVE  h = j
    BY <1>8, <1>9, <1>10, <2>1, <2>2, <2>4
  <2> QED
    BY <2>3, <2>4 DEF Unique
<1>12. Counted'
  <2>1. CASE ck = 0
    <3>1. Cardinality(Used \cup {i}) = Cardinality(Used) + 1
      BY <1>1, <1>3, FS_AddElement
    <3>2. Cardinality(Used') = Cardinality(Used) + 1
      BY <1>8, <2>1, <3>1
    <3> QED
      BY <1>1, <1>4, <2>1, <3>2 DEF Counted
  <2>2. CASE ck = 1
    BY <1>1, <1>4, <1>9, <2>2 DEF Counted
  <2> QED
    BY <2>1, <2>2
<1> QED
  BY <1>1, <1>4, <1>7, <1>11, <1>12 DEF Consistent, HasSlots

\* A key that is not found is in no slot.
LEMMA NotFound ==
  ASSUME Consistent, NEW k \in Keys, Found(k) = {}
  PROVE  \A i \in Used : key[i] # k
<1>1. CASE n > 0
  BY <1>1 DEF Consistent, Unique, Found, At
<1>2. CASE n = 0
  <2>1. IsFiniteSet(Used) /\ Cardinality(Used) \in Nat /\ unkeyed \in Nat
    BY UsedIsFinite DEF Consistent, TypeOK
  <2>2. Cardinality(Used) = 0
    BY <1>2, <2>1 DEF Consistent, Counted
  <2>3. Used = {}
    BY <2>1, <2>2, FS_EmptySet
  <2> QED
    BY <2>3
<1> QED
  BY <1>1, <1>2 DEF Consistent, TypeOK

\* The slot that is searched for is one that is used, and holds the key.
LEMMA FirstAt ==
  ASSUME Consistent, NEW k, At(k) # {}
  PROVE  Min(At(k)) \in Used /\ key[Min(At(k))] = k
<1>1. At(k) \in SUBSET Nat
  BY DEF At, Used, Slots, Consistent, TypeOK
<1>2. Min(At(k)) \in At(k)
  BY <1>1, MinIn
<1> QED
  BY <1>2 DEF At

\* A key added while a slot is empty (dictionary.c:289-301).
LEMMA AddKeeps ==
  ASSUME Consistent, NEW k \in Keys, NEW v \in Vals \cup {NULL}, Add(k, v)
  PROVE  Consistent'
<1>1. st = "live" /\ Found(k) = {} /\ Insert(k, v, key, val, hash, size)
  BY DEF Add
<1>2. /\ size \in Nat /\ n < size
      /\ key \in [0 .. size - 1 -> Keys \cup {NULL}]
      /\ val \in [0 .. size - 1 -> Vals \cup {NULL}]
      /\ hash \in [0 .. size - 1 -> Nat]
  BY DEF Add, Consistent, TypeOK, Slots
<1>3. {i \in 0 .. size - 1 : key[i] # NULL} = Used
  BY DEF Used, Slots
<1>4. \A i \in Used : key[i] # k
  BY <1>1, NotFound
<1> QED
  BY <1>1, <1>2, <1>3, <1>4, InsertKeeps

\* A key added after the slots were doubled (dictionary.c:281-301).
LEMMA AddGrownKeeps ==
  ASSUME Consistent, NEW k \in Keys, NEW v \in Vals \cup {NULL}, AddGrown(k, v)
  PROVE  Consistent'
<1> DEFINE keys == Grown(key, NULL)
           vals == Grown(val, NULL)
           hashes == Grown(hash, 0)
<1>1. st = "live" /\ Found(k) = {} /\ Insert(k, v, keys, vals, hashes, 2 * size)
  BY DEF AddGrown
<1>2. size \in Nat /\ 2 * size \in Nat /\ n < 2 * size
  BY DEF AddGrown, Consistent, TypeOK, HasSlots
<1>3. /\ keys \in [0 .. 2 * size - 1 -> Keys \cup {NULL}]
      /\ vals \in [0 .. 2 * size - 1 -> Vals \cup {NULL}]
      /\ hashes \in [0 .. 2 * size - 1 -> Nat]
  BY <1>2 DEF Grown, Consistent, TypeOK, Slots
<1>4. \A i \in 0 .. size - 1 : keys[i] = key[i] /\ hashes[i] = hash[i]
  BY <1>2 DEF Grown, Slots
<1>5. \A i \in size .. 2 * size - 1 : keys[i] = NULL
  BY <1>2 DEF Grown, Slots
<1> HIDE DEF keys, vals, hashes
<1>6. {i \in 0 .. 2 * size - 1 : keys[i] # NULL} = Used
  BY <1>2, <1>4, <1>5 DEF Used, Slots
<1>7. \A i \in Used : keys[i] = key[i] /\ hashes[i] = hash[i]
  BY <1>4 DEF Used, Slots
<1>8. \A i \in Used : key[i] # k
  BY <1>1, NotFound
<1>9. \A sz \in Nat : sz = 2 * size => (Insert(k, v, keys, vals, hashes, sz) => Consistent')
  <2> SUFFICES ASSUME NEW sz \in Nat, sz = 2 * size, Insert(k, v, keys, vals, hashes, sz)
               PROVE  Consistent'
    OBVIOUS
  <2>1. /\ n < sz
        /\ keys \in [0 .. sz - 1 -> Keys \cup {NULL}]
        /\ vals \in [0 .. sz - 1 -> Vals \cup {NULL}]
        /\ hashes \in [0 .. sz - 1 -> Nat]
        /\ {i \in 0 .. sz - 1 : keys[i] # NULL} = Used
    BY <1>2, <1>3, <1>6
  <2> QED
    BY <1>1, <1>7, <1>8, <2>1, InsertKeeps
<1> QED
  BY <1>1, <1>2, <1>9

\* A value replaced by a copy, or by nothing (dictionary.c:265-278).
LEMMA ReplaceKeeps ==
  ASSUME Consistent, NEW k \in Keys, NEW v \in Vals \cup {NULL}, Replace(k, v)
  PROVE  Consistent'
<1>1. PICK c \in MayFail(v) : Spend(c) /\ val' = [val EXCEPT ![Min(Found(k))] = Copies(v, c)]
  BY DEF Replace
<1>2. val' \in [Slots -> Vals \cup {NULL}] /\ faults' \in Nat
  <2>1. Copies(v, c) \in Vals \cup {NULL} /\ c \in {0, 1}
    BY DEF Copies, MayFail
  <2>2. val' \in [Slots -> Vals \cup {NULL}]
    BY <1>1, <2>1 DEF Consistent, TypeOK
  <2>3. faults' \in Nat
    BY <1>1, <2>1 DEF Consistent, TypeOK, Spend
  <2> QED
    BY <2>2, <2>3
<1>3. UNCHANGED <<st, missing, size, n, key, hash, unkeyed, leaked>> /\ ret' = 0
  BY DEF Replace
<1>4. Slots' = Slots /\ Used' = Used
  BY <1>3 DEF Slots, Used
<1> QED
  BY <1>2, <1>3, <1>4 DEF Consistent, TypeOK, Unique, Counted, HasSlots

\* A key deleted: its slot becomes a hole (dictionary.c:325-349).
LEMMA UnsetKeeps ==
  ASSUME Consistent, NEW k \in Keys, Unset(k)
  PROVE  Consistent'
<1> USE DictAssumption DEF DictAssumption
<1> DEFINE i == Min(At(k))
<1>1. i \in Used /\ key[i] = k
  BY FirstAt DEF Unset
<1>2. /\ key' = [key EXCEPT ![i] = NULL] /\ val' = [val EXCEPT ![i] = NULL]
      /\ hash' = [hash EXCEPT ![i] = 0]
      /\ n' = n - 1
      /\ UNCHANGED <<st, missing, size, ret, faults, unkeyed, leaked>>
  BY DEF Unset
<1> HIDE DEF i
<1>3. Slots' = Slots /\ i \in Slots
  BY <1>1, <1>2 DEF Slots, Used
<1>4. /\ key' \in [Slots -> Keys \cup {NULL}] /\ val' \in [Slots -> Vals \cup {NULL}]
      /\ hash' \in [Slots -> Nat]
  BY <1>2 DEF Consistent, TypeOK
<1>5. Used' = Used \ {i}
  BY <1>2, <1>3 DEF Used, Consistent, TypeOK
<1>6. IsFiniteSet(Used) /\ Cardinality(Used) \in Nat /\ unkeyed \in Nat /\ n \in 0 .. size
        /\ size \in Nat /\ n = Cardinality(Used) + unkeyed
  BY UsedIsFinite DEF Consistent, TypeOK, Counted
<1>7. Cardinality(Used \ {i}) = Cardinality(Used) - 1 /\ Cardinality(Used \ {i}) \in Nat
  BY <1>1, <1>6, FS_RemoveElement, FS_CardinalityType
<1>8. Cardinality(Used') = Cardinality(Used) - 1
  BY <1>5, <1>7
<1>9. n' \in 0 .. size
  BY <1>2, <1>6, <1>7
<1>10. TypeOK'
  BY <1>2, <1>3, <1>4, <1>9 DEF Consistent, TypeOK
<1>11. Unique'
  <2>1. \A j \in Used' : j \in Used /\ key'[j] = key[j] /\ hash'[j] = hash[j]
    BY <1>2, <1>5 DEF Consistent, TypeOK, Used
  <2> QED
    BY <2>1 DEF Consistent, Unique
<1>12. Counted'
  BY <1>2, <1>6, <1>8 DEF Counted
<1> QED
  BY <1>2, <1>10, <1>11, <1>12 DEF Consistent, HasSlots

\* An empty dictionary, of any number of slots.
LEMMA EmptyKeeps ==
  ASSUME NEW sz \in Nat, Empty(sz)
  PROVE  /\ Slots' = 0 .. sz - 1 /\ Used' = {}
         /\ size' \in Nat /\ n' \in 0 .. size' /\ unkeyed' \in Nat /\ leaked' \in Nat
         /\ key' \in [Slots' -> Keys \cup {NULL}] /\ val' \in [Slots' -> Vals \cup {NULL}]
         /\ hash' \in [Slots' -> Nat]
         /\ Unique' /\ Counted'
<1>1. Slots' = 0 .. sz - 1
  BY DEF Empty, Slots
<1>2. Used' = {}
  BY <1>1 DEF Empty, Used
<1>3. Cardinality(Used') = 0
  BY <1>2, FS_EmptySet
<1> QED
  BY <1>1, <1>2, <1>3 DEF Empty, Unique, Counted

\* The arrays that could not be allocated can be counted.
LEMMA ArraysCounted ==
  ASSUME NEW A, A \in SUBSET {"key", "val", "hash"}
  PROVE  Cardinality(A) \in Nat
<1>1. IsFiniteSet({"key"})
  BY FS_Singleton
<1>2. IsFiniteSet({"key"} \cup {"val"})
  BY <1>1, FS_AddElement
<1>3. IsFiniteSet(({"key"} \cup {"val"}) \cup {"hash"})
  BY <1>2, FS_AddElement
<1>4. {"key", "val", "hash"} = ({"key"} \cup {"val"}) \cup {"hash"}
  OBVIOUS
<1> QED
  BY <1>3, <1>4, FS_Subset, FS_CardinalityType

\* Every call, whichever of its allocations fail.
LEMMA StepKeeps == Consistent /\ [Next]_vars => Consistent'
<1> SUFFICES ASSUME Consistent, [Next]_vars PROVE Consistent'
  OBVIOUS
<1> USE DictAssumption DEF DictAssumption
<1>1. CASE New
  <2>1. Empty(MinSize) /\ st' = "live" /\ missing' \in SUBSET {"key", "val", "hash"}
          /\ Spend(Cardinality(missing')) /\ ret' = ret
    BY <1>1 DEF New
  <2>2. Cardinality(missing') \in Nat
    BY <2>1, ArraysCounted
  <2>3. size' = MinSize /\ MinSize \in Nat
    BY <2>1 DEF Empty
  <2> QED
    BY <2>1, <2>2, <2>3, EmptyKeeps DEF Consistent, TypeOK, HasSlots, Spend
<1>2. CASE Del
  <2>1. Empty(0) /\ st' = "none" /\ missing' = {} /\ UNCHANGED <<ret, faults>>
    BY <1>2 DEF Del
  <2> QED
    BY <2>1, EmptyKeeps DEF Consistent, TypeOK, HasSlots
<1>3. CASE CrashDel \/ CrashUnset \/ CrashSet
  <2>1. st' = "crashed" /\ UNCHANGED <<dict, ret, faults, unkeyed, leaked>>
    BY <1>3 DEF CrashDel, CrashUnset, CrashSet, Crash
  <2>2. Slots' = Slots /\ Used' = Used
    BY <2>1 DEF dict, Slots, Used
  <2> QED
    BY <2>1, <2>2 DEF dict, Consistent, TypeOK, Unique, Counted, HasSlots
<1>4. ASSUME NEW k \in Keys, Unset(k) PROVE Consistent'
  BY <1>4, UnsetKeeps
<1>5. ASSUME NEW k \in Keys, GrowFails(k) PROVE Consistent'
  BY <1>5 DEF GrowFails, Spend, dict, Consistent, TypeOK, Unique, Counted, HasSlots, Slots, Used
<1>6. ASSUME NEW k \in Keys, NEW v \in Vals \cup {NULL}, Replace(k, v) PROVE Consistent'
  BY <1>6, ReplaceKeeps
<1>7. ASSUME NEW k \in Keys, NEW v \in Vals \cup {NULL}, Add(k, v) PROVE Consistent'
  BY <1>7, AddKeeps
<1>8. ASSUME NEW k \in Keys, NEW v \in Vals \cup {NULL}, AddGrown(k, v) PROVE Consistent'
  BY <1>8, AddGrownKeeps
<1>9. CASE UNCHANGED vars
  BY <1>9 DEF vars, dict, Consistent, TypeOK, Unique, Counted, HasSlots, Slots, Used
<1> QED
  BY <1>1, <1>2, <1>3, <1>4, <1>5, <1>6, <1>7, <1>8, <1>9 DEF Next

\* Whatever is inserted, deleted or fails to be allocated, a key is in one slot only and
\* n counts the slots in use (dictionary.c:150-349).
THEOREM DictionaryConsistent == Spec => []Consistent
<1> QED
  BY InitConsistent, StepKeeps, PTL DEF Spec

-----------------------------------------------------------------------------
(* Values without a key.                                                     *)

Accounted == Consistent /\ OrphansExplained

\* The values without a key can be counted.
LEMMA OrphansFinite ==
  ASSUME size \in Nat
  PROVE  IsFiniteSet(Orphans) /\ Cardinality(Orphans) \in Nat
<1>1. IsFiniteSet(0 .. size - 1)
  BY FS_Interval
<1>2. Orphans \in SUBSET (0 .. size - 1)
  BY DEF Orphans, Slots
<1> QED
  BY <1>1, <1>2, FS_Subset, FS_CardinalityType

\* A call that leaves the values without a key, and both counts, as they are.
LEMMA SameOrphans ==
  ASSUME OrphansExplained, Orphans' = Orphans, UNCHANGED <<leaked, unkeyed>>
  PROVE  OrphansExplained'
  BY DEF OrphansExplained

\* An empty dictionary has no value without a key.
LEMMA EmptyOrphans ==
  ASSUME NEW sz \in Nat, Empty(sz)
  PROVE  OrphansExplained'
<1>1. Orphans' = {}
  BY DEF Empty, Orphans, Slots
<1>2. Cardinality(Orphans') = 0
  BY <1>1, FS_EmptySet
<1> QED
  BY <1>2 DEF Empty, OrphansExplained

\* An insertion leaves at most one more value without a key, when it loses its own, and
\* overwrites at most one.
LEMMA InsertOrphans ==
  ASSUME Consistent, OrphansExplained, NEW k \in Keys, NEW v \in Vals \cup {NULL},
         NEW sz \in Nat, n < sz,
         NEW keys \in [0 .. sz - 1 -> Keys \cup {NULL}],
         NEW vals \in [0 .. sz - 1 -> Vals \cup {NULL}],
         NEW hashes,
         {i \in 0 .. sz - 1 : keys[i] # NULL} = Used,
         {i \in 0 .. sz - 1 : keys[i] = NULL /\ vals[i] # NULL} = Orphans,
         Insert(k, v, keys, vals, hashes, sz)
  PROVE  OrphansExplained'
<1> USE DictAssumption DEF DictAssumption
<1> DEFINE i == FreeSlot(keys, sz)
<1>1. i \in 0 .. sz - 1 /\ keys[i] = NULL
  BY InsertsInHole
<1>2. PICK ck \in {0, 1}, cv \in MayFail(v) :
        /\ size' = sz
        /\ key' = [keys EXCEPT ![i] = Copies(k, ck)]
        /\ val' = [vals EXCEPT ![i] = Copies(v, cv)]
        /\ unkeyed' = unkeyed + ck
        /\ leaked' = IF vals[i] = NULL THEN leaked ELSE leaked + 1
  BY DEF Insert
<1> HIDE DEF i
<1>3. Slots' = 0 .. sz - 1
  BY <1>2 DEF Slots
<1>4. Orphans' = {j \in 0 .. sz - 1 : key'[j] = NULL /\ val'[j] # NULL}
  BY <1>3 DEF Orphans, Used
<1>5. \A j \in 0 .. sz - 1 : j # i => key'[j] = keys[j] /\ val'[j] = vals[j]
  BY <1>2
<1>6. ck = 0 => key'[i] # NULL
  BY <1>1, <1>2 DEF Copies
<1>7. IsFiniteSet(Orphans) /\ Cardinality(Orphans) \in Nat /\ leaked \in Nat /\ unkeyed \in Nat
        /\ leaked + Cardinality(Orphans) <= unkeyed
  BY OrphansFinite DEF Consistent, TypeOK, OrphansExplained
<1>8. i \in Orphans <=> vals[i] # NULL
  BY <1>1
<1>9. Orphans' \in SUBSET (Orphans \cup {i})
  BY <1>4, <1>5
<1>10. ck = 0 => Orphans' \in SUBSET (Orphans \ {i})
  BY <1>4, <1>5, <1>6
<1>11. CASE ck = 0
  <2>1. IsFiniteSet(Orphans \ {i}) /\ Cardinality(Orphans \ {i}) =
          IF i \in Orphans THEN Cardinality(Orphans) - 1 ELSE Cardinality(Orphans)
    <3>1. IsFiniteSet(Orphans) /\ i \in Orphans =>
            IsFiniteSet(Orphans \ {i}) /\ Cardinality(Orphans \ {i}) = Cardinality(Orphans) - 1
      BY FS_RemoveElement
    <3>2. i \notin Orphans => Orphans \ {i} = Orphans
      OBVIOUS
    <3> QED
      BY <1>7, <3>1, <3>2
  <2>2. Cardinality(Orphans') <= Cardinality(Orphans \ {i}) /\ Cardinality(Orphans') \in Nat
    BY <1>10, <1>11, <2>1, FS_Subset, FS_CardinalityType
  <2> QED
    BY <1>2, <1>7, <1>8, <1>11, <2>1, <2>2 DEF OrphansExplained
<1>12. CASE ck = 1
  <2>1. IsFiniteSet(Orphans \cup {i}) /\ Cardinality(Orphans \cup {i}) =
          IF i \in Orphans THEN Cardinality(Orphans) ELSE Cardinality(Orphans) + 1
    BY <1>7, FS_AddElement
  <2>2. Cardinality(Orphans') <= Cardinality(Orphans \cup {i}) /\ Cardinality(Orphans') \in Nat
    BY <1>9, <2>1, FS_Subset, FS_CardinalityType
  <2> QED
    BY <1>2, <1>7, <1>8, <1>12, <2>1, <2>2 DEF OrphansExplained
<1> QED
  BY <1>11, <1>12

\* The values without a key are those of the slots without one, before and after the
\* slots double.
LEMMA AddOrphans ==
  ASSUME Consistent, OrphansExplained, NEW k \in Keys, NEW v \in Vals \cup {NULL},
         Add(k, v) \/ AddGrown(k, v)
  PROVE  OrphansExplained'
<1>1. size \in Nat /\ key \in [0 .. size - 1 -> Keys \cup {NULL}]
        /\ val \in [0 .. size - 1 -> Vals \cup {NULL}] /\ n \in 0 .. size
  BY DEF Consistent, TypeOK, Slots
<1>2. CASE Add(k, v)
  <2>1. n < size /\ Insert(k, v, key, val, hash, size)
    BY <1>1, <1>2 DEF Add
  <2>2. {i \in 0 .. size - 1 : key[i] # NULL} = Used
          /\ {i \in 0 .. size - 1 : key[i] = NULL /\ val[i] # NULL} = Orphans
    BY DEF Used, Orphans, Slots
  <2> QED
    BY <1>1, <2>1, <2>2, InsertOrphans
<1>3. CASE AddGrown(k, v)
  <2> DEFINE keys == Grown(key, NULL)
             vals == Grown(val, NULL)
             hashes == Grown(hash, 0)
  <2>1. 2 * size \in Nat /\ n < 2 * size /\ Insert(k, v, keys, vals, hashes, 2 * size)
    BY <1>1, <1>3 DEF AddGrown, Consistent, HasSlots
  <2>2. /\ keys \in [0 .. 2 * size - 1 -> Keys \cup {NULL}]
        /\ vals \in [0 .. 2 * size - 1 -> Vals \cup {NULL}]
    BY <1>1 DEF Grown, Slots
  <2>3. \A i \in 0 .. size - 1 : keys[i] = key[i] /\ vals[i] = val[i]
    BY <1>1 DEF Grown, Slots
  <2>4. \A i \in size .. 2 * size - 1 : keys[i] = NULL /\ vals[i] = NULL
    BY <1>1 DEF Grown, Slots
  <2> HIDE DEF keys, vals, hashes
  <2>5. {i \in 0 .. 2 * size - 1 : keys[i] # NULL} = Used
    BY <1>1, <2>3, <2>4 DEF Used, Slots
  <2>6. {i \in 0 .. 2 * size - 1 : keys[i] = NULL /\ vals[i] # NULL} = Orphans
    BY <1>1, <2>3, <2>4 DEF Used, Orphans, Slots
  <2>7. \A sz \in Nat : sz = 2 * size =>
          (Insert(k, v, keys, vals, hashes, sz) => OrphansExplained')
    <3> SUFFICES ASSUME NEW sz \in Nat, sz = 2 * size, Insert(k, v, keys, vals, hashes, sz)
                 PROVE  OrphansExplained'
      OBVIOUS
    <3> QED
      BY <2>1, <2>2, <2>5, <2>6, InsertOrphans
  <2> QED
    BY <2>1, <2>7
<1> QED
  BY <1>2, <1>3

\* A replaced value and a deleted key leave no other value without a key.
LEMMA ChangeOrphans ==
  ASSUME Consistent, OrphansExplained, NEW k \in Keys, NEW v \in Vals \cup {NULL},
         Replace(k, v) \/ Unset(k)
  PROVE  OrphansExplained'
<1>1. UNCHANGED <<size, leaked, unkeyed>> /\ Slots' = Slots
  BY DEF Replace, Unset, Slots
<1>2. CASE Replace(k, v)
  <2> DEFINE i == Min(At(k))
  <2>1. Found(k) = At(k) /\ At(k) # {}
    BY <1>2 DEF Replace, Found
  <2>2. i \in Used
    BY <2>1, FirstAt
  <2>3. key' = key /\ \E new : val' = [val EXCEPT ![i] = new]
    BY <1>2, <2>1 DEF Replace
  <2> HIDE DEF i
  <2>4. Used' = Used
    BY <1>1, <2>3 DEF Used
  <2>5. Orphans' = Orphans
    BY <1>1, <2>2, <2>3, <2>4 DEF Orphans, Consistent, TypeOK
  <2> QED
    BY <1>1, <2>5, SameOrphans
<1>3. CASE Unset(k)
  <2> DEFINE i == Min(At(k))
  <2>1. i \in Used
    BY <1>3, FirstAt DEF Unset
  <2>2. key' = [key EXCEPT ![i] = NULL] /\ val' = [val EXCEPT ![i] = NULL]
    BY <1>3 DEF Unset
  <2> HIDE DEF i
  <2>3. Used' = Used \ {i}
    BY <1>1, <2>1, <2>2 DEF Used, Consistent, TypeOK
  <2>4. Orphans' = Orphans
    BY <1>1, <2>1, <2>2, <2>3 DEF Orphans, Used, Consistent, TypeOK
  <2> QED
    BY <1>1, <2>4, SameOrphans
<1> QED
  BY <1>2, <1>3

\* Every call accounts for the values it leaves without a key.
LEMMA StepOrphans == Accounted /\ [Next]_vars => OrphansExplained'
<1> SUFFICES ASSUME Consistent, OrphansExplained, [Next]_vars PROVE OrphansExplained'
  BY DEF Accounted
<1>1. CASE New \/ Del
  <2>1. (Empty(MinSize) /\ MinSize \in Nat) \/ Empty(0)
    BY <1>1, DictAssumption DEF New, Del, DictAssumption
  <2> QED
    BY <2>1, EmptyOrphans
<1>2. ASSUME UNCHANGED <<size, key, val, leaked, unkeyed>> PROVE OrphansExplained'
  <2>1. Orphans' = Orphans
    BY <1>2 DEF Orphans, Used, Slots
  <2> QED
    BY <1>2, <2>1, SameOrphans
<1>3. CASE CrashDel \/ CrashUnset \/ CrashSet
  BY <1>2, <1>3 DEF CrashDel, CrashUnset, CrashSet, Crash, dict
<1>4. ASSUME NEW k \in Keys, GrowFails(k) PROVE OrphansExplained'
  BY <1>2, <1>4 DEF GrowFails, dict
<1>5. ASSUME NEW k \in Keys, Unset(k) PROVE OrphansExplained'
  BY <1>5, ChangeOrphans
<1>6. ASSUME NEW k \in Keys, NEW v \in Vals \cup {NULL}, Replace(k, v) PROVE OrphansExplained'
  BY <1>6, ChangeOrphans
<1>7. ASSUME NEW k \in Keys, NEW v \in Vals \cup {NULL}, Add(k, v) \/ AddGrown(k, v)
      PROVE  OrphansExplained'
  BY <1>7, AddOrphans
<1>8. CASE UNCHANGED vars
  BY <1>2, <1>8 DEF vars, dict
<1> QED
  BY <1>1, <1>3, <1>4, <1>5, <1>6, <1>7, <1>8 DEF Next

\* However often a slot is reused, no more values are lost or left without a key than
\* insertions lost their key (dictionary.c:296-297, 340-345).
THEOREM DictionaryOrphans == Spec => []OrphansExplained
<1>1. Init => Accounted
  <2> SUFFICES ASSUME Init PROVE OrphansExplained
    BY InitConsistent DEF Accounted
  <2>1. Orphans = {}
    BY DEF Init, Orphans, Slots
  <2>2. Cardinality(Orphans) = 0
    BY <2>1, FS_EmptySet
  <2> QED
    BY <2>2 DEF Init, OrphansExplained
<1>2. Accounted /\ [Next]_vars => Accounted'
  BY StepKeeps, StepOrphans DEF Accounted
<1>3. Accounted => OrphansExplained
  BY DEF Accounted
<1> QED
  BY <1>1, <1>2, <1>3, PTL DEF Spec

-----------------------------------------------------------------------------
(* The map that DictMap promises.                                            *)

\* What is stored under the key of a slot is the value of that slot.
LEMMA StoredIs ==
  Consistent => /\ DOMAIN Stored = {key[i] : i \in Used}
                /\ \A i \in Used : Stored[key[i]] = val[i]
<1> SUFFICES ASSUME Consistent PROVE \A i \in Used : Stored[key[i]] = val[i]
  BY DEF Stored
<1> SUFFICES ASSUME NEW i \in Used PROVE Get(key[i], NULL) = val[i]
  BY DEF Stored
<1>1. At(key[i]) = {i}
  BY DEF At, Consistent, Unique
<1>2. i \in Nat
  BY DEF Used, Slots, Consistent, TypeOK
<1>3. Min({i}) \in {i}
  BY <1>2, MinIn
<1> QED
  BY <1>1, <1>3 DEF Get

\* The same after a step.
LEMMA StoredIsNext ==
  Consistent' => /\ DOMAIN Stored' = {key'[i] : i \in Used'}
                 /\ \A i \in Used' : Stored'[key'[i]] = val'[i]
<1>1. (Consistent => /\ DOMAIN Stored = {key[i] : i \in Used}
                     /\ \A i \in Used : Stored[key[i]] = val[i])'
  BY StoredIs, PTL
<1> QED
  BY <1>1

\* A map is what its keys and values are.
LEMMA StoredIsMap == Stored = [k \in DOMAIN Stored |-> Stored[k]]
  BY DEF Stored

\* A slot that is given a key and a value puts them in the map.
LEMMA SlotPuts ==
  ASSUME Consistent, Consistent', NEW k, NEW v, NEW i,
         Used' = Used \cup {i}, key'[i] = k, val'[i] = v,
         \A j \in Used : j # i => key'[j] = key[j] /\ val'[j] = val[j],
         i \in Used => key[i] = k
  PROVE  Stored' = Abstract!With(Stored, k, v)
<1>1. DOMAIN Stored' = DOMAIN Stored \cup {k}
  <2>1. DOMAIN Stored = {key[j] : j \in Used} /\ DOMAIN Stored' = {key'[j] : j \in Used'}
    BY StoredIs, StoredIsNext
  <2> QED
    BY <2>1
<1>2. ASSUME NEW kk \in DOMAIN Stored \cup {k}
      PROVE  Stored'[kk] = IF kk = k THEN v ELSE Stored[kk]
  <2>1. CASE kk = k
    BY <2>1, StoredIsNext
  <2>2. CASE kk # k
    <3>1. PICK j \in Used : key[j] = kk
      BY <2>2, StoredIs
    <3>2. j # i /\ key'[j] = kk /\ val'[j] = val[j] /\ j \in Used'
      BY <2>2, <3>1
    <3> QED
      BY <2>2, <3>1, <3>2, StoredIs, StoredIsNext
  <2> QED
    BY <2>1, <2>2
<1>3. Stored' = [kk \in DOMAIN Stored' |-> Stored'[kk]]
  BY DEF Stored
<1> QED
  BY <1>1, <1>2, <1>3 DEF Abstract!With

\* A step that leaves the slots in use alone leaves the map alone.
LEMMA SlotsKeep ==
  ASSUME Consistent, Consistent', Used' = Used,
         \A j \in Used : key'[j] = key[j] /\ val'[j] = val[j]
  PROVE  Stored' = Stored
<1>1. DOMAIN Stored' = DOMAIN Stored
  BY StoredIs, StoredIsNext
<1>2. ASSUME NEW k \in DOMAIN Stored PROVE Stored'[k] = Stored[k]
  <2>1. PICK j \in Used : key[j] = k
    BY <1>2, StoredIs
  <2> QED
    BY <2>1, StoredIs, StoredIsNext
<1>3. Stored' = [k \in DOMAIN Stored' |-> Stored'[k]]
  BY DEF Stored
<1> QED
  BY <1>1, <1>2, <1>3, StoredIsMap

\* A dictionary without a slot in use is the empty map.
LEMMA NoneStored ==
  ASSUME Empty(0) \/ Empty(MinSize)
  PROVE  Stored' = << >>
<1>1. Used' = {}
  BY DEF Empty, Used, Slots
<1> QED
  BY <1>1 DEF Stored

\* An insertion puts its key, or ignores it.
LEMMA InsertMaps ==
  ASSUME Consistent, Consistent', NEW k \in Keys, NEW v \in Vals \cup {NULL},
         NEW sz \in Nat, n < sz,
         NEW keys \in [0 .. sz - 1 -> Keys \cup {NULL}],
         NEW vals \in [0 .. sz - 1 -> Vals \cup {NULL}],
         NEW hashes,
         {i \in 0 .. sz - 1 : keys[i] # NULL} = Used,
         \A i \in Used : keys[i] = key[i] /\ vals[i] = val[i],
         \A i \in Used : key[i] # k,
         Insert(k, v, keys, vals, hashes, sz)
  PROVE  Abstract!Next
<1> USE DictAssumption DEF DictAssumption
<1>1. PICK i : i = FreeSlot(keys, sz)
  OBVIOUS
<1>2. i \in 0 .. sz - 1 /\ keys[i] = NULL /\ i \notin Used
  BY <1>1, InsertsInHole
<1>3. PICK ck \in {0, 1}, cv \in MayFail(v) :
        /\ Spend(ck + cv)
        /\ size' = sz
        /\ key' = [keys EXCEPT ![i] = Copies(k, ck)]
        /\ val' = [vals EXCEPT ![i] = Copies(v, cv)]
        /\ ret' = 0
  BY <1>1 DEF Insert
<1>4. Slots' = 0 .. sz - 1
  BY <1>3 DEF Slots
<1>5. \A j \in Used : j # i /\ key'[j] = key[j] /\ val'[j] = val[j]
  BY <1>2, <1>3
<1>6. cv \in {0, 1} /\ faults \in Nat
  BY DEF MayFail, Consistent, TypeOK
<1>7. faults' = faults + (ck + cv)
  BY <1>3 DEF Spend
<1>8. CASE ck = 0
  <2>1. Used' = Used \cup {i} /\ key'[i] = k /\ val'[i] = Copies(v, cv)
    BY <1>2, <1>3, <1>4, <1>8 DEF Used, Copies
  <2>2. Stored' = Abstract!With(Stored, k, Copies(v, cv))
    BY <1>2, <1>5, <2>1, SlotPuts
  <2>3. CASE cv = 0
    <3>1. faults' = faults /\ Copies(v, cv) = v
      BY <1>6, <1>7, <1>8, <2>3 DEF Copies
    <3>2. Abstract!Put(k, v)
      BY <1>3, <2>2, <3>1 DEF Abstract!Put
    <3> QED
      BY <3>2 DEF Abstract!Next
  <2>4. CASE cv = 1
    <3>1. faults' > faults /\ Copies(v, cv) = NULL
      BY <1>6, <1>7, <1>8, <2>4 DEF Copies
    <3>2. Abstract!PutNothing(k)
      BY <1>3, <2>2, <3>1 DEF Abstract!PutNothing
    <3> QED
      BY <3>2 DEF Abstract!Next
  <2> QED
    BY <1>6, <2>3, <2>4
<1>9. CASE ck = 1
  <2>1. Used' = Used
    BY <1>2, <1>3, <1>4, <1>9 DEF Used, Copies
  <2>2. Stored' = Stored
    BY <1>5, <2>1, SlotsKeep
  <2>3. faults' > faults
    BY <1>6, <1>7, <1>9
  <2>4. k \notin DOMAIN Stored
    BY StoredIs
  <2>5. Abstract!Ignore(k)
    BY <1>3, <2>2, <2>3, <2>4 DEF Abstract!Ignore
  <2> QED
    BY <2>5 DEF Abstract!Next
<1> QED
  BY <1>8, <1>9

\* A key added, before and after the slots double.
LEMMA AddMaps ==
  ASSUME Consistent, Consistent', NEW k \in Keys, NEW v \in Vals \cup {NULL},
         Add(k, v) \/ AddGrown(k, v)
  PROVE  Abstract!Next
<1>1. size \in Nat /\ key \in [0 .. size - 1 -> Keys \cup {NULL}]
        /\ val \in [0 .. size - 1 -> Vals \cup {NULL}] /\ n \in 0 .. size
  BY DEF Consistent, TypeOK, Slots
<1>2. \A i \in Used : key[i] # k
  BY NotFound DEF Add, AddGrown
<1>3. CASE Add(k, v)
  <2>1. n < size /\ Insert(k, v, key, val, hash, size)
    BY <1>1, <1>3 DEF Add
  <2>2. {i \in 0 .. size - 1 : key[i] # NULL} = Used
    BY DEF Used, Slots
  <2> QED
    BY <1>1, <1>2, <2>1, <2>2, InsertMaps
<1>4. CASE AddGrown(k, v)
  <2> DEFINE keys == Grown(key, NULL)
             vals == Grown(val, NULL)
             hashes == Grown(hash, 0)
  <2>1. 2 * size \in Nat /\ n < 2 * size /\ Insert(k, v, keys, vals, hashes, 2 * size)
    BY <1>1, <1>4 DEF AddGrown, Consistent, HasSlots
  <2>2. /\ keys \in [0 .. 2 * size - 1 -> Keys \cup {NULL}]
        /\ vals \in [0 .. 2 * size - 1 -> Vals \cup {NULL}]
    BY <1>1 DEF Grown, Slots
  <2>3. \A i \in 0 .. size - 1 : keys[i] = key[i] /\ vals[i] = val[i]
    BY <1>1 DEF Grown, Slots
  <2>4. \A i \in size .. 2 * size - 1 : keys[i] = NULL
    BY <1>1 DEF Grown, Slots
  <2> HIDE DEF keys, vals, hashes
  <2>5. {i \in 0 .. 2 * size - 1 : keys[i] # NULL} = Used
    BY <1>1, <2>3, <2>4 DEF Used, Slots
  <2>6. \A i \in Used : keys[i] = key[i] /\ vals[i] = val[i]
    BY <2>3 DEF Used, Slots
  <2>7. \A sz \in Nat : sz = 2 * size =>
          (Insert(k, v, keys, vals, hashes, sz) => Abstract!Next)
    <3> SUFFICES ASSUME NEW sz \in Nat, sz = 2 * size, Insert(k, v, keys, vals, hashes, sz)
                 PROVE  Abstract!Next
      OBVIOUS
    <3>1. /\ n < sz
          /\ keys \in [0 .. sz - 1 -> Keys \cup {NULL}]
          /\ vals \in [0 .. sz - 1 -> Vals \cup {NULL}]
          /\ {i \in 0 .. sz - 1 : keys[i] # NULL} = Used
      BY <2>1, <2>2, <2>5
    <3> QED
      BY <1>2, <2>6, <3>1, InsertMaps
  <2> QED
    BY <2>1, <2>7
<1> QED
  BY <1>3, <1>4

\* A value replaced by a copy, or by nothing.
LEMMA ReplaceMaps ==
  ASSUME Consistent, Consistent', NEW k \in Keys, NEW v \in Vals \cup {NULL}, Replace(k, v)
  PROVE  Abstract!Next
<1>1. Found(k) = At(k) /\ At(k) # {}
  BY DEF Replace, Found
<1>2. PICK i : i = Min(At(k))
  OBVIOUS
<1>3. i \in Used /\ key[i] = k
  BY <1>1, <1>2, FirstAt
<1>4. PICK c \in MayFail(v) : Spend(c) /\ val' = [val EXCEPT ![i] = Copies(v, c)]
  BY <1>1, <1>2 DEF Replace
<1>5. key' = key /\ Used' = Used /\ ret' = 0
  BY DEF Replace, Used, Slots
<1>6. val'[i] = Copies(v, c) /\ \A j \in Used : j # i => val'[j] = val[j]
  BY <1>3, <1>4 DEF Used, Consistent, TypeOK
<1>7. Stored' = Abstract!With(Stored, k, Copies(v, c))
  BY <1>3, <1>5, <1>6, SlotPuts
<1>8. c \in {0, 1} /\ faults \in Nat /\ faults' = faults + c
  BY <1>4 DEF MayFail, Spend, Consistent, TypeOK
<1>9. CASE c = 0
  <2>1. Abstract!Put(k, v)
    BY <1>5, <1>7, <1>8, <1>9 DEF Abstract!Put, Copies
  <2> QED
    BY <2>1 DEF Abstract!Next
<1>10. CASE c = 1
  <2>1. Abstract!PutNothing(k)
    BY <1>5, <1>7, <1>8, <1>10 DEF Abstract!PutNothing, Copies
  <2> QED
    BY <2>1 DEF Abstract!Next
<1> QED
  BY <1>8, <1>9, <1>10

\* A key deleted leaves the map, since no other slot holds it.
LEMMA UnsetMaps ==
  ASSUME Consistent, Consistent', NEW k \in Keys, Unset(k)
  PROVE  Abstract!Next
<1>1. PICK i : i = Min(At(k))
  OBVIOUS
<1>2. i \in Used /\ key[i] = k
  BY <1>1, FirstAt DEF Unset
<1>3. /\ key' = [key EXCEPT ![i] = NULL] /\ val' = [val EXCEPT ![i] = NULL]
      /\ size' = size /\ ret' = ret /\ faults' = faults
  BY <1>1 DEF Unset
<1>4. Used' = Used \ {i}
  BY <1>2, <1>3 DEF Used, Slots, Consistent, TypeOK
<1>5. \A j \in Used' : j \in Used /\ key'[j] = key[j] /\ val'[j] = val[j] /\ key[j] # k
  BY <1>2, <1>3, <1>4 DEF Used, Consistent, TypeOK, Unique
<1>6. DOMAIN Stored' = DOMAIN Stored \ {k}
  <2>1. DOMAIN Stored = {key[j] : j \in Used} /\ DOMAIN Stored' = {key'[j] : j \in Used'}
    BY StoredIs, StoredIsNext
  <2> QED
    BY <1>2, <1>4, <1>5, <2>1
<1>7. ASSUME NEW kk \in DOMAIN Stored' PROVE Stored'[kk] = Stored[kk]
  <2>1. PICK j \in Used' : key'[j] = kk
    BY <1>7, StoredIsNext
  <2> QED
    BY <1>5, <2>1, StoredIs, StoredIsNext
<1>8. Stored' = [kk \in DOMAIN Stored' |-> Stored'[kk]]
  BY DEF Stored
<1>9. Stored' = [kk \in DOMAIN Stored \ {k} |-> Stored[kk]]
  BY <1>6, <1>7, <1>8
<1>10. Abstract!Remove(k)
  BY <1>3, <1>9 DEF Abstract!Remove
<1> QED
  BY <1>10 DEF Abstract!Next

\* Every call changes the map as DictMap allows, or leaves it.
LEMMA StepMaps ==
  Consistent /\ Consistent' /\ [Next]_vars => [Abstract!Next]_Abstract!mapVars
<1> SUFFICES ASSUME Consistent, Consistent', [Next]_vars
             PROVE  Abstract!Next \/ UNCHANGED Abstract!mapVars
  OBVIOUS
<1> USE DictAssumption DEF DictAssumption
<1>1. CASE New \/ Del
  <2>1. (Empty(0) \/ Empty(MinSize)) /\ ret' = ret
    BY <1>1 DEF New, Del
  <2>2. faults' >= faults
    <3>1. CASE New
      <4>1. missing' \in SUBSET {"key", "val", "hash"} /\ faults' = faults + Cardinality(missing')
        BY <3>1 DEF New, Spend
      <4>2. Cardinality(missing') \in Nat
        BY <4>1, ArraysCounted
      <4> QED
        BY <4>1, <4>2 DEF Consistent, TypeOK
    <3>2. CASE Del
      BY <3>2 DEF Del, Consistent, TypeOK
    <3> QED
      BY <1>1, <3>1, <3>2
  <2>3. Stored' = << >>
    BY <2>1, NoneStored
  <2>4. Abstract!Clear
    BY <2>1, <2>2, <2>3 DEF Abstract!Clear
  <2> QED
    BY <2>4 DEF Abstract!Next
<1>2. ASSUME UNCHANGED <<size, key, val>> PROVE Stored' = Stored
  <2>1. Used' = Used
    BY <1>2 DEF Used, Slots
  <2> QED
    BY <1>2, <2>1, SlotsKeep
<1>3. CASE CrashDel \/ CrashUnset \/ CrashSet
  BY <1>2, <1>3 DEF CrashDel, CrashUnset, CrashSet, Crash, dict, Abstract!mapVars
<1>4. ASSUME NEW k \in Keys, GrowFails(k) PROVE Abstract!Next
  <2>1. Abstract!Refuse
    BY <1>2, <1>4 DEF GrowFails, Spend, dict, Abstract!Refuse, Consistent, TypeOK
  <2> QED
    BY <2>1 DEF Abstract!Next
<1>5. ASSUME NEW k \in Keys, Unset(k) PROVE Abstract!Next
  BY <1>5, UnsetMaps
<1>6. ASSUME NEW k \in Keys, NEW v \in Vals \cup {NULL}, Replace(k, v) PROVE Abstract!Next
  BY <1>6, ReplaceMaps
<1>7. ASSUME NEW k \in Keys, NEW v \in Vals \cup {NULL}, Add(k, v) \/ AddGrown(k, v)
      PROVE  Abstract!Next
  BY <1>7, AddMaps
<1>8. CASE UNCHANGED vars
  BY <1>2, <1>8 DEF vars, dict, Abstract!mapVars
<1> QED
  BY <1>1, <1>3, <1>4, <1>5, <1>6, <1>7, <1>8 DEF Next

\* The dictionary is the map it promises, through holes, growth, colliding hashes and
\* every failure it does not report (dictionary.c:150-349).
THEOREM DictionaryImplements == Spec => Implements
<1>1. Init => Abstract!Init
  <2> SUFFICES ASSUME Init PROVE Stored = << >> /\ ret = 0 /\ faults = 0
    BY DEF Abstract!Init
  <2>1. Used = {}
    BY DEF Init, Used, Slots
  <2> QED
    BY <2>1 DEF Init, Stored
<1>2. Consistent /\ Consistent' /\ [Next]_vars => [Abstract!Next]_Abstract!mapVars
  BY StepMaps
<1> QED
  BY <1>1, <1>2, DictionaryConsistent, PTL DEF Spec, Implements, Abstract!Spec

=============================================================================
