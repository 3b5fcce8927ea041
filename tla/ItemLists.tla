------------------------------ MODULE ItemLists ------------------------------
(***************************************************************************)
(* The items of cJSON.c in memory, and their lists.  The items of a box    *)
(* are linked by next and prev, child points to the first, and the prev of *)
(* the first is the last.  An operator takes memory and returns the memory *)
(* it leaves, in a record when there is more to tell.                      *)
(***************************************************************************)
EXTENDS Integers, Sequences, FiniteSets, FiniteSetsExt

CONSTANTS
  MaxItems,     \* bound: items memory has room for
  NoKey         \* the name of an item without one

ASSUME MaxItemsAssumption == MaxItems \in Nat

NULL == 0
Item == 1 .. MaxItems
Pointer == 0 .. MaxItems

Steps == 0 .. MaxItems + 1

\* The items of b in the order of next; a list that does not end is cut.
Children(h, b) ==
  LET walk[k \in Steps] ==
        [n \in Pointer |-> IF n = NULL \/ k = 0 THEN <<>> ELSE <<n>> \o walk[k - 1][h.next[n]]]
  IN walk[MaxItems + 1][h.child[b]]

get_array_item(h, b, which) ==
  LET l == Children(h, b) IN IF which < Len(l) THEN l[which + 1] ELSE NULL

suffix_object(h, p, n) == [h EXCEPT !.next[p] = n, !.prev[n] = p]

add_item_to_array(h, b, n) ==
  LET first == h.child[b] IN
  IF first = NULL THEN [h EXCEPT !.child[b] = n, !.prev[n] = n, !.next[n] = NULL]
  ELSE IF h.prev[first] # NULL
    THEN [suffix_object(h, h.prev[first], n) EXCEPT !.prev[first] = n]
  ELSE h

\* Mutant: the first child is not told of a new last one.
DetachForgetsTail(h, b, n) ==
  LET g == IF n = h.child[b] THEN h ELSE [h EXCEPT !.next[h.prev[n]] = h.next[n]]
      f == IF h.next[n] = NULL THEN g ELSE [g EXCEPT !.prev[h.next[n]] = h.prev[n]]
      e == IF n = h.child[b] THEN [f EXCEPT !.child[b] = h.next[n]] ELSE f
  IN [e EXCEPT !.prev[n] = NULL, !.next[n] = NULL]

DetachItemViaPointer(h, b, n) ==
  LET g == IF n = h.child[b] THEN h ELSE [h EXCEPT !.next[h.prev[n]] = h.next[n]]
      f == IF h.next[n] = NULL THEN g ELSE [g EXCEPT !.prev[h.next[n]] = h.prev[n]]
      e == IF n = h.child[b] THEN [f EXCEPT !.child[b] = h.next[n]]
           ELSE IF h.next[n] = NULL THEN [f EXCEPT !.prev[h.child[b]] = h.prev[n]]
           ELSE f
  IN [e EXCEPT !.prev[n] = NULL, !.next[n] = NULL]

\* Mutant: what is inserted in front of the first child is linked behind the last.
InsertAfterTail(h, b, which, n) ==
  LET after == get_array_item(h, b, which)
      g == [h EXCEPT !.next[n] = after, !.prev[n] = h.prev[after], !.prev[after] = n]
  IN IF after = NULL THEN add_item_to_array(h, b, n)
     ELSE [g EXCEPT !.next[h.prev[after]] = n]

InsertItemInArray(h, b, which, n) ==
  LET after == get_array_item(h, b, which)
      g == [h EXCEPT !.next[n] = after, !.prev[n] = h.prev[after], !.prev[after] = n]
  IN IF after = NULL THEN add_item_to_array(h, b, n)
     ELSE IF after = h.child[b] THEN [g EXCEPT !.child[b] = n]
     ELSE [g EXCEPT !.next[h.prev[after]] = n]

\* new in the place of n, which is then deleted.
Exchange(h, b, n, new) ==
  LET only == h.child[b] = n /\ h.prev[n] = n
      g == [h EXCEPT !.next[new] = h.next[n],
                     !.prev[new] = IF only THEN new ELSE h.prev[n]]
      f == IF h.next[n] = NULL THEN g ELSE [g EXCEPT !.prev[h.next[n]] = new]
      e == IF h.child[b] = n THEN [f EXCEPT !.child[b] = new]
           ELSE IF h.next[n] # NULL THEN [f EXCEPT !.next[h.prev[n]] = new]
           ELSE [f EXCEPT !.next[h.prev[n]] = new, !.prev[h.child[b]] = new]
  IN [e EXCEPT !.next[n] = NULL, !.prev[n] = NULL]

-----------------------------------------------------------------------------
(* Making items and naming them.                                             *)

\* An item of zeros.
Blank(h, n) ==
  [h EXCEPT !.next[n] = NULL, !.prev[n] = NULL, !.child[n] = NULL, !.kind[n] = "plain",
            !.key[n] = NoKey, !.own[n] = FALSE, !.ref[n] = FALSE, !.const[n] = FALSE]

Spend(h) == [h EXCEPT !.budget = IF @ > 0 THEN @ - 1 ELSE @]

Fail(h) == [h EXCEPT !.short = TRUE]

New_Item(h) ==
  LET free == Item \ h.live IN
  IF h.budget = 0 \/ free = {} THEN [h |-> Fail(h), n |-> NULL]
  ELSE [h |-> [Blank(Spend(h), Min(free)) EXCEPT !.live = @ \cup {Min(free)}],
        n |-> Min(free)]

strdup(h) ==
  IF h.budget = 0 THEN [h |-> Fail(h), ok |-> FALSE]
  ELSE [h |-> [Spend(h) EXCEPT !.strings = @ + 1], ok |-> TRUE]

OwnsChildren(h, n) == h.child[n] # NULL /\ ~h.ref[n]
OwnsValue(h, n) == h.own[n] /\ ~h.ref[n]
OwnsKey(h, n) == h.key[n] # NoKey /\ ~h.const[n]
One(b) == IF b THEN 1 ELSE 0

\* Every copy of a string belongs to one item, and goes with it or with the name it
\* replaces (cJSON.c:262-269, 2007-2042, 2347-2363).
StringsCounted(h) ==
  h.strings = Cardinality({n \in h.live : OwnsKey(h, n)})
            + Cardinality({n \in h.live : OwnsValue(h, n)})

\* The copy shares the children and the valuestring.
create_reference(h, n) ==
  LET r == New_Item(h) IN
  IF r.n = NULL THEN r
  ELSE [h |-> [r.h EXCEPT !.child[r.n] = h.child[n], !.kind[r.n] = h.kind[n],
                          !.own[r.n] = h.own[n], !.const[r.n] = h.const[n], !.ref[r.n] = TRUE],
        n |-> r.n]

\* The old name goes, a copy of the new one was made before.
Rename(h, n, k, const) ==
  [h EXCEPT !.strings = @ - One(OwnsKey(h, n)), !.key[n] = k, !.const[n] = const]

add_item_to_object(h, b, k, n, const) ==
  LET s == IF const THEN [h |-> h, ok |-> TRUE] ELSE strdup(h)
  IN IF n = NULL THEN [h |-> h, ok |-> FALSE]
     ELSE IF ~s.ok THEN s
     ELSE [h |-> add_item_to_array(Rename(s.h, n, k, const), b, n), ok |-> TRUE]

-----------------------------------------------------------------------------
(* Deleting.                                                                 *)

\* The items in the order they are freed: the children, the item, what follows it.
Doomed(h, first) ==
  LET walk[k \in Steps] ==
        [n \in Pointer |->
          IF n = NULL \/ k = 0 THEN <<>>
          ELSE (IF OwnsChildren(h, n) THEN walk[k - 1][h.child[n]] ELSE <<>>)
                 \o <<n>> \o walk[k - 1][h.next[n]]]
  IN walk[MaxItems + 1][first]

\* An item goes with the strings it owns.
Free(h, n) ==
  IF n \notin h.live THEN [h EXCEPT !.bad = TRUE]
  ELSE [Blank(h, n) EXCEPT !.live = @ \ {n},
                           !.strings = @ - One(OwnsKey(h, n)) - One(OwnsValue(h, n))]

Delete(h, first) ==
  LET order == Doomed(h, first)
      freed[i \in 0 .. Len(order)] == IF i = 0 THEN h ELSE Free(freed[i - 1], order[i])
  IN freed[Len(order)]

ReplaceItemViaPointer(h, b, n, new) == Delete(Exchange(h, b, n, new), n)

=============================================================================
