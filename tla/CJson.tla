------------------------------- MODULE CJson --------------------------------
(***************************************************************************)
(* cJSON.c: trees of items in memory.  A box (array or object) points to   *)
(* its first child; children are linked by next and prev, and the prev of  *)
(* the first is the last.  The caller keeps the rules of cJSON.h: it adds  *)
(* an item it owns, and not under itself, changes no reference and reads   *)
(* none once something was deleted.  An operator on memory takes a heap    *)
(* and returns the heap it leaves, in a record when there is more to tell. *)
(***************************************************************************)
EXTENDS ItemLists, FiniteSets, SequencesExt, FiniteSetsExt

CONSTANTS
  Keys,           \* names of members
  Fold,           \* a name in lower case
  Docs,           \* bound: texts handed to cJSON_Parse
  NestingLimit,   \* CJSON_NESTING_LIMIT
  MaxCount,       \* bound: values handed to cJSON_CreateStringArray and its like
  MaxBudget,      \* bound: allocations of a call before the one that fails
  MaxCalls        \* bound: calls of the interface

ASSUME CJsonAssumption ==
  /\ {NestingLimit, MaxCount, MaxBudget, MaxCalls} \subseteq Nat
  /\ NoKey \notin Keys /\ Fold \in [Keys -> Keys]

VARIABLES
  heap,     \* memory, see TypeOK
  held,     \* the items the caller owns and must delete
  lost,     \* history: items no pointer leads to any more
  unnamed,  \* history: a replacement's name could not be copied
  stale,    \* history: references that were there when something was deleted
  made,     \* history: every tree that was made has the shape asked for
  calls     \* what the bound counts

vars == <<heap, held, lost, unnamed, stale, made, calls>>

Boxes == {"array", "object"}
Kinds == {"plain", "text"} \cup Boxes    \* plain: null, a boolean or a number
Endless == -1

\* budget: allocations left to the running call; strings: allocated copies of strings;
\* own: valuestring is set; ref, const: cJSON_IsReference, cJSON_StringIsConst;
\* bad: something was read or freed that is not allocated.
TypeOK ==
  /\ DOMAIN heap = {"live", "next", "prev", "child", "kind", "key", "own", "ref",
                    "const", "strings", "budget", "short", "bad"}
  /\ heap.live \subseteq Item
  /\ {heap.next, heap.prev, heap.child} \subseteq [Item -> Pointer]
  /\ heap.kind \in [Item -> Kinds] /\ heap.key \in [Item -> Keys \cup {NoKey}]
  /\ {heap.own, heap.ref, heap.const} \subseteq [Item -> BOOLEAN]
  /\ heap.strings \in 0 .. 2 * MaxItems
  /\ heap.budget = Endless /\ ~heap.short /\ heap.bad \in BOOLEAN
  /\ held \cup lost \cup stale \subseteq heap.live
  /\ {unnamed, made} \subseteq BOOLEAN /\ calls \in 0 .. MaxCalls

Init ==
  /\ heap = [live |-> {}, next |-> [n \in Item |-> NULL], prev |-> [n \in Item |-> NULL],
             child |-> [n \in Item |-> NULL], kind |-> [n \in Item |-> "plain"],
             key |-> [n \in Item |-> NoKey], own |-> [n \in Item |-> FALSE],
             ref |-> [n \in Item |-> FALSE], const |-> [n \in Item |-> FALSE],
             strings |-> 0, budget |-> Endless, short |-> FALSE, bad |-> FALSE]
  /\ held = {} /\ lost = {} /\ unnamed = FALSE /\ stale = {}
  /\ made = TRUE /\ calls = 0

-----------------------------------------------------------------------------
(* Lists                                                                     *)

\* A search that heeds case stops at a member without a name.
get_object_item(h, b, k, cs) ==
  LET l == Children(h, b)
      Stops(n) == IF cs THEN h.key[n] \in {k, NoKey}
                  ELSE h.key[n] # NoKey /\ Fold[h.key[n]] = Fold[k]
      i == SelectInSeq(l, Stops)
  IN IF i = 0 \/ h.key[l[i]] = NoKey THEN NULL ELSE l[i]

-----------------------------------------------------------------------------
(* Calls that make trees                                                     *)

Created(h, kind) ==
  LET r == New_Item(h)
      s == IF kind = "text" /\ r.n # NULL THEN strdup(r.h) ELSE [h |-> r.h, ok |-> TRUE]
  IN IF r.n = NULL THEN r
     ELSE IF ~s.ok THEN [h |-> Delete(s.h, r.n), n |-> NULL]
     ELSE [h |-> [s.h EXCEPT !.kind[r.n] = kind, !.own[r.n] = (kind = "text")], n |-> r.n]

RECURSIVE CreateElements(_, _, _, _, _)
\* i more elements behind the item p of the array a; prev of the first is set at the end.
CreateElements(h, a, p, i, kind) ==
  LET r == Created(h, kind) IN
  IF i = 0 THEN [h |-> IF p = NULL THEN h ELSE [h EXCEPT !.prev[h.child[a]] = p], n |-> a]
  ELSE IF r.n = NULL THEN [h |-> Delete(r.h, a), n |-> NULL]
  ELSE CreateElements(IF p = NULL THEN [r.h EXCEPT !.child[a] = r.n]
                      ELSE suffix_object(r.h, p, r.n), a, r.n, i - 1, kind)

RECURSIVE Copy(_, _, _), CopyChildren(_, _, _, _)
\* cJSON_Duplicate: what a reference shares is copied, and the copy is none.
Copy(h, n, recurse) ==
  LET r == New_Item(h)
      c == r.n
      v == IF h.own[n] THEN strdup(r.h) ELSE [h |-> r.h, ok |-> TRUE]
      k == IF OwnsKey(h, n) THEN strdup(v.h) ELSE [h |-> v.h, ok |-> TRUE]
      g == [k.h EXCEPT !.kind[c] = h.kind[n], !.own[c] = h.own[n],
                       !.key[c] = h.key[n], !.const[c] = h.const[n]]
  IN IF c = NULL THEN r
     ELSE IF ~v.ok THEN [h |-> Delete(v.h, c), n |-> NULL]
     ELSE IF ~k.ok THEN [h |-> Delete([k.h EXCEPT !.own[c] = h.own[n]], c), n |-> NULL]
     ELSE IF recurse THEN CopyChildren(g, c, h.child[n], NULL)
     ELSE [h |-> g, n |-> c]

\* The children from m on are copied behind the copy p.
CopyChildren(h, c, m, p) ==
  LET d == Copy(h, m, TRUE) IN
  IF m = NULL THEN [h |-> IF p = NULL THEN h ELSE [h EXCEPT !.prev[h.child[c]] = p], n |-> c]
  ELSE IF d.n = NULL THEN [h |-> Delete(d.h, c), n |-> NULL]
  ELSE CopyChildren(IF p = NULL THEN [d.h EXCEPT !.child[c] = d.n]
                    ELSE suffix_object(d.h, p, d.n), c, h.next[m], d.n)

\* The list from ends[1] to ends[2] becomes the children of n.
CloseBox(h, n, doc, ends, depth) ==
  [h |-> [(IF ends[1] = NULL THEN h ELSE [h EXCEPT !.prev[ends[1]] = ends[2]])
           EXCEPT !.kind[n] = doc.kind, !.child[n] = ends[1]],
   ok |-> TRUE, depth |-> depth - 1]

\* Mutant: the list read so far is forgotten.
RefuseKeeps(h, head, depth) == [h |-> h, ok |-> FALSE, depth |-> depth]

Refuse(h, head, depth) == [h |-> Delete(h, head), ok |-> FALSE, depth |-> depth]

\* A string is decoded into memory of its own.
ParseString(h) == strdup(h)

\* The item that was made becomes the last of the list.
Attached(r, ends) ==
  IF ends[1] = NULL THEN [h |-> r.h, ends |-> <<r.n, r.n>>]
  ELSE [h |-> suffix_object(r.h, ends[2], r.n), ends |-> <<ends[1], r.n>>]

RECURSIVE ParseValue(_, _, _, _), ParseMembers(_, _, _, _, _, _)
\* A text is given by its value; kind "bad" is text that is no value.
ParseValue(h, n, doc, depth) ==
  LET s == ParseString(h) IN
  CASE doc.kind = "bad" -> Refuse(h, NULL, depth)
    [] doc.kind = "plain" -> [h |-> [h EXCEPT !.kind[n] = "plain"], ok |-> TRUE, depth |-> depth]
    [] doc.kind = "text" ->
         [h |-> [s.h EXCEPT !.kind[n] = "text", !.own[n] = s.ok], ok |-> s.ok, depth |-> depth]
    [] doc.kind \in Boxes /\ depth >= NestingLimit -> Refuse(h, NULL, depth)
    [] doc.kind \in Boxes /\ depth < NestingLimit ->
         ParseMembers(h, n, doc, 1, <<NULL, NULL>>, depth + 1)

\* The members from the i-th on; a name is read as a valuestring and moved.
ParseMembers(h, n, doc, i, ends, depth) ==
  LET r == New_Item(h)
      g == Attached(r, ends)
      s == IF doc.kind = "object" THEN ParseString(g.h) ELSE [h |-> g.h, ok |-> TRUE]
      v == ParseValue([s.h EXCEPT !.key[r.n] = doc.items[i].key], r.n, doc.items[i], depth)
  IN IF i > Len(doc.items) THEN CloseBox(h, n, doc, ends, depth)
     ELSE IF r.n = NULL THEN Refuse(r.h, ends[1], depth)
     ELSE IF ~s.ok THEN Refuse(s.h, g.ends[1], depth)
     ELSE IF ~v.ok THEN Refuse(v.h, g.ends[1], v.depth)
     ELSE ParseMembers(v.h, n, doc, i + 1, g.ends, v.depth)

Parsed(h, doc) ==
  LET r == New_Item(h)
      v == ParseValue(r.h, r.n, doc, 0)
  IN IF r.n = NULL THEN r
     ELSE [h |-> IF v.ok THEN v.h ELSE Delete(v.h, r.n), n |-> IF v.ok THEN r.n ELSE NULL]

-----------------------------------------------------------------------------
(* What the caller may do.                                                   *)

\* The items at and below those of S, through references too if refs.
Reach(h, S, refs) ==
  LET f[k \in 0 .. MaxItems] ==
        IF k = 0 THEN S
        ELSE LET near == f[k - 1] IN
             near \cup UNION {ToSet(Children(h, n)) :
                                n \in {m \in near \ {NULL} : refs \/ ~h.ref[m]}}
  IN f[MaxItems]

Mine == Reach(heap, held, FALSE)
Box(kind) == {b \in Mine : heap.kind[b] = kind /\ ~heap.ref[b]}

\* The item can be read to its end: nothing freed and nothing below itself.
Readable(n) ==
  LET all == Reach(heap, {n}, TRUE) IN
  /\ all \cap stale = {}
  /\ \A m \in all : m \notin Reach(heap, ToSet(Children(heap, m)), TRUE)

\* What the caller may give away to b.
Movable(b) == {n \in held : b \notin Reach(heap, {n}, FALSE)}

\* A call with any number of allocations before one fails.
Calls == {[heap EXCEPT !.budget = b] : b \in {Endless} \cup 0 .. MaxBudget}

Leave(h) ==
  /\ calls' = calls + 1
  /\ heap' = [h EXCEPT !.budget = Endless, !.short = FALSE]
  /\ stale' = IF heap.live \subseteq h.live THEN stale
              ELSE {n \in heap.live : heap.ref[n]} \cap h.live

RECURSIVE Shape(_, _)
Shape(h, n) ==
  [kind |-> h.kind[n], key |-> h.key[n],
   items |-> [i \in DOMAIN Children(h, n) |-> Shape(h, Children(h, n)[i])]]

Leaf(kind) == [kind |-> kind, key |-> NoKey, items |-> <<>>]

RECURSIVE Sound(_, _)
Sound(doc, depth) ==
  CASE doc.kind = "bad" -> FALSE
    [] doc.kind \in {"plain", "text"} -> TRUE
    [] doc.kind \in Boxes ->
         depth < NestingLimit /\ \A i \in DOMAIN doc.items : Sound(doc.items[i], depth + 1)

\* r is a tree of that shape, or there is none and a reason for it.
Made(r, doc) ==
  IF r.n # NULL THEN Shape(r.h, r.n) = doc ELSE r.h.short \/ ~Sound(doc, 0)

Gained(n) == IF n = NULL THEN {} ELSE {n}

-----------------------------------------------------------------------------
(* The interface of cJSON.h.                                                 *)

\* CreateNull, True, False, Bool, Number; String, Raw; Array; Object.
Create(kind) ==
  \E h \in Calls : LET r == Created(h, kind) IN
    /\ Leave(r.h)
    /\ held' = held \cup Gained(r.n)
    /\ made' = (made /\ Made(r, Leaf(kind)))
    /\ UNCHANGED <<lost, unnamed>>

\* CreateIntArray, FloatArray, DoubleArray; CreateStringArray.
CreateArrayOf(kind, count) ==
  \E h \in Calls :
    LET a == Created(h, "array")
        r == IF a.n = NULL THEN a ELSE CreateElements(a.h, a.n, NULL, count, kind) IN
    /\ Leave(r.h)
    /\ held' = held \cup Gained(r.n)
    /\ made' = (made /\ Made(r, [Leaf("array") EXCEPT
                                 !.items = [i \in 1 .. count |-> Leaf(kind)]]))
    /\ UNCHANGED <<lost, unnamed>>

\* CreateArrayReference and CreateObjectReference on the children of a box.
CreateBoxReference(b) ==
  \E h \in Calls :
    LET r == New_Item(h) IN
    /\ Leave(IF r.n = NULL THEN r.h
             ELSE [r.h EXCEPT !.child[r.n] = h.child[b], !.kind[r.n] = h.kind[b],
                              !.ref[r.n] = TRUE])
    /\ held' = held \cup Gained(r.n)
    /\ UNCHANGED <<made, lost, unnamed>>

Duplicate(n, recurse) ==
  /\ Readable(n)
  /\ \E h \in Calls : LET r == Copy(h, n, recurse) IN
       /\ Leave(r.h)
       /\ held' = held \cup Gained(r.n)
       /\ made' = (made /\ Made(r, IF recurse THEN Shape(heap, n)
                                   ELSE [Shape(heap, n) EXCEPT !.items = <<>>]))
  /\ UNCHANGED <<lost, unnamed>>

Parse(doc) ==
  \E h \in Calls : LET r == Parsed(h, doc) IN
    /\ Leave(r.h)
    /\ held' = held \cup Gained(r.n)
    /\ made' = (made /\ Made(r, doc))
    /\ UNCHANGED <<lost, unnamed>>

DeleteRoot(n) ==
  /\ Leave(Delete(heap, n))
  /\ held' = held \ {n}
  /\ UNCHANGED <<made, lost, unnamed>>

AddItemToArray(b, n) ==
  /\ Leave(add_item_to_array(heap, b, n))
  /\ held' = held \ {n}
  /\ UNCHANGED <<made, lost, unnamed>>

\* AddItemToObject and, with a constant name, AddItemToObjectCS.
AddItemToObject(b, k, n, const) ==
  \E h \in Calls : LET r == add_item_to_object(h, b, k, n, const) IN
    /\ Leave(r.h)
    /\ held' = IF r.ok THEN held \ {n} ELSE held
    /\ UNCHANGED <<made, lost, unnamed>>

\* AddNullToObject to AddArrayToObject: what cannot be added is deleted.
AddNewToObject(b, k, kind) ==
  \E h \in Calls :
    LET c == Created(h, kind)
        r == add_item_to_object(c.h, b, k, c.n, FALSE) IN
    /\ Leave(IF r.ok THEN r.h ELSE Delete(r.h, c.n))
    /\ UNCHANGED <<made, held, lost, unnamed>>

AddItemReferenceToArray(b, n) ==
  \E h \in Calls : LET r == create_reference(h, n) IN
    /\ Leave(IF r.n = NULL THEN r.h ELSE add_item_to_array(r.h, b, r.n))
    /\ UNCHANGED <<made, held, lost, unnamed>>

\* A reference whose name cannot be copied is nobody's.
AddItemReferenceToObject(b, k, n) ==
  \E h \in Calls :
    LET c == create_reference(h, n)
        r == add_item_to_object(c.h, b, k, c.n, FALSE) IN
    /\ Leave(r.h)
    /\ lost' = IF r.ok THEN lost ELSE lost \cup Gained(c.n)
    /\ UNCHANGED <<made, held, unnamed>>

\* DetachItemFromArray and DetachItemFromObject, by the item they find.
Detach(b, n) ==
  /\ Leave(DetachItemViaPointer(heap, b, n))
  /\ held' = held \cup {n}
  /\ UNCHANGED <<made, lost, unnamed>>

DeleteItem(b, n) ==
  /\ Leave(Delete(DetachItemViaPointer(heap, b, n), n))
  /\ UNCHANGED <<made, held, lost, unnamed>>

Insert(b, which, n) ==
  /\ Leave(InsertItemInArray(heap, b, which, n))
  /\ held' = held \ {n}
  /\ UNCHANGED <<made, lost, unnamed>>

ReplaceItemInArray(b, n, new) ==
  /\ Leave(ReplaceItemViaPointer(heap, b, n, new))
  /\ held' = held \ {new}
  /\ UNCHANGED <<made, lost, unnamed>>

\* The replacement is renamed first, whether there is something to replace or not; a
\* name that cannot be copied leaves it without one.
ReplaceItemInObject(b, k, new, cs) ==
  \E h \in Calls :
    LET s == strdup([h EXCEPT !.strings = @ - One(OwnsKey(h, new))])
        g == [s.h EXCEPT !.key[new] = IF s.ok THEN k ELSE NoKey, !.const[new] = FALSE]
        n == get_object_item(g, b, k, cs) IN
    /\ Leave(IF n = NULL THEN g ELSE ReplaceItemViaPointer(g, b, n, new))
    /\ held' = IF n = NULL THEN held ELSE held \ {new}
    /\ unnamed' = (unnamed \/ ~s.ok)
    /\ UNCHANGED <<made, lost>>

Found(b) ==
  ({get_array_item(heap, b, i) : i \in 0 .. MaxItems}
    \cup {get_object_item(heap, b, k, cs) : k \in Keys, cs \in BOOLEAN}) \ {NULL}

Call ==
  \/ \E kind \in Kinds : Create(kind)
  \/ \E kind \in {"plain", "text"}, count \in 0 .. MaxCount : CreateArrayOf(kind, count)
  \/ \E doc \in Docs : Parse(doc)
  \/ \E n \in held : DeleteRoot(n)
  \/ \E n \in Mine, recurse \in BOOLEAN : Duplicate(n, recurse)
  \/ \E b \in Box("array") \cup Box("object") :
       \/ CreateBoxReference(b)
       \/ \E n \in Found(b) : Detach(b, n) \/ DeleteItem(b, n)
  \/ \E b \in Box("array") :
       \/ \E n \in Mine : AddItemReferenceToArray(b, n)
       \/ \E n \in Movable(b) :
            \/ AddItemToArray(b, n)
            \/ \E which \in 0 .. MaxItems : Insert(b, which, n)
            \/ \E old \in Found(b) : ReplaceItemInArray(b, old, n)
  \/ \E b \in Box("object"), k \in Keys :
       \/ \E kind \in Kinds : AddNewToObject(b, k, kind)
       \/ \E n \in Mine : AddItemReferenceToObject(b, k, n)
       \/ \E n \in Movable(b), flag \in BOOLEAN :
            AddItemToObject(b, k, n, flag) \/ ReplaceItemInObject(b, k, n, flag)

Next == calls < MaxCalls /\ Call

Spec == Init /\ [][Next]_vars

-----------------------------------------------------------------------------
\* The list of every box can be walked both ways: it ends, the prev of its first item
\* is its last, and an item that is in no list leads to none (cJSON.c:1952-1983,
\* 2183-2335).
WellLinked ==
  /\ \A b \in {n \in heap.live : ~heap.ref[n]} : LET l == Children(heap, b) IN
       /\ Len(l) <= MaxItems
       /\ \A i \in 1 .. Len(l) : heap.prev[l[i]] = IF i = 1 THEN Last(l) ELSE l[i - 1]
  /\ \A n \in held \cup lost : heap.next[n] = NULL

\* No call frees or walks to an item that was freed, whatever shares its children
\* (cJSON.c:253-274).
FreedOnce == ~heap.bad

Places(b, n) == LET l == Children(heap, b) IN Cardinality({i \in DOMAIN l : l[i] = n})

\* Every item has one owner: the caller, one place in one list of an item that is no
\* reference, or, when it is lost, none.  Whatever allocation of a call fails, nothing
\* else is left without one (cJSON.c:1437-1708, 2055-2181, 2536-2778).
OwnedOnce ==
  \A n \in heap.live :
    One(n \in held) + One(n \in lost)
      + MapThenSumSet(LAMBDA b : Places(b, n), {b \in heap.live : ~heap.ref[b]}) = 1

\* Every copy of a string belongs to one item, and goes with it or with the name it
\* replaces (cJSON.c:262-269, 2007-2042, 2347-2363).
StringsOwned == StringsCounted(heap)

\* A text that is read, an item that is copied and an array made of strings have the
\* shape of what they were made from; there is none only when the text is no JSON or is
\* nested too deep, or memory ran out (cJSON.c:1091-1168, 1437-1708, 2536-2778).
MadeAsAsked == made

\* A member of an object has a name, unless a replacement's could not be copied
\* (cJSON.c:2007-2042, 2362).
MembersNamed ==
  unnamed \/ \A b \in heap.live : heap.kind[b] = "object" /\ ~heap.ref[b] =>
               \A n \in ToSet(Children(heap, b)) : heap.key[n] # NoKey

\* What every call relies on: the lists, the names and the shapes (cJSON.c:1091-2778).
Consistent == TypeOK /\ WellLinked /\ MadeAsAsked /\ MembersNamed

\* Nothing is freed twice, used after, or forgotten (cJSON.c:253-274).
Owned == FreedOnce /\ OwnedOnce /\ StringsOwned

\* Every call changes the tree it is given in one place, as its name says, and no other
\* tree (cJSON.c:253-274, 1952-2373).
Abstract ==
  INSTANCE ItemTree
    WITH Size <- MaxItems, live <- heap.live, name <- heap.key,
         items <- [n \in Item |-> IF n \in heap.live /\ ~heap.ref[n]
                                  THEN Children(heap, n) ELSE <<>>]
Implements == Abstract!Spec

=============================================================================
