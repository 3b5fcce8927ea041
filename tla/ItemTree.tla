------------------------------ MODULE ItemTree -------------------------------
(***************************************************************************)
(* What cJSON.c promises about its trees: every live item has an ordered   *)
(* list of members.  A call makes items, inserts one, takes one out, puts  *)
(* one in the place of another, or frees a whole tree, and changes no      *)
(* other list.                                                             *)
(***************************************************************************)
EXTENDS Naturals, Sequences, SequencesExt

CONSTANTS Item, Size     \* Size: there are no more than Size items

VARIABLES live, items, name

tree == <<live, items, name>>

\* The items at and below those of S, in the trees of the list function l.
Below(l, S) ==
  LET f[k \in 0 .. Size] ==
        IF k = 0 THEN S
        ELSE LET near == f[k - 1] IN near \cup UNION {ToSet(l[n]) : n \in near}
  IN f[Size]

\* Nothing but the lists of Changed and the names of Renamed differs for what stays.
OthersKeep(Changed, Renamed) ==
  \A n \in live \cap live' : /\ n \notin Changed => items'[n] = items[n]
                             /\ n \notin Renamed => name'[n] = name[n]

Init == live = {} /\ \A n \in Item : items[n] = <<>>

\* New trees beside the old ones.
Make == live \subseteq live' /\ OthersKeep({}, {})

\* i, which may be new, becomes a member of b.
Add(b, i) ==
  /\ live' = live \cup {i}
  /\ \E k \in 1 .. Len(items[b]) + 1 : items'[b] = InsertAt(items[b], k, i)
  /\ OthersKeep({b}, {i})

\* The k-th member of b becomes a tree of its own, or is freed with its tree.
Take(b, k) ==
  /\ items'[b] = RemoveAt(items[b], k)
  /\ live' \in {live, live \ Below(items, {items[b][k]})}
  /\ OthersKeep({b}, {})

\* i takes the place of the k-th member of b, which is freed with its tree.
Swap(b, k, i) ==
  /\ items'[b] = ReplaceAt(items[b], k, i)
  /\ live' = live \ Below(items, {items[b][k]})
  /\ OthersKeep({b}, {i})

Free(r) ==
  /\ \A b \in live : r \notin ToSet(items[b])
  /\ live' = live \ Below(items, {r})
  /\ OthersKeep({}, {})

Rename(i) == live' = live /\ OthersKeep({}, {i})

Next ==
  \/ Make
  \/ \E r \in live : Free(r) \/ Rename(r)
  \/ \E b \in live :
       \/ \E i \in Item : Add(b, i)
       \/ \E k \in 1 .. Len(items[b]) : Take(b, k) \/ \E i \in live : Swap(b, k, i)

Spec == Init /\ [][Next]_tree
=============================================================================
