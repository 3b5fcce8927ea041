------------------------------ MODULE MCCJson -------------------------------
(* Two names that differ in case only, and the texts that are read.          *)
EXTENDS CJson

MCFold == [k \in Keys |-> CHOOSE l \in Keys : TRUE]

Named(kind, key) == [Leaf(kind) EXCEPT !.key = key]
ListOf(kind, items) == [Leaf(kind) EXCEPT !.items = items]

MCDocs ==
  LET k == CHOOSE k \in Keys : TRUE IN
  {ListOf("array", <<Leaf("text"), Leaf("plain"), Leaf("array")>>),
   ListOf("array", <<Leaf("array"), Leaf("object")>>),
   ListOf("object", <<Named("array", k), Named("text", k)>>),
   ListOf("array", <<Leaf("text"), Leaf("bad")>>),
   ListOf("object", <<[ListOf("array", <<Leaf("object")>>) EXCEPT !.key = k]>>)}
=============================================================================
