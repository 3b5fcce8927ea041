---------------------------- MODULE MCCJsonPrint -----------------------------
(* Values of every kind, two deep, and buffers from nothing to enough.       *)
EXTENDS CJsonPrint

A_Value(kind, size, name, items) ==
  [kind |-> kind, size |-> size, name |-> name, items |-> items]

MCDocs ==
  LET text == A_Value("string", 3, 1, <<>>)
      one == A_Value("number", 2, 2, <<>>)
      null == A_Value("literal", 4, 0, <<>>)
      none == A_Value("invalid", 0, 0, <<>>)
      empty == A_Value("array", 0, 1, <<>>)
      inner == A_Value("object", 0, 2, <<one>>)
      list == A_Value("array", 0, 1, <<null, text, one>>)
  IN {null, one, text, none, empty, A_Value("object", 0, 0, <<>>), inner, list,
      A_Value("object", 0, 0, <<text, inner, empty>>),
      A_Value("array", 0, 0, <<list, inner>>),
      A_Value("array", 0, 0, <<one, none>>)}

MCHeight ==
  [doc \in MCDocs |->
    IF doc.items = <<>> THEN 0
    ELSE IF \A i \in DOMAIN doc.items : doc.items[i].items = <<>> THEN 1 ELSE 2]

MCSizes == 0 .. 40
=============================================================================
