----------------------------- MODULE CJsonPrint ------------------------------
(***************************************************************************)
(* cJSON.c: a value is printed piece by piece into a buffer.  Each piece   *)
(* asks ensure for room, writes, and moves offset by what it wrote or      *)
(* leaves that to update_offset, which looks for the NUL.  Characters are  *)
(* only counted.                                                           *)
(***************************************************************************)
EXTENDS Integers, Sequences

CONSTANTS
  Docs,      \* bound: the values printed, with the values in them
  Height,    \* how deep a value is nested: it is a finite tree
  Sizes,     \* bound: the sizes a caller gives its buffer
  Default,   \* default_buffer_size
  IntMax     \* INT_MAX

Boxes == {"array", "object"}
Kinds == {"literal", "number", "string", "invalid"} \cup Boxes

\* size counts the characters of a value that is no box, name those of its name.
ASSUME CJsonPrintAssumption ==
  /\ IntMax \in Nat \ {0} /\ Default \in 1 .. IntMax /\ Sizes \subseteq 0 .. IntMax
  /\ Docs \subseteq [kind : Kinds, size : Nat, name : Nat, items : Seq(Docs)]
  /\ Height \in [Docs -> Nat]
  /\ \A doc \in Docs : \A i \in DOMAIN doc.items : Height[doc.items[i]] < Height[doc]

VARIABLES
  pc,        \* "idle", "printing", "trimming", "printed", "failed"
  call,      \* the call: function, value, format, size of the buffer, hooks
  rest,      \* what is left to print: pieces, values, loops over members
  length, offset, noalloc,
  filled,    \* the characters that stand at the start of the buffer
  nul,       \* a NUL stands behind them
  buffers,   \* buffers of the heap that are in use
  bad        \* something outside the buffer, or never written, was touched

buffer == <<length, offset, noalloc, filled, nul>>
vars == <<pc, call, rest, buffer, buffers, bad>>

-----------------------------------------------------------------------------
(* What is left to print, in its order.                                      *)

Put(need, put, end, advance) ==
  <<[do |-> "put", need |-> need, put |-> put, end |-> end, advance |-> advance]>>

UpdateOffset == <<[do |-> "scan"]>>

Value(doc, depth) == <<[do |-> "value", doc |-> doc, depth |-> depth]>>

\* The loop of a box, from its i-th member on.
Members(doc, i, depth) == <<[do |-> "members", doc |-> doc, i |-> i, depth |-> depth]>>

Number(size) == Put(size + 1, size, TRUE, size)

\* A string with its quotes; size counts what escaping adds.
Quoted(size) == Put(size + 3, size + 2, TRUE, 0)

Wide(fmt) == IF fmt THEN 2 ELSE 1

Array(doc, depth) ==
  Put(1, 1, FALSE, 1) \o Members(doc, 1, depth + 1) \o Put(2, 1, TRUE, 0)

Object(doc, fmt, depth) ==
  Put(Wide(fmt) + 1, Wide(fmt), FALSE, Wide(fmt)) \o Members(doc, 1, depth + 1)
    \o Put(IF fmt THEN depth + 2 ELSE 2, IF fmt THEN depth + 1 ELSE 1, TRUE, 0)

\* null, a boolean or raw text; a number; a string; a box.
Pieces(doc, fmt, depth) ==
  CASE doc.kind = "literal" -> Put(doc.size + 1, doc.size, TRUE, 0)
    [] doc.kind = "number" -> Number(doc.size)
    [] doc.kind = "string" -> Quoted(doc.size)
    [] doc.kind = "array" -> Array(doc, depth)
    [] doc.kind = "object" -> Object(doc, fmt, depth)

Element(doc, i, fmt, depth) ==
  Value(doc.items[i], depth) \o UpdateOffset
    \o IF i < Len(doc.items) THEN Put(Wide(fmt) + 1, Wide(fmt), TRUE, Wide(fmt)) ELSE <<>>

\* Tabs, the name, a colon, the value, a comma and the end of the line.
Member(doc, i, fmt, depth) ==
  LET w == Wide(fmt)
      end == (IF fmt THEN 1 ELSE 0) + (IF i < Len(doc.items) THEN 1 ELSE 0)
  IN (IF fmt THEN Put(depth, depth, FALSE, depth) ELSE <<>>)
       \o Quoted(doc.items[i].name) \o UpdateOffset
       \o Put(w, w, FALSE, w)
       \o Value(doc.items[i], depth) \o UpdateOffset
       \o Put(end + 1, end, TRUE, end)

-----------------------------------------------------------------------------
NoCall == [fun |-> "none", doc |-> <<>>, fmt |-> FALSE, size |-> 0, realloc |-> TRUE]

TypeOK ==
  /\ pc \in {"idle", "printing", "trimming", "printed", "failed"}
  /\ length \in 0 .. IntMax /\ offset \in 0 .. IntMax /\ filled \in 0 .. IntMax
  /\ {noalloc, nul, bad} \subseteq BOOLEAN
  /\ buffers \in 0 .. 2

Init ==
  /\ pc = "idle" /\ call = NoCall /\ rest = <<>>
  /\ length = 0 /\ offset = 0 /\ noalloc = FALSE /\ filled = 0 /\ nul = FALSE
  /\ buffers = 0 /\ bad = FALSE

\* Print and PrintUnformatted; PrintBuffered; PrintPreallocated.
Asked(fun) ==
  \E doc \in Docs, fmt \in BOOLEAN, size \in Sizes, realloc \in BOOLEAN :
    /\ fun = "print" => size = Default
    /\ call' = [fun |-> fun, doc |-> doc, fmt |-> fmt, size |-> size, realloc |-> realloc]

\* The first two allocate the buffer, the last is given one.
Begin ==
  /\ pc = "idle" /\ pc' = "printing"
  /\ \E fun \in {"print", "buffered", "preallocated"} :
       /\ Asked(fun)
       /\ noalloc' = (fun = "preallocated")
       /\ buffers' = IF fun = "preallocated" THEN 0 ELSE 1
  /\ rest' = Value(call'.doc, 0) /\ length' = call'.size
  /\ UNCHANGED <<offset, filled, nul, bad>>

BeginFails ==
  /\ pc = "idle" /\ pc' = "failed"
  /\ \E fun \in {"print", "buffered"} : Asked(fun)
  /\ UNCHANGED <<rest, buffer, buffers, bad>>

Ahead(do) == pc = "printing" /\ rest # <<>> /\ Head(rest).do = do

print_value ==
  /\ Ahead("value") /\ Head(rest).doc.kind # "invalid"
  /\ rest' = Pieces(Head(rest).doc, call.fmt, Head(rest).depth) \o Tail(rest)
  /\ UNCHANGED <<pc, call, buffer, buffers, bad>>

\* An item of no type, raw text that is NULL, or a number too long: there is no text.
NoText ==
  /\ Ahead("value") /\ Head(rest).doc.kind = "invalid"
  /\ pc' = "failed"
  /\ buffers' = IF noalloc THEN buffers ELSE buffers - 1
  /\ UNCHANGED <<call, rest, buffer, bad>>

\* The loop in print_array and print_object goes round once more, or ends.
NextMember ==
  /\ Ahead("members") /\ Head(rest).i <= Len(Head(rest).doc.items)
  /\ LET m == Head(rest)
         one == IF m.doc.kind = "array" THEN Element(m.doc, m.i, call.fmt, m.depth)
                                        ELSE Member(m.doc, m.i, call.fmt, m.depth)
     IN rest' = one \o Members(m.doc, m.i + 1, m.depth) \o Tail(rest)
  /\ UNCHANGED <<pc, call, buffer, buffers, bad>>

NoMember ==
  /\ Ahead("members") /\ Head(rest).i > Len(Head(rest).doc.items)
  /\ rest' = Tail(rest)
  /\ UNCHANGED <<pc, call, buffer, buffers, bad>>

Asks == Ahead("put")

\* Mutant: what was printed already is not counted.
NeededHere == Head(rest).need + 1

Needed == Head(rest).need + offset + 1

\* offset is inside the buffer; a buffer of no length is not looked at.
Valid == length = 0 \/ offset < length
Fits == Valid /\ Needed <= length

\* The piece is written over what stands at offset.
Written(p) ==
  /\ filled' = offset + p.put
  /\ nul' = p.end
  /\ offset' = offset + p.advance
  /\ rest' = Tail(rest)

Write ==
  /\ Asks /\ Fits
  /\ Written(Head(rest))
  /\ bad' = (bad \/ offset > filled
                 \/ offset + Head(rest).put + (IF Head(rest).end THEN 1 ELSE 0) > length)
  /\ UNCHANGED <<pc, call, length, noalloc, buffers>>

NewSize == IF Needed > IntMax \div 2 THEN IntMax ELSE Needed * 2

Grows == Asks /\ Valid /\ ~Fits /\ ~noalloc /\ Needed <= IntMax

\* Without realloc the text and one byte more are copied to a new buffer.
Grow ==
  /\ Grows
  /\ length' = NewSize
  /\ bad' = (bad \/ (~call.realloc /\ offset + 1 > length))
  /\ filled' = IF call.realloc \/ filled <= offset THEN filled ELSE offset + 1
  /\ nul' = (nul /\ (call.realloc \/ filled <= offset))
  /\ UNCHANGED <<pc, call, rest, offset, noalloc, buffers>>

GrowFails ==
  /\ Grows
  /\ pc' = "failed" /\ length' = 0
  /\ buffers' = buffers - 1
  /\ UNCHANGED <<call, rest, offset, noalloc, filled, nul, bad>>

\* ensure gives up: the caller frees the buffer if it is its own.
Refuse ==
  /\ Asks /\ ~Fits /\ (~Valid \/ noalloc \/ Needed > IntMax)
  /\ pc' = "failed"
  /\ buffers' = IF noalloc THEN buffers ELSE buffers - 1
  /\ UNCHANGED <<call, rest, buffer, bad>>

\* Mutant: the offset is moved behind the NUL.
ScanPast ==
  /\ Ahead("scan")
  /\ offset' = filled + 1 /\ rest' = Tail(rest)
  /\ bad' = (bad \/ ~nul)
  /\ UNCHANGED <<pc, call, length, noalloc, filled, nul, buffers>>

update_offset ==
  /\ Ahead("scan")
  /\ offset' = filled /\ rest' = Tail(rest)
  /\ bad' = (bad \/ ~nul)
  /\ UNCHANGED <<pc, call, length, noalloc, filled, nul, buffers>>

\* print goes on to cut the buffer down; the others are done.
Finish ==
  /\ pc = "printing" /\ rest = <<>>
  /\ IF call.fun = "print"
       THEN pc' = "trimming" /\ offset' = filled /\ bad' = (bad \/ ~nul)
       ELSE pc' = "printed" /\ UNCHANGED <<offset, bad>>
  /\ UNCHANGED <<call, rest, length, noalloc, filled, nul, buffers>>

\* With realloc the buffer is cut; without, the text is copied and the buffer freed.
Trim ==
  /\ pc = "trimming" /\ pc' = "printed"
  /\ length' = offset + 1
  /\ bad' = (bad \/ offset + 1 > length)
  /\ UNCHANGED <<call, rest, offset, noalloc, filled, nul, buffers>>

TrimFails ==
  /\ pc = "trimming" /\ pc' = "failed"
  /\ buffers' = buffers - 1
  /\ UNCHANGED <<call, rest, buffer, bad>>

Next ==
  \/ Begin \/ BeginFails \/ print_value \/ NoText \/ NextMember \/ NoMember
  \/ Write \/ Grow \/ GrowFails \/ Refuse
  \/ update_offset \/ Finish \/ Trim \/ TrimFails

Spec == Init /\ [][Next]_vars

-----------------------------------------------------------------------------
(* The size of a value's text, counted by what JSON asks for.                *)

\* The sums of the first numbers of a sequence.
Sums(sizes) ==
  LET sum[i \in 0 .. Len(sizes)] == IF i = 0 THEN 0 ELSE sum[i - 1] + sizes[i]
  IN sum

\* A member of a box, whose value has that size, without the comma; depth is its own.
MemberSize(doc, i, fmt, depth, size) ==
  IF doc.kind = "array" THEN size
  ELSE size + doc.items[i].name + 3 + (IF fmt THEN depth + 2 ELSE 0)

Comma(doc, fmt) == IF doc.kind = "array" THEN Wide(fmt) ELSE 1

\* The text of a value, given the sizes of its members.
TextOf(doc, fmt, depth, sizes) ==
  LET n == Len(sizes) IN
  CASE doc.kind \in {"literal", "number"} -> doc.size
    [] doc.kind = "string" -> doc.size + 2
    [] doc.kind = "invalid" -> 0
    [] doc.kind \in Boxes ->
         2 + Sums(sizes)[n] + (IF n = 0 THEN 0 ELSE Comma(doc, fmt) * (n - 1))
           + (IF doc.kind = "object" /\ fmt THEN depth + 1 ELSE 0)

TextSize[doc \in Docs] ==
  [fmt \in BOOLEAN |-> [depth \in Nat |->
    TextOf(doc, fmt, depth,
           [i \in 1 .. Len(doc.items) |->
             MemberSize(doc, i, fmt, depth + 1, TextSize[doc.items[i]][fmt][depth + 1])])]]

Size == TextSize[call.doc][call.fmt][0]

\* No byte outside the buffer is written, copied or cut to, and no NUL is looked for
\* among bytes that were never written; but a growing buffer of no length is copied
\* from when the hooks have no realloc (cJSON.c:439-535, 1208-1231).
InBounds == bad => call.fun = "buffered" /\ call.size = 0 /\ ~call.realloc

\* What is printed is the whole value with a NUL behind it, however often the buffer
\* moved (cJSON.c:1363-1434, 1535-1594, 1710-1821).
PrintedWhole ==
  pc = "printed" => filled = Size /\ nul /\ length > filled

\* A call that failed leaves no buffer of its own behind, and one that did not leaves
\* the one it returns (cJSON.c:492-513, 1233-1244, 1258-1286).
BuffersReturned ==
  pc \in {"printed", "failed"} =>
    buffers = IF pc = "printed" /\ call.fun # "preallocated" THEN 1 ELSE 0

\* A buffer with one byte more than the text and its NUL is enough, though ensure asks
\* for more than it needs on the way, unless a value has no text
\* (cJSON.c:439-470, 1288-1305, 1363-1434).
RoomSuffices ==
  pc = "failed" /\ call.fun = "preallocated" =>
    \/ call.size < Size + 2
    \/ Head(rest).do = "value" /\ Head(rest).doc.kind = "invalid"

\* No byte and no buffer is touched that is not the call's (cJSON.c:439-535, 1183-1286).
Consistent == TypeOK /\ InBounds /\ BuffersReturned

\* The text is whole, and room enough for it is enough (cJSON.c:439-535, 1183-1305).
Whole == PrintedWhole /\ RoomSuffices

=============================================================================
