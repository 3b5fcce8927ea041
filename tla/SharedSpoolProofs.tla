------------------------- MODULE SharedSpoolProofs --------------------------
(***************************************************************************)
(* Proofs about the spool that several clients share, for every set of     *)
(* processes and files and every bound: rows are sent in the order of      *)
(* their file, and every row that was deleted unsent was paid for by a     *)
(* wasted send.                                                            *)
(***************************************************************************)
EXTENDS SharedSpool, FiniteSetTheorems, SequenceTheorems, TLAPS

-----------------------------------------------------------------------------
(* The inductive invariant.                                                 *)

\* A process about to create the table has opened a file.
Opened == \A p \in Procs : pc[p] = "create" => handle[p] \in Files

\* Rows are numbered by their insertions.
Numbered ==
  /\ \A f \in Files : \A i \in DOMAIN rows[f] : rows[f][i] \in 1 .. inserted
  /\ sent \subseteq 1 .. inserted /\ removed \subseteq 1 .. inserted

\* A row is in one file only, once.
Once ==
  \A f, g \in Files : \A i \in DOMAIN rows[f], j \in DOMAIN rows[g] :
    rows[f][i] = rows[g][j] => f = g /\ i = j

\* A deleted row is in no file.
Gone == \A f \in Files : \A i \in DOMAIN rows[f] : rows[f][i] \notin removed

\* A row that was taken was deleted meanwhile, or is the oldest of its file.
Taken ==
  \A p \in Procs : pc[p] = "send" =>
    \/ dataBuf[p] = 0
    \/ dataBuf[p] \in removed
    \/ Rows(p) # <<>> /\ dataBuf[p] = Head(Rows(p))

Deleting == {p \in Procs : pc[p] = "delete"}

\* The processes in S are about to delete after a wasted send: the others have
\* each a file of their own, whose oldest row was sent.
Wasted(S) ==
  /\ IsFiniteSet(S) /\ S \subseteq Deleting
  /\ Cardinality(removed \ sent) + Cardinality(S) <= surplus
  /\ \A p \in Deleting \ S : Rows(p) # <<>> /\ Head(Rows(p)) \in sent
  /\ \A p, q \in Deleting \ S : handle[p] = handle[q] => p = q

Paid == \E S \in SUBSET Procs : Wasted(S)

TypeInv == TypeOK /\ Opened
Placement == Numbered /\ Once /\ Gone /\ Taken /\ SentIsOldest
IInv == TypeInv /\ Placement /\ Paid

-----------------------------------------------------------------------------
(* The rows of a file.                                                      *)

\* What Head and Tail are of a sequence that is not empty.
LEMMA HeadAndTail ==
  ASSUME NEW S, NEW s \in Seq(S), s # <<>>
  PROVE  /\ 1 \in DOMAIN s /\ Head(s) = s[1] /\ Head(s) \in S
         /\ Tail(s) \in Seq(S)
         /\ \A i \in DOMAIN Tail(s) :
              i \in Nat \ {0} /\ i + 1 \in DOMAIN s /\ Tail(s)[i] = s[i + 1]
<1>1. /\ Head(s) \in S /\ Tail(s) \in Seq(S)
      /\ Len(Tail(s)) = Len(s) - 1
      /\ \A i \in 1 .. Len(Tail(s)) : Tail(s)[i] = s[i + 1]
  BY HeadTailProperties
<1>2. Len(s) \in Nat \ {0} /\ DOMAIN s = 1 .. Len(s)
  BY LenProperties, EmptySeq
<1>3. DOMAIN Tail(s) = 1 .. Len(s) - 1
  BY <1>1, LenProperties
<1>4. Head(s) = s[1]
  BY <1>2
<1> QED
  BY <1>1, <1>2, <1>3, <1>4

\* What Append adds to a sequence.
LEMMA Appended ==
  ASSUME NEW S, NEW s \in Seq(S), NEW e \in S
  PROVE  /\ Append(s, e) \in Seq(S) /\ Append(s, e) # <<>>
         /\ \A i \in DOMAIN Append(s, e) :
              \/ i \in DOMAIN s /\ Append(s, e)[i] = s[i]
              \/ i = Len(s) + 1 /\ Append(s, e)[i] = e
         /\ s # <<>> => Head(Append(s, e)) = Head(s)
<1> DEFINE t == Append(s, e)
<1>1. /\ t \in Seq(S) /\ Len(t) = Len(s) + 1
      /\ \A i \in 1 .. Len(s) : t[i] = s[i]
      /\ t[Len(s) + 1] = e
  BY AppendProperties
<1>2. Len(s) \in Nat /\ DOMAIN s = 1 .. Len(s)
  BY LenProperties
<1>3. DOMAIN t = 1 .. Len(s) + 1
  BY <1>1, LenProperties
<1> HIDE DEF t
<1>4. t # <<>>
  BY <1>1, <1>2, EmptySeq
<1>5. s # <<>> => Head(t) = Head(s)
  BY <1>1, <1>2, <1>4, HeadAndTail
<1>6. \A i \in DOMAIN t : (i \in DOMAIN s /\ t[i] = s[i]) \/ (i = Len(s) + 1 /\ t[i] = e)
  BY <1>1, <1>2, <1>3
<1> QED
  BY <1>1, <1>4, <1>5, <1>6 DEF t

-----------------------------------------------------------------------------
(* Types.                                                                   *)

\* The initial state is well typed.
LEMMA TypeInvInit == Init => TypeInv
BY SharedAssumption DEF Init, TypeInv, TypeOK, Opened, Calls, Usable

\* The file of a process that works on the table is one of Files.
LEMMA UsableFile ==
  ASSUME TypeInv, NEW p \in Procs, Usable(p)
  PROVE  handle[p] \in Files /\ Rows(p) \in Seq(1 .. MaxRows)
BY DEF TypeInv, TypeOK, Usable, Rows

\* Every step keeps the types.
LEMMA TypeInvStep == TypeInv /\ [Next]_vars => TypeInv'
<1> SUFFICES ASSUME TypeInv, [Next]_vars
             PROVE  TypeInv'
  OBVIOUS
<1> USE SharedAssumption DEF TypeInv, TypeOK, Opened, Goto, Calls, bounds, history, Usable
<1>1. ASSUME NEW p \in Procs, Access(p) PROVE TypeInv'
  BY <1>1 DEF Access
<1>2. ASSUME NEW p \in Procs, Open(p) PROVE TypeInv'
  <2>1. named' \in Files
    BY <1>2 DEF Open
  <2>2. CASE pc[p] = "open"
    BY <1>2, <2>1, <2>2 DEF Open
  <2>3. CASE pc[p] = "openNew"
    BY <1>2, <2>1, <2>3 DEF Open
  <2> QED
    BY <1>2, <2>2, <2>3 DEF Open
<1>3. ASSUME NEW p \in Procs, Create(p) PROVE TypeInv'
  BY <1>3 DEF Create
<1>4. ASSUME NEW p \in Procs, CreateFails(p) PROVE TypeInv'
  BY <1>4 DEF CreateFails, Fails
<1>5. ASSUME NEW p \in Procs, Insert(p) PROVE TypeInv'
  <2>1. handle[p] \in Files /\ inserted + 1 \in 1 .. MaxRows
    BY <1>5 DEF Insert
  <2>2. Append(rows[handle[p]], inserted + 1) \in Seq(1 .. MaxRows)
    BY <2>1, AppendProperties
  <2> QED
    BY <1>5, <2>1, <2>2 DEF Insert
<1>6. ASSUME NEW p \in Procs, Select(p) PROVE TypeInv'
  BY <1>6 DEF Select
<1>7. ASSUME NEW p \in Procs, Take(p) PROVE TypeInv'
  <2>1. Rows(p) \in Seq(1 .. MaxRows)
    BY <1>7, UsableFile DEF Take, TakeRow
  <2>2. Rows(p) # <<>> => Head(Rows(p)) \in 1 .. MaxRows
    BY <2>1, HeadTailProperties
  <2> DEFINE row == IF Rows(p) = <<>> THEN 0 ELSE Head(Rows(p))
  <2>3. row \in 0 .. MaxRows
    BY <2>2
  <2>4. TakeRow(p, row)
    BY <1>7 DEF Take
  <2> HIDE DEF row
  <2> QED
    BY <2>3, <2>4 DEF TakeRow
<1>8. ASSUME NEW p \in Procs, TakeFails(p) PROVE TypeInv'
  BY <1>8 DEF TakeFails, Fails
<1>9. ASSUME NEW p \in Procs, Send(p) PROVE TypeInv'
  <2>1. CASE dataBuf[p] = 0 \/ dataBuf[p] \in sent
    <3>1. surplus' = surplus + 1 /\ sent' = sent
      BY <1>9, <2>1 DEF Send
    <3> QED
      BY <1>9, <3>1 DEF Send
  <2>2. CASE ~(dataBuf[p] = 0 \/ dataBuf[p] \in sent)
    <3>1. dataBuf[p] \in 1 .. MaxRows /\ sent' = sent \cup {dataBuf[p]}
      BY <1>9, <2>2 DEF Send
    <3> QED
      BY <1>9, <2>2, <3>1 DEF Send
  <2> QED
    BY <2>1, <2>2
<1>10. ASSUME NEW p \in Procs, SendFails(p) PROVE TypeInv'
  BY <1>10 DEF SendFails, SendFailsThen
<1>11. ASSUME NEW p \in Procs, Delete(p) PROVE TypeInv'
  <2>1. handle[p] \in Files /\ Rows(p) \in Seq(1 .. MaxRows)
    BY <1>11, UsableFile DEF Delete
  <2>2. CASE Rows(p) = <<>>
    BY <1>11, <2>2 DEF Delete
  <2>3. CASE Rows(p) # <<>>
    <3>1. Head(Rows(p)) \in 1 .. MaxRows /\ Tail(Rows(p)) \in Seq(1 .. MaxRows)
      BY <2>1, <2>3, HeadAndTail
    <3>2. rows' \in [Files -> Seq(1 .. MaxRows)] /\ removed' \subseteq 1 .. MaxRows
      BY <1>11, <2>3, <3>1 DEF Delete, Rows
    <3> QED
      BY <1>11, <3>2 DEF Delete
  <2> QED
    BY <2>2, <2>3
<1>12. ASSUME NEW p \in Procs, DeleteFails(p) PROVE TypeInv'
  BY <1>12 DEF DeleteFails, Fails
<1>13. ASSUME NEW p \in Procs, Die(p) PROVE TypeInv'
  BY <1>13 DEF Die
<1>14. ASSUME NEW p \in Procs, Begin(p) PROVE TypeInv'
  BY <1>14 DEF Begin
<1>15. CASE UNCHANGED vars
  BY <1>15 DEF vars
<1> QED
  BY <1>1, <1>2, <1>3, <1>4, <1>5, <1>6, <1>7, <1>8, <1>9, <1>10, <1>11, <1>12,
     <1>13, <1>14, <1>15 DEF Next

-----------------------------------------------------------------------------
(* Where the rows are.                                                      *)

\* At the start there are no rows.
LEMMA PlacementInit == Init => Placement
BY DEF Init, Placement, Numbered, Once, Gone, Taken, SentIsOldest

\* A step that neither changes the rows nor sends one, after which every
\* process that is about to send was so before or has taken the oldest row.
LEMMA PlacementQuiet ==
  ASSUME Placement,
         UNCHANGED <<rows, inserted, sent, removed>>,
         \A p \in Procs : pc'[p] = "send" =>
           \/ pc[p] = "send" /\ handle'[p] = handle[p] /\ dataBuf'[p] = dataBuf[p]
           \/ dataBuf'[p] = 0
           \/ Rows(p)' # <<>> /\ dataBuf'[p] = Head(Rows(p)')
  PROVE  Placement'
<1>1. Taken'
  BY DEF Placement, Taken, Rows
<1> QED
  BY <1>1 DEF Placement, Numbered, Once, Gone, SentIsOldest

\* INSERT numbers the new row above all others and leaves the oldest alone.
LEMMA PlacementInsert ==
  ASSUME TypeInv, Placement, NEW p \in Procs, Insert(p)
  PROVE  Placement'
<1> DEFINE f == handle[p]  n == inserted + 1
<1>1. /\ f \in Files /\ rows[f] \in Seq(1 .. MaxRows)
      /\ n \in 1 .. MaxRows /\ inserted \in Nat
  BY UsableFile, SharedAssumption DEF Insert, TypeInv, TypeOK, Rows
<1>2. /\ rows' = [rows EXCEPT ![f] = Append(rows[f], n)]
      /\ inserted' = n
      /\ UNCHANGED <<pc, handle, dataBuf, sent, removed>>
  BY DEF Insert, history
<1> HIDE DEF f, n
<1>3. n = inserted + 1
  BY DEF n
<1>4. rows \in [Files -> Seq(1 .. MaxRows)]
  BY DEF TypeInv, TypeOK
<1>5. \A g \in Files : \A i \in DOMAIN rows'[g] :
        \/ i \in DOMAIN rows[g] /\ rows'[g][i] = rows[g][i]
        \/ g = f /\ i = Len(rows[f]) + 1 /\ rows'[g][i] = n
  BY <1>1, <1>2, <1>4, Appended
<1>6. \A g \in Files : rows[g] # <<>> => rows'[g] # <<>> /\ Head(rows'[g]) = Head(rows[g])
  BY <1>1, <1>2, <1>4, Appended
<1>7. /\ \A g \in Files : \A i \in DOMAIN rows[g] : rows[g][i] \in 1 .. inserted
      /\ n \notin sent /\ n \notin removed
      /\ \A g \in Files : \A i \in DOMAIN rows[g] : rows[g][i] # n
  BY <1>1, <1>3 DEF Placement, Numbered
<1>8. Numbered'
  BY <1>1, <1>2, <1>3, <1>5, <1>7 DEF Placement, Numbered
<1>9. Once'
  BY <1>2, <1>5, <1>7 DEF Placement, Once
<1>10. Gone' /\ SentIsOldest'
  BY <1>2, <1>5, <1>7 DEF Placement, Gone, SentIsOldest
<1>11. Taken'
  <2> SUFFICES ASSUME NEW q \in Procs, pc[q] = "send", dataBuf[q] # 0, dataBuf[q] \notin removed
               PROVE  rows'[handle[q]] # <<>> /\ dataBuf[q] = Head(rows'[handle[q]])
    BY <1>2 DEF Taken, Rows
  <2>1. rows[handle[q]] # <<>> /\ dataBuf[q] = Head(rows[handle[q]])
    BY DEF Placement, Taken, Rows
  <2>2. handle[q] \in Files
    BY UsableFile DEF TypeInv, TypeOK
  <2> QED
    BY <1>6, <2>1, <2>2
<1> QED
  BY <1>8, <1>9, <1>10, <1>11 DEF Placement

\* A send marks a row that was deleted meanwhile, or the oldest of its file.
LEMMA PlacementSend ==
  ASSUME TypeInv, Placement, NEW p \in Procs, Send(p)
  PROVE  Placement'
<1>1. /\ UNCHANGED <<rows, inserted, removed, handle, dataBuf>>
      /\ \A q \in Procs : pc'[q] = "send" => pc[q] = "send"
  BY DEF Send, bounds, Goto, TypeInv, TypeOK
<1>2. Taken' /\ Once' /\ Gone'
  BY <1>1 DEF Placement, Taken, Once, Gone, Rows
<1>3. CASE dataBuf[p] = 0 \/ dataBuf[p] \in sent
  <2>1. UNCHANGED sent
    BY <1>3 DEF Send
  <2> QED
    BY <1>1, <1>2, <2>1 DEF Placement, Numbered, SentIsOldest
<1>4. CASE ~(dataBuf[p] = 0 \/ dataBuf[p] \in sent)
  <2>1. sent' = sent \cup {dataBuf[p]}
    BY <1>4 DEF Send
  <2>2. /\ handle[p] \in Files /\ Rows(p) \in Seq(1 .. MaxRows)
        /\ rows[handle[p]] = Rows(p)
    BY UsableFile DEF Send, TypeInv, TypeOK, Rows
  <2>3. \/ dataBuf[p] \in removed
        \/ Rows(p) # <<>> /\ dataBuf[p] = Head(Rows(p))
    BY <1>4 DEF Placement, Taken, Send
  <2>4. \/ dataBuf[p] \in removed
        \/ 1 \in DOMAIN rows[handle[p]] /\ dataBuf[p] = rows[handle[p]][1]
    BY <2>2, <2>3, HeadAndTail
  <2>5. dataBuf[p] \in 1 .. inserted
    BY <2>2, <2>4 DEF Placement, Numbered
  <2>6. \A f \in Files : \A i \in DOMAIN rows[f] : rows[f][i] = dataBuf[p] => i = 1
    BY <2>2, <2>4 DEF Placement, Gone, Once
  <2> QED
    BY <1>1, <1>2, <2>1, <2>5, <2>6 DEF Placement, Numbered, SentIsOldest
<1> QED
  BY <1>3, <1>4

\* DELETE on a file with rows moves its oldest to the deleted ones.
LEMMA DeleteMoves ==
  ASSUME TypeInv, NEW p \in Procs, Delete(p), Rows(p) # <<>>
  PROVE  /\ handle[p] \in Files /\ 1 \in DOMAIN rows[handle[p]]
         /\ Head(Rows(p)) = rows[handle[p]][1]
         /\ removed' = removed \cup {rows[handle[p]][1]}
         /\ \A f \in Files \ {handle[p]} : rows'[f] = rows[f]
         /\ \A i \in DOMAIN rows'[handle[p]] :
              /\ i \in Nat \ {0} /\ i + 1 \in DOMAIN rows[handle[p]]
              /\ rows'[handle[p]][i] = rows[handle[p]][i + 1]
<1>1. handle[p] \in Files /\ Rows(p) \in Seq(1 .. MaxRows)
  BY UsableFile DEF Delete, TypeInv, TypeOK
<1>2. /\ rows' = [rows EXCEPT ![handle[p]] = Tail(Rows(p))]
      /\ removed' = removed \cup {Head(Rows(p))}
      /\ Rows(p) = rows[handle[p]]
  BY DEF Delete, Rows
<1>3. rows \in [Files -> Seq(1 .. MaxRows)]
  BY DEF TypeInv, TypeOK
<1>4. /\ rows'[handle[p]] = Tail(Rows(p))
      /\ \A f \in Files \ {handle[p]} : rows'[f] = rows[f]
  BY <1>1, <1>2, <1>3
<1> HIDE DEF Rows
<1>5. /\ 1 \in DOMAIN Rows(p) /\ Head(Rows(p)) = Rows(p)[1]
      /\ \A i \in DOMAIN Tail(Rows(p)) :
           i \in Nat \ {0} /\ i + 1 \in DOMAIN Rows(p) /\ Tail(Rows(p))[i] = Rows(p)[i + 1]
  BY <1>1, HeadAndTail
<1> QED
  BY <1>1, <1>2, <1>4, <1>5

\* DELETE leaves the other rows where they were, the oldest first.
LEMMA PlacementDelete ==
  ASSUME TypeInv, Placement, NEW p \in Procs, Delete(p)
  PROVE  Placement'
<1>1. /\ UNCHANGED <<inserted, sent, handle, dataBuf>>
      /\ \A q \in Procs : pc'[q] = "send" => pc[q] = "send"
  BY DEF Delete, bounds, Goto, TypeInv, TypeOK
<1>2. CASE Rows(p) = <<>>
  <2>1. UNCHANGED <<rows, removed>>
    BY <1>2 DEF Delete
  <2> QED
    BY <1>1, <2>1, PlacementQuiet
<1>3. CASE Rows(p) # <<>>
  <2> DEFINE f == handle[p]
  <2>1. /\ f \in Files /\ 1 \in DOMAIN rows[f]
        /\ removed' = removed \cup {rows[f][1]}
        /\ \A g \in Files \ {f} : rows'[g] = rows[g]
        /\ \A i \in DOMAIN rows'[f] :
             /\ i \in Nat \ {0} /\ i + 1 \in DOMAIN rows[f]
             /\ rows'[f][i] = rows[f][i + 1]
    BY <1>3, DeleteMoves
  <2> HIDE DEF f
  <2>2. Numbered'
    BY <1>1, <2>1 DEF Placement, Numbered
  <2>3. Once'
    <3> SUFFICES ASSUME NEW g \in Files, NEW h \in Files,
                        NEW i \in DOMAIN rows'[g], NEW j \in DOMAIN rows'[h],
                        rows'[g][i] = rows'[h][j]
                 PROVE  g = h /\ i = j
      BY DEF Once
    <3>1. Once
      BY DEF Placement
    <3>2. CASE g = f /\ h = f
      BY <2>1, <3>1, <3>2 DEF Once
    <3>3. CASE g = f /\ h # f
      BY <2>1, <3>1, <3>3 DEF Once
    <3>4. CASE g # f /\ h = f
      BY <2>1, <3>1, <3>4 DEF Once
    <3>5. CASE g # f /\ h # f
      BY <2>1, <3>1, <3>5 DEF Once
    <3> QED
      BY <3>2, <3>3, <3>4, <3>5
  <2>4. Gone'
    <3> SUFFICES ASSUME NEW g \in Files, NEW i \in DOMAIN rows'[g]
                 PROVE  rows'[g][i] \notin removed /\ rows'[g][i] # rows[f][1]
      BY <2>1 DEF Gone
    <3>1. Gone /\ Once
      BY DEF Placement
    <3>2. CASE g = f
      BY <2>1, <3>1, <3>2 DEF Gone, Once
    <3>3. CASE g # f
      BY <2>1, <3>1, <3>3 DEF Gone, Once
    <3> QED
      BY <3>2, <3>3
  <2>5. SentIsOldest'
    <3> SUFFICES ASSUME NEW g \in Files, NEW i \in DOMAIN rows'[g], rows'[g][i] \in sent
                 PROVE  i = 1
      BY <1>1 DEF SentIsOldest
    <3>1. SentIsOldest
      BY DEF Placement
    <3>2. CASE g = f
      BY <2>1, <3>1, <3>2 DEF SentIsOldest
    <3>3. CASE g # f
      BY <2>1, <3>1, <3>3 DEF SentIsOldest
    <3> QED
      BY <3>2, <3>3
  <2>6. Taken'
    <3> SUFFICES ASSUME NEW q \in Procs, pc[q] = "send", dataBuf[q] # 0, dataBuf[q] \notin removed'
                 PROVE  rows'[handle[q]] # <<>> /\ dataBuf[q] = Head(rows'[handle[q]])
      BY <1>1 DEF Taken, Rows
    <3>1. rows[handle[q]] # <<>> /\ dataBuf[q] = Head(rows[handle[q]])
      BY <2>1 DEF Placement, Taken, Rows
    <3>2. handle[q] \in Files /\ rows[handle[q]] \in Seq(1 .. MaxRows)
      BY UsableFile DEF TypeInv, TypeOK, Rows
    <3>3. dataBuf[q] = rows[handle[q]][1]
      BY <3>1, <3>2, HeadAndTail
    <3>4. handle[q] # f
      BY <2>1, <3>3
    <3> QED
      BY <2>1, <3>1, <3>2, <3>4
  <2> QED
    BY <2>2, <2>3, <2>4, <2>5, <2>6 DEF Placement
<1> QED
  BY <1>2, <1>3

\* Every step keeps where the rows are.
LEMMA PlacementStep == TypeInv /\ Placement /\ [Next]_vars => Placement'
<1> SUFFICES ASSUME TypeInv, Placement, [Next]_vars
             PROVE  Placement'
  OBVIOUS
<1> DEFINE Quiet == /\ UNCHANGED <<rows, inserted, sent, removed>>
                    /\ \A q \in Procs : pc'[q] = "send" =>
                         \/ pc[q] = "send" /\ handle'[q] = handle[q] /\ dataBuf'[q] = dataBuf[q]
                         \/ dataBuf'[q] = 0
                         \/ Rows(q)' # <<>> /\ dataBuf'[q] = Head(Rows(q)')
<1>1. Quiet => Placement'
  BY PlacementQuiet
<1>2. /\ pc \in [Procs -> Calls] /\ handle \in [Procs -> Files \cup {NoFile}]
      /\ dataBuf \in [Procs -> 0 .. MaxRows]
  BY DEF TypeInv, TypeOK
<1>3. ASSUME NEW p \in Procs, Access(p) \/ Open(p) \/ Create(p) \/ CreateFails(p) PROVE Quiet
  <2>1. CASE Access(p)
    BY <1>2, <2>1 DEF Access, Goto, bounds, history
  <2>2. CASE Open(p)
    BY <1>2, <2>2 DEF Open, Goto, bounds, history
  <2>3. CASE Create(p)
    BY <1>2, <2>3 DEF Create, Goto, bounds, history
  <2>4. CASE CreateFails(p)
    BY <1>2, <2>4 DEF CreateFails, Goto, Fails, history
  <2> QED
    BY <1>3, <2>1, <2>2, <2>3, <2>4
<1>4. ASSUME NEW p \in Procs, Select(p) \/ TakeFails(p) \/ SendFails(p) \/ DeleteFails(p) PROVE Quiet
  <2>1. CASE Select(p)
    BY <1>2, <2>1 DEF Select, Goto, bounds, history
  <2>2. CASE TakeFails(p)
    BY <1>2, <2>2 DEF TakeFails, Goto, history
  <2>3. CASE SendFails(p)
    BY <1>2, <2>3 DEF SendFails, SendFailsThen, Goto, bounds, history
  <2>4. CASE DeleteFails(p)
    BY <1>2, <2>4 DEF DeleteFails, Goto, history
  <2> QED
    BY <1>4, <2>1, <2>2, <2>3, <2>4
<1>5. ASSUME NEW p \in Procs, Take(p) PROVE Quiet
  <2> DEFINE row == IF Rows(p) = <<>> THEN 0 ELSE Head(Rows(p))
  <2>1. TakeRow(p, row)
    BY <1>5 DEF Take
  <2>2. row = 0 \/ (Rows(p) # <<>> /\ row = Head(Rows(p)))
    OBVIOUS
  <2> HIDE DEF row
  <2> QED
    BY <1>2, <2>1, <2>2 DEF TakeRow, Goto, bounds, history, Rows
<1>6. ASSUME NEW p \in Procs, Die(p) \/ Begin(p) PROVE Quiet
  <2>1. CASE Die(p)
    BY <1>2, <2>1 DEF Die, Goto, history
  <2>2. CASE Begin(p)
    BY <1>2, <2>2 DEF Begin, Goto, bounds, history
  <2> QED
    BY <1>6, <2>1, <2>2
<1>7. CASE UNCHANGED vars
  <2>1. UNCHANGED <<pc, handle, dataBuf, rows, inserted, sent, removed>>
    BY <1>7 DEF vars, bounds, history
  <2> QED
    BY <2>1, PlacementQuiet
<1> HIDE DEF Quiet
<1> QED
  BY <1>1, <1>3, <1>4, <1>5, <1>6, <1>7, PlacementInsert, PlacementSend, PlacementDelete DEF Next

-----------------------------------------------------------------------------
(* Who pays for the rows that are deleted unsent.                           *)

\* At the start nothing was deleted and nobody deletes.
LEMMA PaidInit == Init => Paid
<1> SUFFICES ASSUME Init
             PROVE  Wasted({})
  BY DEF Paid
<1>1. Deleting = {} /\ removed \ sent = {} /\ surplus = 0
  BY DEF Init, Deleting
<1> QED
  BY <1>1, FS_EmptySet DEF Wasted

\* The rows deleted unsent can be counted.
LEMMA UnsentFinite ==
  ASSUME TypeInv
  PROVE  /\ IsFiniteSet(removed \ sent) /\ Cardinality(removed \ sent) \in Nat
         /\ surplus \in Nat
<1>1. IsFiniteSet(1 .. MaxRows)
  BY FS_Interval, SharedAssumption
<1>2. removed \ sent \subseteq 1 .. MaxRows
  BY DEF TypeInv, TypeOK
<1>3. IsFiniteSet(removed \ sent)
  BY <1>1, <1>2, FS_Subset
<1> QED
  BY <1>3, FS_CardinalityType DEF TypeInv, TypeOK

\* A step after which no other process deletes, and none of those that go on has
\* another file or another oldest row there, leaves the others paid for.
LEMMA PaidQuiet ==
  ASSUME TypeInv, Paid, UNCHANGED <<sent, removed, surplus>>,
         \A q \in Procs : pc'[q] = "delete" =>
           /\ pc[q] = "delete" /\ handle'[q] = handle[q]
           /\ Rows(q) # <<>> => Rows(q)' # <<>> /\ Head(Rows(q)') = Head(Rows(q))
  PROVE  Paid'
<1>1. PICK S \in SUBSET Procs : Wasted(S)
  BY DEF Paid
<1> PICK T \in SUBSET Procs : T = S \cap Deleting'
  BY DEF Deleting
<1>2. Deleting' \subseteq Deleting
  BY DEF Deleting
<1>3. IsFiniteSet(T) /\ Cardinality(T) <= Cardinality(S) /\ Cardinality(T) \in Nat
      /\ Cardinality(S) \in Nat
  BY <1>1, FS_Subset, FS_CardinalityType DEF Wasted
<1>4. Cardinality(removed' \ sent') + Cardinality(T) <= surplus'
  <2>1. removed' \ sent' = removed \ sent /\ surplus' = surplus
    OBVIOUS
  <2>2. Cardinality(removed \ sent) + Cardinality(S) <= surplus
    BY <1>1 DEF Wasted
  <2> QED
    BY <1>3, <2>1, <2>2, UnsentFinite
<1>5. \A p \in Deleting' \ T : p \in Deleting \ S
  BY <1>2
<1>6. \A p \in Deleting' \ T : Rows(p)' # <<>> /\ Head(Rows(p)') \in sent'
  BY <1>1, <1>5 DEF Wasted, Deleting
<1>7. \A p, q \in Deleting' \ T : handle'[p] = handle'[q] => p = q
  BY <1>1, <1>5 DEF Wasted, Deleting
<1>8. Wasted(T)'
  BY <1>3, <1>4, <1>6, <1>7 DEF Wasted
<1> QED
  BY <1>8 DEF Paid

\* A send that was not wasted is the first of its file; every other one is new in
\* surplus, or takes a row off those that were deleted unsent.
LEMMA PaidSend ==
  ASSUME TypeInv, Placement, Paid, NEW p \in Procs, Send(p)
  PROVE  Paid'
<1>1. PICK S \in SUBSET Procs : Wasted(S)
  BY DEF Paid
<1>2. /\ UNCHANGED <<rows, removed, handle>>
      /\ Deleting' = Deleting \cup {p} /\ p \notin Deleting
      /\ pc[p] = "send"
  BY DEF Send, Goto, TypeInv, TypeOK, Deleting
<1>3. /\ IsFiniteSet(S) /\ Cardinality(S) \in Nat /\ p \notin S
      /\ IsFiniteSet(S \cup {p}) /\ Cardinality(S \cup {p}) = Cardinality(S) + 1
      /\ Cardinality(removed \ sent) + Cardinality(S) <= surplus
  BY <1>1, <1>2, FS_CardinalityType, FS_AddElement DEF Wasted
<1>4. \A q \in Procs : Rows(q)' = Rows(q)
  BY <1>2 DEF Rows
<1>5. sent \subseteq sent'
  BY DEF Send
<1>6. ASSUME Cardinality(removed \ sent') + Cardinality(S) + 1 <= surplus'
      PROVE  Paid'
  <2>1. PICK T \in SUBSET Procs : T = S \cup {p}
    OBVIOUS
  <2>2. Deleting' \ T = Deleting \ S
    BY <1>2, <2>1
  <2>3. IsFiniteSet(T) /\ T \subseteq Deleting'
    BY <1>1, <1>2, <1>3, <2>1 DEF Wasted
  <2>4. Cardinality(removed' \ sent') + Cardinality(T) <= surplus'
    <3>1. Cardinality(T) = Cardinality(S) + 1
      BY <1>3, <2>1
    <3>2. removed' \ sent' \subseteq removed \ sent /\ removed' = removed
      BY <1>2, <1>5
    <3>3. Cardinality(removed' \ sent') \in Nat
      BY <3>2, UnsentFinite, FS_Subset, FS_CardinalityType
    <3> QED
      BY <1>3, <1>6, <3>1, <3>2, <3>3
  <2>5. Wasted(T)'
    BY <1>1, <1>2, <1>4, <1>5, <2>2, <2>3, <2>4 DEF Wasted, Deleting
  <2> QED
    BY <2>5 DEF Paid
<1>7. CASE dataBuf[p] = 0 \/ dataBuf[p] \in sent
  <2>1. surplus' = surplus + 1 /\ sent' = sent
    BY <1>7 DEF Send
  <2> QED
    BY <1>3, <1>6, <2>1, UnsentFinite
<1>8. CASE dataBuf[p] \in removed \ sent
  <2>1. sent' = sent \cup {dataBuf[p]} /\ surplus' = surplus
    <3>1. dataBuf[p] # 0
      BY <1>8 DEF TypeInv, TypeOK
    <3> QED
      BY <1>8, <3>1 DEF Send
  <2>2. removed \ sent' = (removed \ sent) \ {dataBuf[p]}
    BY <2>1
  <2>3. Cardinality(removed \ sent') = Cardinality(removed \ sent) - 1
    <3>1. IsFiniteSet(removed \ sent) /\ dataBuf[p] \in removed \ sent
      BY <1>8, UnsentFinite
    <3>2. Cardinality((removed \ sent) \ {dataBuf[p]}) = Cardinality(removed \ sent) - 1
      BY <3>1, FS_RemoveElement
    <3> QED
      BY <2>2, <3>2
  <2> QED
    BY <1>3, <1>6, <2>1, <2>3, UnsentFinite
<1>9. CASE dataBuf[p] # 0 /\ dataBuf[p] \notin sent /\ dataBuf[p] \notin removed
  <2>1. sent' = sent \cup {dataBuf[p]} /\ surplus' = surplus
    BY <1>9 DEF Send
  <2>2. Rows(p) # <<>> /\ dataBuf[p] = Head(Rows(p))
    BY <1>2, <1>9 DEF Placement, Taken
  <2>3. removed' \ sent' = removed \ sent
    BY <1>2, <1>9, <2>1
  <2>4. \A q \in Deleting \ S : handle[q] # handle[p]
    BY <1>1, <1>9, <2>2 DEF Wasted, Rows
  <2>5. Deleting' \ S = (Deleting \ S) \cup {p}
    BY <1>2, <1>3
  <2>6. \A q \in Deleting' \ S : Rows(q)' # <<>> /\ Head(Rows(q)') \in sent'
    BY <1>1, <1>4, <2>1, <2>2, <2>5 DEF Wasted, Deleting
  <2>7. \A q, r \in Deleting' \ S : handle'[q] = handle'[r] => q = r
    BY <1>1, <1>2, <2>4, <2>5 DEF Wasted
  <2>8. Wasted(S)'
    <3>1. Cardinality(removed' \ sent') + Cardinality(S) <= surplus'
      BY <1>3, <2>1, <2>3
    <3>2. IsFiniteSet(S) /\ S \subseteq Deleting'
      BY <1>1, <1>2 DEF Wasted
    <3> QED
      BY <2>6, <2>7, <3>1, <3>2 DEF Wasted
  <2> QED
    BY <2>8 DEF Paid
<1> QED
  BY <1>7, <1>8, <1>9

\* A delete of a sent row hands the wasted send of its process, if it had one, to
\* the process that paid for that row; a delete of an unsent row uses it up.
LEMMA PaidDelete ==
  ASSUME TypeInv, Placement, Paid, NEW p \in Procs, Delete(p)
  PROVE  Paid'
<1>1. PICK S \in SUBSET Procs : Wasted(S)
  BY DEF Paid
<1>2. /\ UNCHANGED <<sent, surplus, handle>>
      /\ Deleting' = Deleting \ {p} /\ p \in Deleting
  BY DEF Delete, Goto, TypeInv, TypeOK, Deleting
<1>3. /\ IsFiniteSet(S) /\ Cardinality(S) \in Nat
      /\ Cardinality(removed \ sent) + Cardinality(S) <= surplus
  BY <1>1, FS_CardinalityType DEF Wasted
<1>4. CASE Rows(p) = <<>>
  <2>1. UNCHANGED <<rows, removed>>
    BY <1>4 DEF Delete
  <2>2. \A q \in Procs : pc'[q] = "delete" => pc[q] = "delete"
    BY <1>2 DEF Deleting
  <2> QED
    BY <1>2, <2>1, <2>2, PaidQuiet DEF Rows
<1>5. CASE Rows(p) # <<>>
  <2> DEFINE f == handle[p]
  <2>1. /\ f \in Files /\ 1 \in DOMAIN rows[f] /\ Head(Rows(p)) = rows[f][1]
        /\ removed' = removed \cup {rows[f][1]} /\ rows[f][1] \notin removed
        /\ \A g \in Files \ {f} : rows'[g] = rows[g]
    BY <1>5, DeleteMoves DEF Placement, Gone
  <2>2. \A q \in Deleting : handle[q] \in Files
    BY UsableFile DEF Deleting, TypeInv, TypeOK
  <2>3. \A q \in Deleting' : handle[q] # f => Rows(q)' = Rows(q)
    BY <1>2, <2>1, <2>2 DEF Rows
  <2> HIDE DEF f
  <2>4. ASSUME NEW T \in SUBSET Deleting', IsFiniteSet(T),
               Cardinality(removed' \ sent) + Cardinality(T) <= surplus,
               \A q \in Deleting' \ T : q \in Deleting \ S /\ handle[q] # f
        PROVE  Paid'
    <3>1. \A q \in Deleting' \ T : Rows(q)' # <<>> /\ Head(Rows(q)') \in sent'
      BY <1>1, <1>2, <2>3, <2>4 DEF Wasted
    <3>2. \A q, r \in Deleting' \ T : handle'[q] = handle'[r] => q = r
      BY <1>1, <1>2, <2>4 DEF Wasted
    <3>3. Cardinality(removed' \ sent') + Cardinality(T) <= surplus'
      BY <1>2, <2>4
    <3>4. Wasted(T)'
      BY <2>4, <3>1, <3>2, <3>3 DEF Wasted
    <3>5. T \in SUBSET Procs
      BY <2>4 DEF Deleting
    <3> QED
      BY <3>4, <3>5 DEF Paid
  <2>5. S \ {p} \in SUBSET Deleting' /\ IsFiniteSet(S \ {p})
    BY <1>1, <1>2, <1>3, FS_RemoveElement, FS_Subset DEF Wasted
  <2>6. CASE rows[f][1] \notin sent
    <3>1. p \in S /\ \A q \in Deleting \ S : handle[q] # f
      BY <1>1, <1>2, <2>1, <2>6 DEF Wasted, Rows, f
    <3>2. Cardinality(S \ {p}) = Cardinality(S) - 1
      BY <1>3, <3>1, FS_RemoveElement
    <3>3. removed' \ sent = (removed \ sent) \cup {rows[f][1]} /\ rows[f][1] \notin removed \ sent
      BY <2>1, <2>6
    <3>4. Cardinality(removed' \ sent) = Cardinality(removed \ sent) + 1
      <4>1. IsFiniteSet(removed \ sent)
        BY UnsentFinite
      <4>2. Cardinality((removed \ sent) \cup {rows[f][1]}) = Cardinality(removed \ sent) + 1
        BY <3>3, <4>1, FS_AddElement
      <4> QED
        BY <3>3, <4>2
    <3>5. Cardinality(removed' \ sent) + Cardinality(S \ {p}) <= surplus
      BY <1>3, <3>2, <3>4, UnsentFinite
    <3>6. \A q \in Deleting' \ (S \ {p}) : q \in Deleting \ S /\ handle[q] # f
      BY <1>2, <3>1
    <3> QED
      BY <2>4, <2>5, <3>5, <3>6
  <2>7. CASE rows[f][1] \in sent
    <3>1. removed' \ sent = removed \ sent
      BY <2>1, <2>7
    <3>2. CASE p \notin S
      <4>1. \A q \in Deleting' \ S : q \in Deleting \ S /\ handle[q] # f
        BY <1>1, <1>2, <3>2 DEF Wasted, f
      <4>2. S \in SUBSET Deleting'
        BY <2>5, <3>2
      <4> QED
        BY <1>3, <2>4, <3>1, <4>1, <4>2
    <3>3. CASE p \in S /\ \A q \in Deleting \ S : handle[q] # f
      <4>1. Cardinality(S \ {p}) = Cardinality(S) - 1
        BY <1>3, <3>3, FS_RemoveElement
      <4>2. \A q \in Deleting' \ (S \ {p}) : q \in Deleting \ S /\ handle[q] # f
        BY <1>2, <3>3
      <4>3. Cardinality(removed' \ sent) + Cardinality(S \ {p}) <= surplus
        <5>1. Cardinality(removed' \ sent) = Cardinality(removed \ sent)
          BY <3>1
        <5>2. Cardinality(removed \ sent) \in Nat /\ surplus \in Nat
          BY UnsentFinite
        <5> QED
          BY <1>3, <4>1, <5>1, <5>2
      <4> QED
        BY <2>4, <2>5, <4>2, <4>3
    <3>4. ASSUME p \in S, NEW r \in Deleting \ S, handle[r] = f
          PROVE  Paid'
      <4> DEFINE T == (S \ {p}) \cup {r}
      <4>1. r \in Deleting' /\ r \notin S \ {p}
        BY <1>2, <3>4
      <4>2. T \in SUBSET Deleting' /\ IsFiniteSet(T)
        BY <2>5, <4>1, FS_AddElement
      <4>3. Cardinality(T) = Cardinality(S)
        <5>1. Cardinality(S \ {p}) = Cardinality(S) - 1
          BY <1>3, <3>4, FS_RemoveElement
        <5>2. Cardinality(T) = Cardinality(S \ {p}) + 1
          BY <2>5, <4>1, FS_AddElement
        <5> HIDE DEF T
        <5> QED
          BY <1>3, <5>1, <5>2
      <4>4. \A q \in Deleting' \ T : q \in Deleting \ S /\ handle[q] # f
        BY <1>1, <1>2, <3>4 DEF Wasted
      <4> HIDE DEF T
      <4>5. Cardinality(removed' \ sent) + Cardinality(T) <= surplus
        BY <1>3, <3>1, <4>3
      <4> QED
        BY <2>4, <4>2, <4>4, <4>5
    <3> QED
      BY <3>2, <3>3, <3>4
  <2> QED
    BY <2>6, <2>7
<1> QED
  BY <1>4, <1>5

\* Every step keeps the rows that were deleted unsent paid for.
LEMMA PaidStep == TypeInv /\ Placement /\ Paid /\ [Next]_vars => Paid'
<1> SUFFICES ASSUME TypeInv, Placement, Paid, [Next]_vars
             PROVE  Paid'
  OBVIOUS
<1> DEFINE Quiet == /\ UNCHANGED <<sent, removed, surplus, rows>>
                    /\ \A q \in Procs : pc'[q] = "delete" =>
                         pc[q] = "delete" /\ handle'[q] = handle[q]
<1>1. Quiet => Paid'
  <2> SUFFICES ASSUME Quiet PROVE Paid'
    OBVIOUS
  <2>1. \A q \in Procs : pc'[q] = "delete" => Rows(q)' = Rows(q)
    BY DEF Rows
  <2> QED
    BY <2>1, PaidQuiet
<1>2. pc \in [Procs -> Calls] /\ handle \in [Procs -> Files \cup {NoFile}]
  BY DEF TypeInv, TypeOK
<1>3. ASSUME NEW p \in Procs, Access(p) \/ Open(p) \/ Create(p) \/ CreateFails(p) PROVE Quiet
  <2>1. CASE Access(p)
    BY <1>2, <2>1 DEF Access, Goto, history
  <2>2. CASE Open(p)
    BY <1>2, <2>2 DEF Open, Goto, history
  <2>3. CASE Create(p)
    BY <1>2, <2>3 DEF Create, Goto, history
  <2>4. CASE CreateFails(p)
    BY <1>2, <2>4 DEF CreateFails, Goto, history
  <2> QED
    BY <1>3, <2>1, <2>2, <2>3, <2>4
<1>4. ASSUME NEW p \in Procs, Select(p) \/ Take(p) \/ TakeFails(p) \/ SendFails(p) PROVE Quiet
  <2>1. CASE Select(p)
    BY <1>2, <2>1 DEF Select, Goto, history
  <2>2. CASE Take(p)
    BY <1>2, <2>2 DEF Take, TakeRow, Goto, history
  <2>3. CASE TakeFails(p)
    BY <1>2, <2>3 DEF TakeFails, Goto, history
  <2>4. CASE SendFails(p)
    BY <1>2, <2>4 DEF SendFails, SendFailsThen, Goto, history
  <2> QED
    BY <1>4, <2>1, <2>2, <2>3, <2>4
<1>5. ASSUME NEW p \in Procs, DeleteFails(p) \/ Die(p) \/ Begin(p) PROVE Quiet
  <2>1. CASE DeleteFails(p)
    BY <1>2, <2>1 DEF DeleteFails, Goto, history
  <2>2. CASE Die(p)
    BY <1>2, <2>2 DEF Die, Goto, history
  <2>3. CASE Begin(p)
    BY <1>2, <2>3 DEF Begin, Goto, history
  <2> QED
    BY <1>5, <2>1, <2>2, <2>3
<1>6. ASSUME NEW p \in Procs, Insert(p) PROVE Paid'
  <2>1. /\ handle[p] \in Files /\ Rows(p) \in Seq(1 .. MaxRows)
        /\ inserted + 1 \in 1 .. MaxRows
    BY <1>6, UsableFile, SharedAssumption DEF Insert, TypeInv, TypeOK
  <2>2. /\ rows' = [rows EXCEPT ![handle[p]] = Append(Rows(p), inserted + 1)]
        /\ UNCHANGED <<pc, handle, sent, removed, surplus>>
    BY <1>6 DEF Insert, history, Rows
  <2>3. Rows(p) # <<>> => /\ Append(Rows(p), inserted + 1) # <<>>
                          /\ Head(Append(Rows(p), inserted + 1)) = Head(Rows(p))
    BY <2>1, Appended
  <2>4. rows \in [Files -> Seq(1 .. MaxRows)]
    BY DEF TypeInv, TypeOK
  <2>5. ASSUME NEW q \in Procs, pc[q] = "delete", Rows(q) # <<>>
        PROVE  Rows(q)' # <<>> /\ Head(Rows(q)') = Head(Rows(q))
    <3>1. handle[q] \in Files
      BY <2>5, UsableFile DEF TypeInv, TypeOK
    <3>2. CASE handle[q] = handle[p]
      <4>1. Rows(q) = Rows(p) /\ Rows(q)' = Append(Rows(p), inserted + 1)
        BY <2>1, <2>2, <2>4, <3>2 DEF Rows
      <4> QED
        BY <2>3, <2>5, <4>1
    <3>3. CASE handle[q] # handle[p]
      <4>1. Rows(q)' = Rows(q)
        BY <2>1, <2>2, <2>4, <3>1, <3>3 DEF Rows
      <4> QED
        BY <2>5, <4>1
    <3> QED
      BY <3>2, <3>3
  <2> QED
    BY <2>2, <2>5, PaidQuiet
<1>7. CASE UNCHANGED vars
  <2>1. UNCHANGED <<pc, handle, rows, sent, removed, surplus>>
    BY <1>7 DEF vars, history
  <2> QED
    BY <1>1, <2>1
<1> HIDE DEF Quiet
<1> QED
  BY <1>1, <1>3, <1>4, <1>5, <1>6, <1>7, PaidSend, PaidDelete DEF Next

-----------------------------------------------------------------------------
(* The theorems.                                                            *)

\* The invariant holds in every state.
LEMMA Invariance == Spec => []IInv
<1>1. Init => IInv
  BY TypeInvInit, PlacementInit, PaidInit DEF IInv
<1>2. IInv /\ [Next]_vars => IInv'
  BY TypeInvStep, PlacementStep, PaidStep DEF IInv
<1> QED
  BY <1>1, <1>2, PTL DEF Spec

\* Every variable is in its range, and in every file only the oldest row can have
\* been sent, however many processes work on it (main.c:174-188).
THEOREM SharedOrder == Spec => []Consistent
<1>1. IInv => Consistent
  BY DEF IInv, TypeInv, Placement, Consistent
<1> QED
  BY <1>1, Invariance, PTL

\* Rows are deleted unsent at most as often as a send was wasted on a row sent
\* before or on none: every DELETE was paid for by a send (main.c:175-188,
\* database.c:127-167).
THEOREM SharedLossIsPaid == Spec => []LossIsPaid
<1>1. IInv => LossIsPaid
  <2> SUFFICES ASSUME IInv PROVE LossIsPaid
    OBVIOUS
  <2>1. PICK S \in SUBSET Procs : Wasted(S)
    BY DEF IInv, Paid
  <2>2. Cardinality(S) \in Nat /\ Cardinality(removed \ sent) + Cardinality(S) <= surplus
    BY <2>1, FS_CardinalityType DEF Wasted
  <2>3. Cardinality(removed \ sent) \in Nat /\ surplus \in Nat
    BY UnsentFinite DEF IInv
  <2> QED
    BY <2>2, <2>3 DEF LossIsPaid
<1> QED
  BY <1>1, Invariance, PTL

=============================================================================
