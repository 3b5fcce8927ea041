---------------------------- MODULE ClientProofs ----------------------------
(***************************************************************************)
(* Proofs about the sampling client, for every set of descriptors and      *)
(* widths and every bound: the inductive invariant IInv of Client, the     *)
(* safety invariants it implies, and, when every packet is long enough for *)
(* every row (RowsFit), that the client implements StoreForward.           *)
(***************************************************************************)
EXTENDS Client, SequenceTheorems, TLAPS

-----------------------------------------------------------------------------
(* The table as a sequence.                                                 *)

\* Appending a row adds its number and keeps the order when it is the newest.
LEMMA AppendRow ==
  ASSUME NEW S, NEW rows \in Seq(S), NEW row \in S
  PROVE  /\ Append(rows, row) \in Seq(S)
         /\ SeqsOf(Append(rows, row)) = SeqsOf(rows) \cup {row.seq}
         /\ Increasing(rows) /\ (\A m \in SeqsOf(rows) : m < row.seq)
              => Increasing(Append(rows, row))
<1> DEFINE longer == Append(rows, row)
<1>1. /\ longer \in Seq(S)
      /\ Len(longer) = Len(rows) + 1
      /\ \A i \in 1 .. Len(rows) : longer[i] = rows[i]
      /\ longer[Len(rows) + 1] = row
  BY AppendProperties
<1>2. Len(rows) \in Nat /\ DOMAIN rows = 1 .. Len(rows)
  BY LenProperties
<1>3. DOMAIN longer = 1 .. Len(rows) + 1
  BY <1>1, LenProperties
<1> HIDE DEF longer
<1>4. DOMAIN longer = DOMAIN rows \cup {Len(rows) + 1}
  BY <1>2, <1>3
<1>5. SeqsOf(longer) = SeqsOf(rows) \cup {row.seq}
  BY <1>1, <1>2, <1>4 DEF SeqsOf
<1>6. ASSUME Increasing(rows), \A m \in SeqsOf(rows) : m < row.seq
      PROVE  Increasing(longer)
  <2> SUFFICES ASSUME NEW i \in DOMAIN longer, NEW j \in DOMAIN longer, i < j
               PROVE  longer[i].seq < longer[j].seq
    BY DEF Increasing
  <2>1. i \in DOMAIN rows
    BY <1>2, <1>3
  <2>2. CASE j \in DOMAIN rows
    BY <1>1, <1>2, <1>6, <2>1, <2>2 DEF Increasing
  <2>3. CASE j = Len(rows) + 1
    BY <1>1, <1>2, <1>6, <2>1, <2>3 DEF SeqsOf
  <2> QED
    BY <1>4, <2>2, <2>3
<1> QED
  BY <1>1, <1>5, <1>6 DEF longer

\* The head of an ordered table is its oldest row, and removing it removes just
\* its number and keeps the order of the others.
LEMMA RemoveHead ==
  ASSUME NEW S, NEW rows \in Seq(S), rows # <<>>,
         \A i \in DOMAIN rows : rows[i].seq \in Nat,
         Increasing(rows)
  PROVE  /\ Tail(rows) \in Seq(S)
         /\ Head(rows) \in S
         /\ Head(rows).seq \in SeqsOf(rows)
         /\ \A m \in SeqsOf(rows) : Head(rows).seq <= m
         /\ SeqsOf(Tail(rows)) = SeqsOf(rows) \ {Head(rows).seq}
         /\ Increasing(Tail(rows))
<1> DEFINE rest == Tail(rows)
<1>1. /\ Head(rows) \in S
      /\ rest \in Seq(S)
      /\ Len(rest) = Len(rows) - 1
      /\ \A i \in 1 .. Len(rest) : rest[i] = rows[i + 1]
  BY HeadTailProperties
<1>2. Len(rows) \in Nat \ {0} /\ DOMAIN rows = 1 .. Len(rows)
  BY LenProperties, EmptySeq
<1>3. DOMAIN rest = 1 .. Len(rows) - 1
  BY <1>1, LenProperties
<1>4. Head(rows) = rows[1]
  BY <1>2
<1> HIDE DEF rest
<1>5. Head(rows).seq \in SeqsOf(rows)
  BY <1>2, <1>4 DEF SeqsOf
<1>6. ASSUME NEW m \in SeqsOf(rows)
      PROVE  Head(rows).seq <= m
  <2>1. PICK i \in DOMAIN rows : m = rows[i].seq
    BY DEF SeqsOf
  <2>2. i = 1 \/ 1 < i
    BY <1>2
  <2> QED
    BY <1>2, <1>4, <2>1, <2>2 DEF Increasing
<1>7. SeqsOf(rest) \subseteq SeqsOf(rows) \ {Head(rows).seq}
  <2> SUFFICES ASSUME NEW i \in DOMAIN rest
               PROVE  rest[i].seq \in SeqsOf(rows) /\ rest[i].seq # rows[1].seq
    BY <1>4 DEF SeqsOf
  <2>1. i + 1 \in DOMAIN rows /\ 1 \in DOMAIN rows /\ 1 < i + 1
    BY <1>2, <1>3
  <2>2. rest[i] = rows[i + 1]
    BY <1>1, <1>2, <1>3
  <2>3. rows[1].seq < rows[i + 1].seq
    BY <2>1 DEF Increasing
  <2> QED
    BY <2>1, <2>2, <2>3 DEF SeqsOf
<1>8. SeqsOf(rows) \ {Head(rows).seq} \subseteq SeqsOf(rest)
  <2> SUFFICES ASSUME NEW i \in DOMAIN rows, rows[i].seq # rows[1].seq
               PROVE  rows[i].seq \in SeqsOf(rest)
    BY <1>4 DEF SeqsOf
  <2>1. i - 1 \in DOMAIN rest /\ (i - 1) + 1 = i
    BY <1>2, <1>3
  <2>2. rest[i - 1] = rows[i]
    BY <1>1, <1>2, <1>3, <2>1
  <2> QED
    BY <2>1, <2>2 DEF SeqsOf
<1>9. Increasing(rest)
  <2> SUFFICES ASSUME NEW i \in DOMAIN rest, NEW j \in DOMAIN rest, i < j
               PROVE  rest[i].seq < rest[j].seq
    BY DEF Increasing
  <2>1. i + 1 \in DOMAIN rows /\ j + 1 \in DOMAIN rows /\ i + 1 < j + 1
    BY <1>2, <1>3
  <2>2. rest[i] = rows[i + 1] /\ rest[j] = rows[j + 1]
    BY <1>1, <1>2, <1>3
  <2> QED
    BY <2>1, <2>2 DEF Increasing
<1> QED
  BY <1>1, <1>5, <1>6, <1>7, <1>8, <1>9 DEF rest

-----------------------------------------------------------------------------
(* Types.  What a send puts in accepted is a number of a sample because of     *)
(* SampleInHand and ServesHead, which are proved along with the types.         *)

\* A row of the table is a sample, and so is its first one.
LEMMA HeadIsSample ==
  ASSUME table \in Seq(Samples), table # <<>>
  PROVE  Head(table) \in Samples /\ Tail(table) \in Seq(Samples)
BY HeadTailProperties

\* One step keeps the types, and the sample and the row in hand well formed.
TypeInv == TypeOK /\ SampleInHand /\ ServesHead

LEMMA TypeInvInit == Init => TypeInv
<1> SUFFICES ASSUME Init
             PROVE  TypeInv
  OBVIOUS
<1>1. table \in Seq(Samples)
  BY DEF Init
<1>2. taken \in 0 .. MaxSamples /\ faults \in 0 .. MaxFaults
      /\ drops \in 0 .. MaxDrops /\ runs \in 0 .. MaxRuns
  BY ClientAssumption DEF Init
<1>3. tcp \in [Fds -> {"closed", "established", "down"}]
  BY DEF Init
<1>4. TypeOK
  BY <1>1, <1>2, <1>3 DEF Init, TypeOK, Calls
<1> QED
  BY <1>4 DEF Init, TypeInv, SampleInHand, ServesHead

LEMMA TypeInvStep == TypeInv /\ [Next]_vars => TypeInv'
<1> USE ClientAssumption
<1> SUFFICES ASSUME TypeInv, [Next]_vars
             PROVE  TypeInv'
  OBVIOUS
<1> USE DEF TypeInv, TypeOK, SampleInHand, ServesHead, Calls, memVars, sockVars,
            dbVars, envVars, history
<1>1. CASE OpenExisting
  BY <1>1 DEF OpenExisting
<1>2. CASE OpenNew
  BY <1>2 DEF OpenNew
<1>3. CASE CreateTable
  BY <1>3 DEF CreateTable
<1>4. CASE Sample
  <2>1. pack' \in Samples
    BY <1>4 DEF Sample, Samples
  <2>2. packBytes' \in Nat
    BY <1>4 DEF Sample, LiveLen
  <2>3. taken' \in 0 .. MaxSamples
    BY <1>4 DEF Sample
  <2> QED
    BY <1>4, <2>1, <2>2, <2>3 DEF Sample
<1>5. CASE NotDue
  BY <1>5 DEF NotDue, TurnWithoutSample
<1>6. CASE Exit
  BY <1>6 DEF Exit, ForgetMemory
<1>7. CASE StillConnected
  BY <1>7 DEF StillConnected
<1>8. CASE Connect
  BY <1>8 DEF Connect
<1>9. CASE ConnectFails
  BY <1>9 DEF ConnectFails, CloseSock
<1>10. CASE SeenAlive
  BY <1>10 DEF SeenAlive
<1>11. CASE SeenDead
  BY <1>11 DEF SeenDead, DeadThen, CloseSock
<1>12. CASE SendLive
  BY <1>12, HeadIsSample DEF SendLive, HandOver, Samples
<1>13. CASE SendLiveFails
  BY <1>13 DEF SendLiveFails, CloseSock
<1>14. CASE Insert
  <2>1. pack \in Samples /\ pack.seq \in 1 .. MaxSamples
    BY <1>14 DEF Insert, Samples
  <2>2. table' \in Seq(Samples)
    BY <1>14, <2>1, AppendProperties DEF Insert
  <2>3. faults' \in 0 .. MaxFaults
    BY <1>14 DEF Insert, DbFails
  <2> QED
    BY <1>14, <2>1, <2>2, <2>3 DEF Insert
<1>15. CASE Select
  BY <1>15 DEF Select, SelectThen, DbUp, DbFails
<1>16. CASE Take
  <2>1. faults' \in 0 .. MaxFaults
    BY <1>16 DEF Take, TakeRow, DbFails
  <2>2. Head(table) \in Samples
    BY <1>16, HeadIsSample DEF Take, TakeRow
  <2> QED
    BY <1>16, <2>1, <2>2 DEF Take, TakeRow
<1>17. CASE SendRow
  BY <1>17, HeadIsSample DEF SendRow, RowSentThen, HandOver, Samples
<1>18. CASE SendRowFails
  BY <1>18 DEF SendRowFails, RowFailsThen, CloseSock
<1>19. CASE Delete
  <2>1. dataBuf \in Samples /\ Tail(table) \in Seq(Samples)
    BY <1>19, HeadIsSample DEF Delete, DeleteLeaving
  <2>2. dataBuf.seq \in 1 .. MaxSamples
    BY <2>1 DEF Samples
  <2>3. faults' \in 0 .. MaxFaults
    BY <1>19 DEF Delete, DeleteLeaving, DbFails
  <2> QED
    BY <1>19, <2>1, <2>2, <2>3 DEF Delete, DeleteLeaving
<1>20. CASE Signal
  BY <1>20 DEF Signal
<1>21. CASE Kill
  BY <1>21, HeadIsSample DEF Kill, ForgetMemory, InHand, Samples
<1>22. CASE Restart
  <2>1. runs' \in 0 .. MaxRuns
    BY <1>22 DEF Restart
  <2> QED
    BY <1>22, <2>1 DEF Restart
<1>23. CASE Disconnect
  BY <1>23 DEF Disconnect
<1>24. CASE Reachability
  BY <1>24 DEF Reachability
<1>25. CASE UNCHANGED vars
  BY <1>25 DEF vars
<1> QED
  BY <1>1, <1>2, <1>3, <1>4, <1>5, <1>6, <1>7, <1>8, <1>9, <1>10, <1>11, <1>12, <1>13, <1>14, <1>15, <1>16, <1>17, <1>18, <1>19, <1>20, <1>21, <1>22, <1>23, <1>24, <1>25
     DEF Next, Step, Environment

\* The variables of the client keep their types, whatever fails and whenever it
\* is stopped, killed and started again.
THEOREM TypeCorrect == Spec => []TypeOK
<1>1. TypeInv => TypeOK
  BY DEF TypeInv
<1> QED
  BY <1>1, TypeInvInit, TypeInvStep, PTL DEF Spec

-----------------------------------------------------------------------------
(* The samples.  Six actions move a sample; all others leave every sample     *)
(* where it is.                                                               *)

Quiet ==
  /\ UNCHANGED <<table, taken, history>>
  /\ pack' \in {pack, NoSample}
  /\ InHand' = InHand
  /\ pc = "delete" => pc' = "delete" /\ dataBuf' = dataBuf

Moving == Sample \/ SendLive \/ Insert \/ SendRow \/ Delete \/ Kill

LEMMA QuietOrMoving ==
  ASSUME TypeInv, [Next]_vars
  PROVE  Quiet \/ Moving
<1> USE DEF TypeInv, TypeOK, Quiet, InHand, memVars, sockVars, dbVars, envVars,
            history
<1>1. CASE OpenExisting
  BY <1>1 DEF OpenExisting
<1>2. CASE OpenNew
  BY <1>2 DEF OpenNew
<1>3. CASE CreateTable
  BY <1>3 DEF CreateTable
<1>4. CASE NotDue
  BY <1>4 DEF NotDue, TurnWithoutSample
<1>5. CASE Exit
  BY <1>5 DEF Exit, ForgetMemory
<1>6. CASE StillConnected
  BY <1>6 DEF StillConnected
<1>7. CASE Connect
  BY <1>7 DEF Connect
<1>8. CASE ConnectFails
  BY <1>8 DEF ConnectFails, CloseSock
<1>9. CASE SeenAlive
  BY <1>9 DEF SeenAlive
<1>10. CASE SeenDead
  BY <1>10 DEF SeenDead, DeadThen, CloseSock
<1>11. CASE SendLiveFails
  BY <1>11 DEF SendLiveFails, CloseSock
<1>12. CASE Select
  BY <1>12 DEF Select, SelectThen, DbUp, DbFails
<1>13. CASE Take
  BY <1>13 DEF Take, TakeRow, DbUp, DbFails
<1>14. CASE SendRowFails
  BY <1>14 DEF SendRowFails, RowFailsThen, CloseSock
<1>15. CASE Signal
  BY <1>15 DEF Signal
<1>16. CASE Restart
  BY <1>16 DEF Restart
<1>17. CASE Disconnect
  BY <1>17 DEF Disconnect
<1>18. CASE Reachability
  BY <1>18 DEF Reachability
<1>19. CASE UNCHANGED vars
  BY <1>19 DEF vars
<1> QED
  BY <1>1, <1>2, <1>3, <1>4, <1>5, <1>6, <1>7, <1>8, <1>9, <1>10, <1>11, <1>12, <1>13, <1>14, <1>15, <1>16, <1>17, <1>18, <1>19
     DEF Next, Step, Environment, Moving

-----------------------------------------------------------------------------
(* Where the samples are: the invariant IInv, action by action.               *)

Placement ==
  /\ PackIsNewest /\ SentWasTaken /\ SpoolOrder
  /\ SentRowExplained /\ ResentExplained

\* Rows are numbered samples; the samples in hand and in the table are known.
LEMMA Numbers ==
  ASSUME TypeInv
  PROVE  /\ taken \in Nat
         /\ Spooled \subseteq Nat
         /\ \A i \in DOMAIN table : table[i].seq \in Nat
         /\ flag => pack.seq \in Nat
<1>1. taken \in Nat
  BY ClientAssumption DEF TypeInv, TypeOK
<1>2. ASSUME NEW i \in DOMAIN table
      PROVE  table[i].seq \in Nat
  <2>1. table[i] \in Samples
    BY ElementOfSeq, LenProperties DEF TypeInv, TypeOK
  <2> QED
    BY <2>1, ClientAssumption DEF Samples
<1>3. flag => pack.seq \in Nat
  BY ClientAssumption DEF TypeInv, SampleInHand, Samples
<1> QED
  BY <1>1, <1>2, <1>3 DEF Spooled, SeqsOf

LEMMA PlacementInit == Init => Placement
<1> SUFFICES ASSUME Init
             PROVE  Placement
  OBVIOUS
<1>1. DOMAIN table = {} /\ Spooled = {}
  BY DEF Init, Spooled, SeqsOf
<1> QED
  BY <1>1
     DEF Init, Placement, PackIsNewest, SentWasTaken, SpoolOrder, Increasing,
         SentRowExplained, ResentExplained, InHand

LEMMA PlacementQuiet ==
  ASSUME TypeInv, Placement, Quiet
  PROVE  Placement'
<1>1. /\ Spooled' = Spooled /\ table' = table /\ InHand' = InHand
      /\ taken' = taken /\ accepted' = accepted /\ dropped' = dropped
      /\ resent' = resent /\ undeleted' = undeleted
  BY DEF Quiet, Spooled, SeqsOf, history
<1>2. PackIsNewest'
  BY <1>1 DEF Placement, PackIsNewest, Quiet
<1>3. SentRowExplained'
  BY <1>1 DEF Placement, SentRowExplained, Quiet
<1> QED
  BY <1>1, <1>2, <1>3
     DEF Placement, SentWasTaken, SpoolOrder, ResentExplained

LEMMA PlacementSample ==
  ASSUME TypeInv, Placement, Sample
  PROVE  Placement'
<1>1. /\ Spooled' = Spooled /\ table' = table
      /\ taken' = taken + 1 /\ pack'.seq = taken + 1
      /\ InHand = {} /\ InHand' = {taken + 1}
      /\ pc = "loop" /\ accepted' = accepted /\ dropped' = dropped
      /\ resent' = resent /\ undeleted' = undeleted
  BY DEF Sample, Spooled, SeqsOf, dbVars, history, InHand
<1> QED
  BY <1>1, Numbers
     DEF Placement, PackIsNewest, SentWasTaken, SpoolOrder,
         SentRowExplained, ResentExplained

LEMMA PlacementSendLive ==
  ASSUME TypeInv, Placement, SendLive
  PROVE  Placement'
<1>1. /\ Spooled' = Spooled /\ table' = table /\ pack' = pack
      /\ taken' = taken /\ InHand = {pack.seq} /\ InHand' = {}
      /\ pc = "send" /\ accepted' = accepted \cup {pack.seq}
      /\ resent' = resent \cup (accepted \cap {pack.seq})
      /\ dropped' = dropped /\ undeleted' = undeleted
  BY DEF SendLive, HandOver, Spooled, SeqsOf, dbVars, envVars, memVars, InHand,
         TypeInv, SampleInHand
<1>2. pack.seq = taken /\ pack.seq \in 1 .. taken
  BY <1>1, Numbers
     DEF Placement, PackIsNewest, TypeInv, SampleInHand, Samples, NoSample,
         SendLive
<1> QED
  BY <1>1, <1>2, Numbers
     DEF Placement, PackIsNewest, SentWasTaken, SpoolOrder,
         SentRowExplained, ResentExplained

LEMMA PlacementInsert ==
  ASSUME TypeInv, Placement, Insert
  PROVE  Placement'
<1>1. /\ pack' = pack /\ taken' = taken /\ pc = "spool"
      /\ InHand = {pack.seq} /\ InHand' = {}
      /\ accepted' = accepted /\ resent' = resent /\ undeleted' = undeleted
  BY DEF Insert, envVars, memVars, InHand, TypeInv, SampleInHand
<1>2. pack \in Samples /\ pack.seq = taken /\ pack.seq \in 1 .. taken
  BY <1>1, Numbers
     DEF Placement, PackIsNewest, TypeInv, SampleInHand, Samples, NoSample,
         Insert
<1>3. CASE table' = Append(table, pack) /\ dropped' = dropped
  <2>1. Spooled' = Spooled \cup {pack.seq} /\ Increasing(table')
    BY <1>1, <1>2, <1>3, AppendRow
       DEF TypeInv, TypeOK, Spooled, Placement, SpoolOrder
  <2> QED
    BY <1>1, <1>2, <2>1, <1>3, Numbers
       DEF Placement, PackIsNewest, SentWasTaken, SpoolOrder,
           SentRowExplained, ResentExplained
<1>4. CASE table' = table /\ dropped' = dropped \cup {pack.seq}
  <2>1. Spooled' = Spooled
    BY <1>4 DEF Spooled, SeqsOf
  <2> QED
    BY <1>1, <1>2, <1>4, <2>1, Numbers
       DEF Placement, PackIsNewest, SentWasTaken, SpoolOrder,
           SentRowExplained, ResentExplained
<1> QED
  BY <1>3, <1>4 DEF Insert


LEMMA PlacementSendRow ==
  ASSUME TypeInv, Placement, SendRow
  PROVE  Placement'
<1>1. /\ Spooled' = Spooled /\ table' = table /\ pack' = pack
      /\ dataBuf' = dataBuf /\ pc = "sendrow" /\ pc' = "delete"
      /\ taken' = taken /\ InHand = {} /\ InHand' = {}
      /\ dropped' = dropped /\ undeleted' = undeleted
  BY DEF SendRow, RowSentThen, Spooled, SeqsOf, dbVars, envVars, memVars, InHand
<1>2. /\ table \in Seq(Samples) /\ table # <<>> /\ dataBuf = Head(table)
      /\ dataBuf \in Samples
  BY <1>1, HeadIsSample DEF TypeInv, TypeOK, ServesHead
<1>3. dataBuf.seq \in Spooled
  BY <1>2, RemoveHead, Numbers DEF Spooled, Placement, SpoolOrder
<1>4. dataBuf.seq \in 1 .. taken
  BY <1>2, <1>3, Numbers DEF Placement, SpoolOrder, Samples
<1>5. dataBuf.seq \in accepted => dataBuf.seq \in undeleted
  BY <1>1, <1>3 DEF Placement, SentRowExplained
<1>6. \/ accepted' = accepted /\ resent' = resent
      \/ /\ accepted' = accepted \cup {dataBuf.seq}
         /\ resent' = resent \cup (accepted \cap {dataBuf.seq})
  BY DEF SendRow, RowSentThen, HandOver
<1> QED
  BY <1>1, <1>4, <1>5, <1>6
     DEF Placement, PackIsNewest, SentWasTaken, SpoolOrder, SentRowExplained,
         ResentExplained

\* The two outcomes of the DELETE.
LEMMA DeleteOutcome ==
  ASSUME TypeInv, Placement, Delete
  PROVE  /\ pc = "delete" /\ pc' = "loop"
         /\ pack' = pack /\ taken' = taken /\ InHand = {} /\ InHand' = {}
         /\ accepted' = accepted /\ resent' = resent /\ dropped' = dropped
         /\ dataBuf.seq \in Spooled
         /\ \A m \in Spooled : dataBuf.seq <= m
         /\ \/ /\ undeleted' = undeleted
               /\ Spooled' = Spooled \ {dataBuf.seq}
               /\ Increasing(table')
            \/ /\ undeleted' = undeleted \cup {dataBuf.seq}
               /\ table' = table /\ Spooled' = Spooled
<1>1. /\ pc = "delete" /\ pc' = "loop"
      /\ pack' = pack /\ taken' = taken /\ InHand = {} /\ InHand' = {}
      /\ accepted' = accepted /\ resent' = resent /\ dropped' = dropped
      /\ \/ table' = Tail(table) /\ undeleted' = undeleted
         \/ table' = table /\ undeleted' = undeleted \cup {dataBuf.seq}
  BY DEF Delete, DeleteLeaving, envVars, memVars, InHand
<1>2. table \in Seq(Samples) /\ table # <<>> /\ dataBuf = Head(table)
  BY <1>1 DEF TypeInv, TypeOK, ServesHead
<1>3. /\ dataBuf.seq \in Spooled
      /\ \A m \in Spooled : dataBuf.seq <= m
      /\ SeqsOf(Tail(table)) = Spooled \ {dataBuf.seq}
      /\ Increasing(Tail(table))
  BY <1>2, RemoveHead, Numbers DEF Spooled, Placement, SpoolOrder
<1>4. Spooled' = SeqsOf(table')
  BY DEF Spooled, SeqsOf
<1> QED
  BY <1>1, <1>3, <1>4 DEF Spooled

LEMMA PlacementDelete ==
  ASSUME TypeInv, Placement, Delete
  PROVE  Placement'
<1>1. SpoolOrder'
  BY DeleteOutcome DEF Placement, SpoolOrder
<1>2. PackIsNewest' /\ SentWasTaken'
  BY DeleteOutcome DEF Placement, PackIsNewest, SentWasTaken
<1>3. SentRowExplained' /\ ResentExplained'
  BY DeleteOutcome DEF Placement, SentRowExplained, ResentExplained
<1> QED
  BY <1>1, <1>2, <1>3 DEF Placement

LEMMA PlacementKill ==
  ASSUME TypeInv, Placement, Kill
  PROVE  Placement'
<1>1. /\ Spooled' = Spooled /\ table' = table /\ pack' = NoSample
      /\ pc' = "down" /\ taken' = taken /\ InHand' = {}
      /\ dropped' = dropped \cup InHand /\ accepted' = accepted
      /\ resent' = resent
      /\ undeleted' = undeleted
           \cup (IF pc = "delete" THEN {dataBuf.seq} ELSE {})
  BY DEF Kill, ForgetMemory, InHand, Spooled, SeqsOf, envVars
<1>2. InHand \subseteq 1 .. taken
  BY Numbers
     DEF InHand, TypeInv, SampleInHand, Placement, PackIsNewest, Samples,
         NoSample
<1> QED
  BY <1>1, <1>2
     DEF Placement, PackIsNewest, SentWasTaken, SpoolOrder, SentRowExplained,
         ResentExplained

\* The descriptors: a new one is opened only when sock names none.
LEMMA LeakStep ==
  ASSUME TypeInv, NoDescriptorLeak, [Next]_vars
  PROVE  NoDescriptorLeak'
<1> USE DEF TypeInv, TypeOK, NoDescriptorLeak, sockVars
<1>1. CASE UNCHANGED sockVars
  BY <1>1
<1>2. CASE CloseSock
  BY <1>2 DEF CloseSock
<1>3. CASE ForgetMemory
  BY <1>3 DEF ForgetMemory
<1>4. CASE Connect
  BY <1>4, ClientAssumption DEF Connect
<1>5. CASE Disconnect
  BY <1>5 DEF Disconnect
<1>6. \/ UNCHANGED sockVars \/ CloseSock \/ ForgetMemory
      \/ Connect \/ Disconnect
  BY DEF Next, Step, Environment, vars, OpenExisting, OpenNew, CreateTable,
         Sample, NotDue, TurnWithoutSample, Exit, StillConnected, ConnectFails,
         SeenAlive, SeenDead, DeadThen, SendLive, SendLiveFails, Insert, Select,
         SelectThen, Take, TakeRow, SendRow, RowSentThen, SendRowFails,
         RowFailsThen, Delete, DeleteLeaving, Signal, Kill, Restart,
         Reachability
<1> QED
  BY <1>1, <1>2, <1>3, <1>4, <1>5, <1>6

LEMMA IInvParts == IInv <=> TypeInv /\ Placement /\ NoDescriptorLeak
BY DEF IInv, TypeInv, Placement

LEMMA IInvInit == Init => IInv
<1>1. Init => NoDescriptorLeak
  BY DEF Init, NoDescriptorLeak
<1> QED
  BY <1>1, TypeInvInit, PlacementInit, IInvParts

LEMMA IInvStep == IInv /\ [Next]_vars => IInv'
<1> SUFFICES ASSUME IInv, [Next]_vars
             PROVE  IInv'
  OBVIOUS
<1>1. TypeInv /\ Placement /\ NoDescriptorLeak
  BY IInvParts
<1>2. TypeInv' /\ NoDescriptorLeak'
  BY <1>1, TypeInvStep, LeakStep
<1>3. Placement'
  BY <1>1, QuietOrMoving, PlacementQuiet, PlacementSample, PlacementSendLive,
     PlacementInsert, PlacementSendRow, PlacementDelete, PlacementKill
     DEF Moving
<1> QED
  BY <1>2, <1>3 DEF IInv, TypeInv, Placement

LEMMA Invariance == Spec => []IInv
BY IInvInit, IInvStep, PTL DEF Spec

\* The table is a queue of samples in the order they were taken, and the sample
\* in hand is newer than all of it.
THEOREM TableIsAQueue == Spec => []SpoolOrder
<1>1. IInv => SpoolOrder
  BY DEF IInv
<1> QED
  BY <1>1, Invariance, PTL

\* A row is there to be taken, and the row that is sent is the row that the
\* DELETE removes.
THEOREM HeadIsServed == Spec => []ServesHead
<1>1. IInv => ServesHead
  BY DEF IInv
<1> QED
  BY <1>1, Invariance, PTL

\* The process never has a descriptor open that sock does not name.
THEOREM DescriptorsKept == Spec => []NoDescriptorLeak
<1>1. IInv => NoDescriptorLeak
  BY DEF IInv
<1> QED
  BY <1>1, Invariance, PTL

\* A sample is handed over twice only if its row could not be deleted, or the
\* process was killed, after the row was sent.
THEOREM DuplicatesExplained == Spec => []ResentExplained
<1>1. IInv => ResentExplained
  BY DEF IInv
<1> QED
  BY <1>1, Invariance, PTL


-----------------------------------------------------------------------------
(* When every packet is long enough for every row, and -t was given, a row    *)
(* that is deleted was sent in full.                                          *)

LEMMA RowSentInit == Init => RowSent
BY DEF Init, RowSent

LEMMA RowSentStep ==
  ASSUME RowsFit, TypeInv, RowSent, [Next]_vars
  PROVE  RowSent'
<1> USE DEF RowSent, memVars, history
<1>1. CASE OpenExisting
  BY <1>1 DEF OpenExisting
<1>2. CASE OpenNew
  BY <1>2 DEF OpenNew
<1>3. CASE CreateTable
  BY <1>3 DEF CreateTable
<1>4. CASE Sample
  BY <1>4 DEF Sample, LiveLen
<1>5. CASE NotDue
  BY <1>5 DEF NotDue, TurnWithoutSample, RowsFit
<1>6. CASE Exit
  BY <1>6 DEF Exit, ForgetMemory
<1>7. CASE StillConnected
  BY <1>7 DEF StillConnected
<1>8. CASE Connect
  BY <1>8 DEF Connect
<1>9. CASE ConnectFails
  BY <1>9 DEF ConnectFails
<1>10. CASE SeenAlive
  BY <1>10 DEF SeenAlive
<1>11. CASE SeenDead
  BY <1>11 DEF SeenDead, DeadThen
<1>12. CASE SendLive
  BY <1>12 DEF SendLive
<1>13. CASE SendLiveFails
  BY <1>13 DEF SendLiveFails
<1>14. CASE Insert
  BY <1>14 DEF Insert
<1>15. CASE Select
  BY <1>15 DEF Select, SelectThen
<1>16. CASE Take
  BY <1>16 DEF Take, TakeRow
<1>17. CASE SendRow
  <2>1. /\ pc = "sendrow" /\ ~first /\ first' = first
        /\ packBytes' = packBytes /\ dataBuf' = dataBuf
    BY <1>17 DEF SendRow, RowSentThen
  <2>2. dataBuf \in Samples
    BY <2>1, HeadIsSample DEF TypeInv, TypeOK, ServesHead
  <2>3. PICK w \in Widths : packBytes = w + 15
    BY <2>1
  <2>4. w \in Nat /\ dataBuf.width \in Nat /\ dataBuf.width <= w + 5
    BY <2>2, ClientAssumption DEF Samples, RowsFit
  <2>5. packBytes >= TextLen(dataBuf)
    BY <2>3, <2>4 DEF TextLen
  <2>6. dataBuf.seq \in accepted'
    BY <1>17, <2>5 DEF SendRow, RowSentThen, HandOver
  <2> QED
    BY <2>1, <2>3, <2>6
<1>18. CASE SendRowFails
  BY <1>18 DEF SendRowFails, RowFailsThen
<1>19. CASE Delete
  BY <1>19 DEF Delete, DeleteLeaving
<1>20. CASE Signal
  BY <1>20 DEF Signal
<1>21. CASE Kill
  BY <1>21 DEF Kill, ForgetMemory
<1>22. CASE Restart
  BY <1>22 DEF Restart
<1>23. CASE Disconnect
  BY <1>23 DEF Disconnect
<1>24. CASE Reachability
  BY <1>24 DEF Reachability
<1>25. CASE UNCHANGED vars
  BY <1>25 DEF vars
<1> QED
  BY <1>1, <1>2, <1>3, <1>4, <1>5, <1>6, <1>7, <1>8, <1>9, <1>10, <1>11, <1>12, <1>13, <1>14, <1>15, <1>16, <1>17, <1>18, <1>19, <1>20, <1>21, <1>22, <1>23, <1>24, <1>25
     DEF Next, Step, Environment

\* What the six actions do to the sets of StoreForward.
LEMMA Moves ==
  ASSUME IInv, RowSent, [Next]_vars
  PROVE  \/ UNCHANGED <<InHand, Spooled, accepted, dropped, taken>>
         \/ /\ taken < MaxSamples /\ taken' = taken + 1
            /\ InHand = {} /\ InHand' = {taken + 1}
            /\ UNCHANGED <<Spooled, accepted, dropped>>
         \/ /\ InHand = {taken} /\ InHand' = {}
            /\ accepted' = accepted \cup {taken}
            /\ UNCHANGED <<Spooled, dropped, taken>>
         \/ /\ InHand = {taken} /\ InHand' = {}
            /\ Spooled' = Spooled \cup {taken}
            /\ UNCHANGED <<accepted, dropped, taken>>
         \/ /\ InHand = {taken} /\ InHand' = {}
            /\ dropped' = dropped \cup {taken}
            /\ UNCHANGED <<Spooled, accepted, taken>>
         \/ \E n \in Spooled :
              /\ \A m \in Spooled : n <= m
              /\ accepted' = accepted \cup {n}
              /\ UNCHANGED <<InHand, Spooled, dropped, taken>>
         \/ \E n \in Spooled \cap accepted :
              /\ \A m \in Spooled : n <= m
              /\ Spooled' = Spooled \ {n}
              /\ UNCHANGED <<InHand, accepted, dropped, taken>>
<1>1. TypeInv /\ Placement
  BY IInvParts
<1>2. InHand = {} \/ InHand = {taken}
  BY <1>1, Numbers
     DEF InHand, TypeInv, SampleInHand, Placement, PackIsNewest, Samples,
         NoSample
<1>3. CASE Quiet
  BY <1>3 DEF Quiet, Spooled, SeqsOf, history
<1>4. CASE Sample
  BY <1>4 DEF Sample, InHand, Spooled, SeqsOf, dbVars, history
<1>5. CASE SendLive
  BY <1>1, <1>2, <1>5
     DEF SendLive, HandOver, InHand, Spooled, SeqsOf, dbVars, envVars, memVars,
         TypeInv, SampleInHand
<1>6. CASE Insert
  <2>1. pack \in Samples /\ InHand = {pack.seq} /\ InHand' = {} /\ pc = "spool"
    BY <1>1, <1>6 DEF Insert, InHand, TypeInv, SampleInHand
  <2>2. table' = Append(table, pack) => Spooled' = Spooled \cup {pack.seq}
    BY <1>1, <2>1, AppendRow DEF TypeInv, TypeOK, Spooled
  <2>3. table' = table => Spooled' = Spooled
    BY DEF Spooled, SeqsOf
  <2> QED
    BY <1>2, <1>6, <2>1, <2>2, <2>3 DEF Insert, envVars
<1>7. CASE SendRow
  <2>1. /\ pc = "sendrow" /\ UNCHANGED <<InHand, Spooled, dropped, taken>>
        /\ accepted' = accepted \/ accepted' = accepted \cup {dataBuf.seq}
    BY <1>7
       DEF SendRow, RowSentThen, HandOver, InHand, Spooled, SeqsOf, dbVars,
           envVars, memVars
  <2>2. table \in Seq(Samples) /\ table # <<>> /\ dataBuf = Head(table)
    BY <1>1, <2>1 DEF TypeInv, TypeOK, ServesHead
  <2>3. dataBuf.seq \in Spooled /\ \A m \in Spooled : dataBuf.seq <= m
    BY <1>1, <2>2, RemoveHead, Numbers DEF Spooled, Placement, SpoolOrder
  <2> QED
    BY <2>1, <2>3
<1>8. CASE Delete
  <2>1. dataBuf.seq \in accepted
    BY <1>1, <1>8, DeleteOutcome DEF RowSent
  <2> QED
    BY <1>1, <1>8, <2>1, DeleteOutcome
<1>9. CASE Kill
  BY <1>2, <1>9
     DEF Kill, ForgetMemory, InHand, Spooled, SeqsOf, envVars
<1> QED
  BY <1>1, <1>3, <1>4, <1>5, <1>6, <1>7, <1>8, <1>9, QuietOrMoving DEF Moving

LEMMA ConservedStep ==
  ASSUME IInv, RowSent, Conserved, [Next]_vars
  PROVE  Conserved'
<1>1. taken \in Nat
  BY IInvParts, Numbers
<1> QED
  BY <1>1, Moves DEF Conserved

LEMMA FitInvariance == RowsFit => (Spec => []FitInv)
<1>1. Init => FitInv
  <2>1. Init => Conserved
    BY DEF Init, Conserved
  <2> QED
    BY <2>1, IInvInit, RowSentInit DEF FitInv
<1>2. RowsFit /\ FitInv /\ [Next]_vars => FitInv'
  BY IInvStep, RowSentStep, ConservedStep, IInvParts DEF FitInv
<1> SUFFICES ASSUME RowsFit
             PROVE  Spec => []FitInv
  OBVIOUS
<1>3. FitInv /\ [Next]_vars => FitInv'
  BY <1>2
<1> QED
  BY <1>1, <1>3, PTL DEF Spec

\* Every sample taken was handed over, is in the table, is on its way to one of
\* the two, or was dropped by a kill or a failed INSERT.
THEOREM NothingForgotten == RowsFit => (Spec => []Conserved)
<1>1. FitInv => Conserved
  BY DEF FitInv
<1> QED
  BY <1>1, FitInvariance, PTL

\* A row leaves the table only after all of it was sent.
THEOREM RowsLeaveSent == RowsFit => (Spec => RowLeavesOnlySent)
<1>1. FitInv /\ [Next]_vars => \A n \in Spooled : n \notin Spooled' => n \in accepted
  BY Moves DEF FitInv
<1>2. FitInv /\ [Next]_vars => [\A n \in Spooled : n \notin Spooled' => n \in accepted]_vars
  BY <1>1
<1> QED
  BY <1>2, FitInvariance, PTL DEF Spec, RowLeavesOnlySent

\* The client keeps the promise of StoreForward.
THEOREM ClientImplements == RowsFit => (Spec => Implements)
<1>1. Init => SF!Init
  <2> SUFFICES ASSUME Init
               PROVE  SF!Init
    OBVIOUS
  <2>1. Spooled = {} /\ InHand = {}
    BY DEF Init, Spooled, SeqsOf, InHand
  <2> QED
    BY <2>1 DEF Init, SF!Init
<1>2. FitInv /\ [Next]_vars => [SF!Next]_(SF!vars)
  <2> SUFFICES ASSUME FitInv, [Next]_vars
               PROVE  SF!Next \/ UNCHANGED SF!vars
    OBVIOUS
  <2>1. /\ taken \in Nat /\ taken <= MaxSamples /\ MaxSamples \in Nat
        /\ accepted \cup dropped \subseteq 1 .. taken
        /\ Spooled \subseteq 1 .. taken
    <3>1. Spooled \subseteq 1 .. MaxSamples
      <4>1. ASSUME NEW i \in DOMAIN table
            PROVE  table[i].seq \in 1 .. MaxSamples
        <5>1. table[i] \in Samples
          BY ElementOfSeq, LenProperties DEF FitInv, IInv, TypeOK
        <5> QED
          BY <5>1 DEF Samples
      <4> QED
        BY <4>1 DEF Spooled, SeqsOf
    <3> QED
      BY <3>1, ClientAssumption
         DEF FitInv, IInv, TypeOK, SentWasTaken, SpoolOrder
  <2>2. InHand \subseteq 1 .. MaxSamples
    BY DEF InHand, FitInv, IInv, TypeOK, SampleInHand, Samples
  <2> DEFINE step == SF!Next \/ UNCHANGED SF!vars
  <2>3. ASSUME UNCHANGED <<InHand, Spooled, accepted, dropped, taken>>
        PROVE  step
    BY <2>3 DEF SF!vars
  <2>4. ASSUME taken < MaxSamples, InHand = {}, InHand' = {taken + 1},
               UNCHANGED <<Spooled, accepted, dropped>>
        PROVE  step
    <3>1. taken + 1 \in 1 .. MaxSamples
      BY <2>1, <2>4
    <3>2. SF!Take(taken + 1)
      <4>1. ASSUME NEW m \in SF!Taken
            PROVE  m < taken + 1
        <5>1. m \in 1 .. taken
          BY <2>1, <2>4, <4>1 DEF SF!Taken
        <5> QED
          BY <2>1, <5>1
      <4> QED
        BY <2>4, <4>1 DEF SF!Take
    <3> QED
      BY <3>1, <3>2 DEF SF!Next
  <2>5. ASSUME InHand = {taken}, InHand' = {}
        PROVE  /\ taken \in 1 .. MaxSamples
               /\ accepted' = accepted \cup {taken}
                    /\ UNCHANGED <<Spooled, dropped, taken>> => step
               /\ Spooled' = Spooled \cup {taken}
                    /\ UNCHANGED <<accepted, dropped, taken>> => step
               /\ dropped' = dropped \cup {taken}
                    /\ UNCHANGED <<Spooled, accepted, taken>> => step
    <3>1. taken \in 1 .. MaxSamples
      BY <2>2, <2>5
    <3> QED
      BY <3>1, <2>5 DEF SF!Next, SF!HandOverFresh, SF!Persist, SF!Lose
  <2>6. ASSUME NEW n \in Spooled, \A m \in Spooled : n <= m
        PROVE  /\ accepted' = accepted \cup {n}
                    /\ UNCHANGED <<InHand, Spooled, dropped, taken>> => step
               /\ n \in accepted /\ Spooled' = Spooled \ {n}
                    /\ UNCHANGED <<InHand, accepted, dropped, taken>> => step
    <3>1. n \in 1 .. MaxSamples
      BY <2>1
    <3> QED
      BY <3>1, <2>6
         DEF SF!Next, SF!HandOverOldest, SF!Release, SF!Oldest
  <2> HIDE DEF step
  <2>7. step
    BY <2>3, <2>4, <2>5, <2>6, Moves DEF FitInv
  <2> QED
    BY <2>7 DEF step
<1> QED
  BY <1>1, <1>2, FitInvariance, PTL DEF Spec, Implements, SF!Spec

=============================================================================
