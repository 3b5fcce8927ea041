-------------------------- MODULE PublisherProofs ---------------------------
(***************************************************************************)
(* Proofs about the MQTT publisher, for every bound: the broker gets the   *)
(* readings in order and once, none over a refused connection, and every   *)
(* reading of an accepted callback whose connection held.                  *)
(***************************************************************************)
EXTENDS Publisher, SequenceTheorems, TLAPS

-----------------------------------------------------------------------------
(* The inductive invariant.                                                 *)

\* The message of the callback that was entered last.
Current == [round |-> rounds, read |-> read]

\* The callback was entered and its connection is not given up yet.
Entered ==
  pc \in {"sensor", "pack", "publish", "disconnect"} \/ (pc = "loop" /\ conn = "up")

\* What the library holds at each place of the program.
Library ==
  /\ pc \in {"config", "init", "connect", "sleep", "exit"} => conn = "none"
  /\ pc \in {"sensor", "pack", "publish", "disconnect"} => conn = "up"
  /\ pc = "loop" => conn # "none"
  /\ conn # "up" \/ pc \in {"sensor", "pack", "publish"} => queue = <<>>
  /\ pc = "disconnect" => queue \in {<<>>, <<Current>>}
  /\ pc = "loop" /\ conn = "up" =>
       leaving /\ queue \in {<<Disconnect>>, <<Current, Disconnect>>}
  /\ conn \in {"waiting", "down"} => ~leaving
  /\ conn = "up" => rounds >= 1 /\ (link \/ rounds \in cut)

\* What the program knows of the callback.
Known ==
  /\ Entered => (rc = 0 <=> rounds \in accepted)
  /\ Entered /\ pc # "sensor" => (read <=> rounds \in taken)
  /\ pc = "sensor" => rounds \notin taken
  /\ pc = "publish" => msg = rounds
  /\ queue \in {<<Current>>, <<Current, Disconnect>>} => rc = 0

\* What arrived: the message of the callback only after it was written.
Arrived ==
  /\ broker \in Seq([round : Nat, read : BOOLEAN])
  /\ pc \in {"sensor", "pack", "publish", "disconnect"} \/ queue = <<Current, Disconnect>> =>
       \A i \in DOMAIN broker : broker[i].round < rounds

\* A message that should arrive waits until it has.
Delivery ==
  rounds \in accepted \ (cut \cup unsent) =>
    /\ pc = "disconnect" => queue = <<Current>>
    /\ pc = "sleep" \/ (pc = "loop" /\ conn = "up") =>
         \/ queue = <<Current, Disconnect>>
         \/ \E i \in DOMAIN broker : broker[i].round = rounds

IInv == TypeOK /\ InOrderOnce /\ Library /\ Known /\ Arrived /\ Delivery

-----------------------------------------------------------------------------
(* The queue.                                                               *)

\* What the queue is after a packet is queued.
LEMMA Queued ==
  ASSUME NEW S, NEW x \in S, NEW y \in S
  PROVE  Append(<<>>, x) = <<x>> /\ Append(<<x>>, y) = <<x, y>>
<1>1. Append(<<x>>, y) = <<x, y>>
  <2> DEFINE s == Append(<<x>>, y)
  <2>1. <<x>> \in Seq(S) /\ <<x, y>> \in Seq(S) /\ s \in Seq(S)
    OBVIOUS
  <2>2. Len(s) = 2 /\ s[1] = x /\ s[2] = y
    BY <2>1
  <2>3. Len(<<x, y>>) = 2 /\ <<x, y>>[1] = x /\ <<x, y>>[2] = y
    OBVIOUS
  <2>4. \A i \in 1 .. 2 : i = 1 \/ i = 2
    OBVIOUS
  <2>5. Len(s) = Len(<<x, y>>) /\ \A i \in 1 .. Len(s) : s[i] = <<x, y>>[i]
    BY <2>2, <2>3, <2>4
  <2> HIDE DEF s
  <2>6. s = <<x, y>>
    BY <2>1, <2>5, SeqEqual
  <2> QED
    BY <2>6 DEF s
<1>2. Append(<<>>, x) = <<x>>
  OBVIOUS
<1> QED
  BY <1>1, <1>2

\* What the loop writes and what it leaves in the queue.
LEMMA Written ==
  ASSUME NEW S, NEW x \in S, NEW y \in S, x # y
  PROVE  /\ Head(<<x>>) = x /\ Tail(<<x>>) = <<>>
         /\ Head(<<x, y>>) = x /\ Tail(<<x, y>>) = <<y>>
         /\ <<x>> # <<>> /\ <<x, y>> # <<>> /\ <<x>> # <<y>>
         /\ <<x, y>> # <<y>> /\ <<x, y>> # <<x>>
         /\ <<x>> \in Seq(S) /\ <<x, y>> \in Seq(S)
         /\ Len(<<>>) = 0 /\ Len(<<x>>) = 1 /\ Len(<<x, y>>) = 2
<1>1. Head(<<x>>) = x /\ Head(<<x, y>>) = x
  OBVIOUS
<1>2. Tail(<<x>>) = <<>> /\ Tail(<<x, y>>) = <<y>>
  OBVIOUS
<1>3. /\ Len(<<x, y>>) = 2 /\ Len(<<x>>) = 1 /\ Len(<<y>>) = 1 /\ Len(<<>>) = 0
      /\ <<x>>[1] = x /\ <<y>>[1] = y
      /\ <<x>> \in Seq(S) /\ <<x, y>> \in Seq(S)
  OBVIOUS
<1>4. /\ <<x>> # <<>> /\ <<x, y>> # <<>> /\ <<x>> # <<y>>
      /\ <<x, y>> # <<y>> /\ <<x, y>> # <<x>>
  BY <1>3
<1> QED
  BY <1>1, <1>2, <1>3, <1>4

\* The history of the broker with one message more.
LEMMA Appending ==
  ASSUME NEW S, NEW s \in Seq(S), NEW x \in S
  PROVE  /\ Append(s, x) \in Seq(S) /\ DOMAIN Append(s, x) = 1 .. Len(s) + 1
         /\ DOMAIN s = 1 .. Len(s) /\ Len(s) \in Nat
         /\ \A i \in DOMAIN s : Append(s, x)[i] = s[i]
         /\ Append(s, x)[Len(s) + 1] = x
OBVIOUS

\* The packets of a callback: its message is not the one that ends the connection.
LEMMA Packets ==
  ASSUME IInv, conn = "up"
  PROVE  /\ Current # Disconnect /\ Disconnect # Current
         /\ Current \in [round : 0 .. MaxRounds, read : BOOLEAN]
         /\ Disconnect \in [round : 0 .. MaxRounds, read : BOOLEAN]
BY PublisherAssumption DEF IInv, TypeOK, Library, Current, Disconnect

-----------------------------------------------------------------------------
(* main.                                                                    *)

\* What main does between two connections changes nothing the invariant is about.
LEMMA MainStep ==
  ASSUME IInv, Configure \/ Create \/ CreateFails \/ ConnectFails \/ Sleep
  PROVE  IInv'
<1>1. /\ pc \in {"config", "init", "connect", "sleep"} /\ pc' \in {"init", "connect", "exit"}
      /\ configured' \in BOOLEAN /\ faults' \in 0 .. MaxFaults
      /\ UNCHANGED <<conn, link, leaving, queue, rc, read, msg, rounds>>
      /\ UNCHANGED <<broker, accepted, cut, unsent, taken, Current>>
  BY PublisherAssumption DEF IInv, TypeOK, Configure, Create, CreateFails, ConnectFails,
     Sleep, Fault, library, history, Current
<1>2. TypeOK'
  BY <1>1 DEF IInv, TypeOK
<1>3. InOrderOnce'
  BY <1>1, Zenon DEF IInv, InOrderOnce
<1>4. Library'
  BY <1>1 DEF IInv, Library
<1>5. Known'
  BY <1>1 DEF IInv, TypeOK, Library, Known, Entered
<1>6. Arrived' /\ Delivery'
  BY <1>1 DEF IInv, Library, Arrived, Delivery
<1> QED
  BY <1>2, <1>3, <1>4, <1>5, <1>6 DEF IInv

\* A connection is asked for.
LEMMA ConnectStep ==
  ASSUME IInv, Connect PROVE IInv'
<1>1. TypeOK'
  <2>1. /\ pc' \in {"config", "init", "connect", "loop", "sensor", "pack", "publish",
                  "disconnect", "sleep", "exit", "crashed"}
        /\ conn' \in {"none", "waiting", "up", "down"}
        /\ (configured \in BOOLEAN /\ read \in BOOLEAN)'
        /\ (link \in BOOLEAN /\ leaving \in BOOLEAN)'
    BY DEF IInv, TypeOK, Connect, history
  <2>2. /\ (rc \in {0, 1} /\ msg \in 0 .. MaxRounds)'
        /\ (rounds \in 0 .. MaxRounds /\ faults \in 0 .. MaxFaults)'
    BY PublisherAssumption DEF IInv, TypeOK, Connect, history
  <2>3. (queue \in Seq([round : 0 .. MaxRounds, read : BOOLEAN]) /\ Len(queue) <= 2)'
    BY DEF IInv, TypeOK, Connect, history
  <2>4. (\A i \in DOMAIN broker : broker[i].round \in 1 .. rounds)'
    BY PublisherAssumption DEF IInv, TypeOK, Connect, history
  <2>5. (accepted \cup cut \cup unsent \cup taken \subseteq 1 .. rounds)'
    BY PublisherAssumption DEF IInv, TypeOK, Connect, history
  <2> QED
    BY <2>1, <2>2, <2>3, <2>4, <2>5 DEF TypeOK
<1>2. InOrderOnce'
  BY Zenon DEF IInv, InOrderOnce, Connect, history
<1>3. Library'
  BY DEF IInv, TypeOK, Library, Current, Connect, history
<1>4. Known'
  BY DEF IInv, TypeOK, Library, Known, Entered, Current, Connect, history
<1>5. Arrived'
  BY DEF IInv, TypeOK, Library, Arrived, Current, Connect, history
<1>6. Delivery'
  BY DEF IInv, TypeOK, Library, Delivery, Current, Connect, history
<1> QED
  BY <1>1, <1>2, <1>3, <1>4, <1>5, <1>6 DEF IInv

-----------------------------------------------------------------------------
(* The loop and the broker.                                                 *)

\* A new callback: nothing of it has arrived.
LEMMA AnsweredStep ==
  ASSUME IInv, Answered PROVE IInv'
<1>1. TypeOK'
  <2>1. /\ pc' \in {"config", "init", "connect", "loop", "sensor", "pack", "publish",
                  "disconnect", "sleep", "exit", "crashed"}
        /\ conn' \in {"none", "waiting", "up", "down"}
        /\ (configured \in BOOLEAN /\ read \in BOOLEAN)'
        /\ (link \in BOOLEAN /\ leaving \in BOOLEAN)'
    BY DEF IInv, TypeOK, Answered
  <2>2. /\ (rc \in {0, 1} /\ msg \in 0 .. MaxRounds)'
        /\ (rounds \in 0 .. MaxRounds /\ faults \in 0 .. MaxFaults)'
    BY PublisherAssumption DEF IInv, TypeOK, Answered
  <2>3. (queue \in Seq([round : 0 .. MaxRounds, read : BOOLEAN]) /\ Len(queue) <= 2)'
    BY DEF IInv, TypeOK, Answered
  <2>4. (\A i \in DOMAIN broker : broker[i].round \in 1 .. rounds)'
    BY PublisherAssumption DEF IInv, TypeOK, Answered
  <2>5. (accepted \cup cut \cup unsent \cup taken \subseteq 1 .. rounds)'
    BY PublisherAssumption DEF IInv, TypeOK, Answered
  <2> QED
    BY <2>1, <2>2, <2>3, <2>4, <2>5 DEF TypeOK
<1>2. InOrderOnce'
  <2>1. accepted \subseteq accepted' /\ broker' = broker /\ taken' = taken
    BY DEF Answered
  <2>2. \A i \in DOMAIN broker : /\ broker[i].round \in accepted'
                                 /\ broker[i].read <=> broker[i].round \in taken
    BY <2>1, Zenon DEF IInv, InOrderOnce
  <2> QED
    BY <2>1, <2>2, Zenon DEF IInv, InOrderOnce
<1>3. Library'
  BY DEF IInv, TypeOK, Library, Current, Answered
<1>4. Known'
  BY DEF IInv, TypeOK, Library, Known, Entered, Current, Answered
<1>5. Arrived'
  BY DEF IInv, TypeOK, Library, Arrived, Current, Answered
<1>6. Delivery'
  BY DEF IInv, TypeOK, Library, Delivery, Current, Answered
<1> QED
  BY <1>1, <1>2, <1>3, <1>4, <1>5, <1>6 DEF IInv

\* The connection of this callback is lost.
LEMMA LoseStep ==
  ASSUME IInv, Lose PROVE IInv'
<1>1. TypeOK'
  <2>1. /\ pc' \in {"config", "init", "connect", "loop", "sensor", "pack", "publish",
                  "disconnect", "sleep", "exit", "crashed"}
        /\ conn' \in {"none", "waiting", "up", "down"}
        /\ (configured \in BOOLEAN /\ read \in BOOLEAN)'
        /\ (link \in BOOLEAN /\ leaving \in BOOLEAN)'
    BY DEF IInv, TypeOK, Lose
  <2>2. /\ (rc \in {0, 1} /\ msg \in 0 .. MaxRounds)'
        /\ (rounds \in 0 .. MaxRounds /\ faults \in 0 .. MaxFaults)'
    BY PublisherAssumption DEF IInv, TypeOK, Lose
  <2>3. (queue \in Seq([round : 0 .. MaxRounds, read : BOOLEAN]) /\ Len(queue) <= 2)'
    BY DEF IInv, TypeOK, Lose
  <2>4. (\A i \in DOMAIN broker : broker[i].round \in 1 .. rounds)'
    BY PublisherAssumption DEF IInv, TypeOK, Lose
  <2>5. (accepted \cup cut \cup unsent \cup taken \subseteq 1 .. rounds)'
    BY PublisherAssumption DEF IInv, TypeOK, Lose
  <2> QED
    BY <2>1, <2>2, <2>3, <2>4, <2>5 DEF TypeOK
<1>2. InOrderOnce'
  BY Zenon DEF IInv, InOrderOnce, Lose
<1>3. Library'
  BY DEF IInv, TypeOK, Library, Current, Lose
<1>4. Known'
  BY DEF IInv, TypeOK, Library, Known, Entered, Current, Lose
<1>5. Arrived'
  BY DEF IInv, TypeOK, Library, Arrived, Current, Lose
<1>6. Delivery'
  BY DEF IInv, TypeOK, Library, Delivery, Current, Lose
<1> QED
  BY <1>1, <1>2, <1>3, <1>4, <1>5, <1>6 DEF IInv

\* What was queued is lost with a connection that was cut.
LEMMA NoticeStep ==
  ASSUME IInv, Notice PROVE IInv'
<1>1. TypeOK'
  BY PublisherAssumption DEF IInv, TypeOK, Notice, history
<1>2. InOrderOnce'
  BY Zenon DEF IInv, InOrderOnce, Notice, history
<1>3. Library'
  BY DEF IInv, TypeOK, Library, Current, Notice, history
<1>4. Known'
  BY DEF IInv, TypeOK, Library, Known, Entered, Current, Notice, history
<1>5. Arrived'
  BY DEF IInv, TypeOK, Library, Arrived, Current, Notice, history
<1>6. Delivery'
  BY DEF IInv, TypeOK, Library, Delivery, Current, Notice, history
<1> QED
  BY <1>1, <1>2, <1>3, <1>4, <1>5, <1>6 DEF IInv

\* The loop connects again.
LEMMA ReconnectStep ==
  ASSUME IInv, Reconnect PROVE IInv'
<1>1. TypeOK'
  BY PublisherAssumption DEF IInv, TypeOK, Reconnect, history
<1>2. InOrderOnce'
  BY Zenon DEF IInv, InOrderOnce, Reconnect, history
<1>3. Library'
  BY DEF IInv, TypeOK, Library, Current, Reconnect, history
<1>4. Known'
  BY DEF IInv, TypeOK, Library, Known, Entered, Current, Reconnect, history
<1>5. Arrived'
  BY DEF IInv, TypeOK, Library, Arrived, Current, Reconnect, history
<1>6. Delivery'
  BY DEF IInv, TypeOK, Library, Delivery, Current, Reconnect, history
<1> QED
  BY <1>1, <1>2, <1>3, <1>4, <1>5, <1>6 DEF IInv

\* The head of the queue is the message of the callback, or the end of the connection.
LEMMA WriteStep ==
  ASSUME IInv, Write PROVE IInv'
<1> DEFINE B == [round : Nat, read : BOOLEAN]
<1>1. /\ pc = "loop" /\ conn = "up" /\ leaving
      /\ queue \in {<<Disconnect>>, <<Current, Disconnect>>}
  BY DEF IInv, TypeOK, Library, Write
<1>2. /\ Current # Disconnect /\ Disconnect # Current
      /\ Current \in [round : 0 .. MaxRounds, read : BOOLEAN]
      /\ Disconnect \in [round : 0 .. MaxRounds, read : BOOLEAN]
  BY <1>1, Packets
<1>3. CASE queue = <<Disconnect>>
  <2>1. Head(queue) = Disconnect /\ Tail(queue) = <<>>
    BY <1>2, <1>3, Written
  <2>2. /\ queue' = <<>> /\ conn' = "none" /\ link' = FALSE /\ pc' = "sleep"
        /\ UNCHANGED <<configured, leaving, rc, read, msg, rounds, faults, history>>
    BY <2>1 DEF Write, history
  <2>3. <<Disconnect>> # <<Current, Disconnect>>
    BY <1>2, Written
  <2>4. TypeOK'
    <3>1. (\A i \in DOMAIN broker : broker[i].round \in 1 .. rounds)'
      BY <2>2 DEF IInv, TypeOK, history
    <3>2. queue' \in Seq([round : 0 .. MaxRounds, read : BOOLEAN]) /\ Len(queue') <= 2
      BY <2>2
    <3> QED
      BY <2>2, <3>1, <3>2 DEF IInv, TypeOK, history
  <2>5. InOrderOnce'
    BY <2>2, Zenon DEF IInv, InOrderOnce, history
  <2>6. Library' /\ Known' /\ Arrived'
    BY <2>2 DEF IInv, Library, Known, Arrived, Entered, Current, history
  <2>7. Delivery'
    BY <1>1, <1>3, <2>2, <2>3 DEF IInv, Delivery, Current, history
  <2> QED
    BY <2>4, <2>5, <2>6, <2>7 DEF IInv
<1>4. CASE queue = <<Current, Disconnect>>
  <2>1. Head(queue) = Current /\ Tail(queue) = <<Disconnect>>
    BY <1>2, <1>4, Written
  <2>2. /\ queue' = <<Disconnect>> /\ broker' = Append(broker, Current)
        /\ UNCHANGED <<pc, configured, conn, link, leaving, rc, read, msg, rounds, faults>>
        /\ UNCHANGED <<accepted, cut, unsent, taken>>
    BY <1>2, <2>1 DEF Write
  <2>3. /\ rounds \in accepted /\ (read <=> rounds \in taken)
        /\ \A i \in DOMAIN broker : broker[i].round < rounds
    BY <1>1, <1>4 DEF IInv, Known, Arrived, Entered
  <2>4. broker \in Seq(B) /\ Current \in B /\ rounds \in 1 .. rounds
    BY <1>1 DEF IInv, TypeOK, Library, Arrived, Current
  <2>5. /\ broker' \in Seq(B) /\ DOMAIN broker' = 1 .. Len(broker) + 1
        /\ DOMAIN broker = 1 .. Len(broker) /\ Len(broker) \in Nat
        /\ \A i \in DOMAIN broker : broker'[i] = broker[i]
        /\ broker'[Len(broker) + 1] = Current
    BY <2>2, <2>4, Appending
  <2>6. /\ Current.round = rounds /\ Current.read = read
        /\ \A i \in DOMAIN broker' : i \in DOMAIN broker \/ i = Len(broker) + 1
    BY <2>5 DEF Current
  <2>7. TypeOK'
    <3>1. queue' \in Seq([round : 0 .. MaxRounds, read : BOOLEAN]) /\ Len(queue') <= 2
      BY <2>2, PublisherAssumption DEF Disconnect
    <3>2. \A i \in DOMAIN broker' : broker'[i].round \in 1 .. rounds
      BY <2>4, <2>5, <2>6 DEF IInv, TypeOK
    <3> QED
      BY <2>2, <3>1, <3>2 DEF IInv, TypeOK
  <2>8. InOrderOnce'
    <3>1. \A i, j \in DOMAIN broker' : i < j => broker'[i].round < broker'[j].round
      <4> SUFFICES ASSUME NEW i \in DOMAIN broker', NEW j \in DOMAIN broker', i < j
                   PROVE  broker'[i].round < broker'[j].round
        OBVIOUS
      <4>1. i \in DOMAIN broker /\ (j \in DOMAIN broker \/ j = Len(broker) + 1)
        BY <2>5
      <4> QED
        BY <2>3, <2>5, <2>6, <4>1 DEF IInv, InOrderOnce
    <3>2. \A i \in DOMAIN broker' : /\ broker'[i].round \in accepted
                                    /\ broker'[i].read <=> broker'[i].round \in taken
      <4> SUFFICES ASSUME NEW i \in DOMAIN broker'
                   PROVE  /\ broker'[i].round \in accepted
                          /\ broker'[i].read <=> broker'[i].round \in taken
        OBVIOUS
      <4>1. CASE i \in DOMAIN broker
        <5>1. broker'[i] = broker[i]
          BY <2>5, <4>1
        <5>2. broker[i].round \in accepted /\ (broker[i].read <=> broker[i].round \in taken)
          BY <4>1, Zenon DEF IInv, InOrderOnce
        <5> QED
          BY <5>1, <5>2, Zenon
      <4>2. CASE i = Len(broker) + 1
        BY <2>3, <2>5, <2>6, <4>2, Zenon
      <4> QED
        BY <2>6, <4>1, <4>2
    <3> QED
      BY <2>2, <3>1, <3>2, Zenon DEF InOrderOnce
  <2>9. <<Disconnect>> # <<Current>> /\ <<Disconnect>> # <<Current, Disconnect>>
    BY <1>2, Written
  <2>10. Library' /\ Known' /\ Arrived'
    <3>1. Library'
      BY <1>1, <2>2 DEF IInv, Library, Current
    <3>2. Known'
      BY <1>1, <2>2, <2>9 DEF IInv, Known, Entered, Current
    <3>3. Arrived'
      BY <1>1, <2>2, <2>5, <2>9 DEF Arrived, Current
    <3> QED
      BY <3>1, <3>2, <3>3
  <2>11. Delivery'
    <3>1. Len(broker) + 1 \in DOMAIN broker' /\ broker'[Len(broker) + 1].round = rounds
      BY <2>5, <2>6
    <3> QED
      BY <1>1, <2>2, <3>1 DEF Delivery
  <2> QED
    BY <2>7, <2>8, <2>10, <2>11 DEF IInv
<1> QED
  BY <1>1, <1>3, <1>4

-----------------------------------------------------------------------------
(* connect_callback.                                                        *)

\* The reading: no message of this callback is at the broker yet.
LEMMA GetTemperatureStep ==
  ASSUME IInv, GetTemperature PROVE IInv'
<1>0. read' \in BOOLEAN
  <2>1. PICK o \in SensorOutcomes : read' = o.read
    BY DEF GetTemperature
  <2>2. SensorOutcomes \subseteq [ret : {0, 1}, read : BOOLEAN]
    BY DEF SensorOutcomes
  <2>3. \A m \in [ret : {0, 1}, read : BOOLEAN] : m.read \in BOOLEAN
    OBVIOUS
  <2> QED
    BY <2>1, <2>2, <2>3, Zenon
<1>1. TypeOK'
  <2>1. /\ pc' \in {"config", "init", "connect", "loop", "sensor", "pack", "publish",
                  "disconnect", "sleep", "exit", "crashed"}
        /\ conn' \in {"none", "waiting", "up", "down"}
        /\ (configured \in BOOLEAN /\ read \in BOOLEAN)'
        /\ (link \in BOOLEAN /\ leaving \in BOOLEAN)'
    BY <1>0 DEF IInv, TypeOK, GetTemperature, library
  <2>2. /\ (rc \in {0, 1} /\ msg \in 0 .. MaxRounds)'
        /\ (rounds \in 0 .. MaxRounds /\ faults \in 0 .. MaxFaults)'
    BY PublisherAssumption DEF IInv, TypeOK, GetTemperature, library
  <2>3. (queue \in Seq([round : 0 .. MaxRounds, read : BOOLEAN]) /\ Len(queue) <= 2)'
    BY DEF IInv, TypeOK, GetTemperature, library
  <2>4. (\A i \in DOMAIN broker : broker[i].round \in 1 .. rounds)'
    BY PublisherAssumption DEF IInv, TypeOK, GetTemperature, library
  <2>5. (accepted \cup cut \cup unsent \cup taken \subseteq 1 .. rounds)'
    BY PublisherAssumption DEF IInv, TypeOK, GetTemperature, library, Library
  <2> QED
    BY <2>1, <2>2, <2>3, <2>4, <2>5 DEF TypeOK
<1>2. InOrderOnce'
  <2>1. \A i \in DOMAIN broker : broker[i].round # rounds
    BY DEF IInv, TypeOK, Arrived, GetTemperature
  <2>2. \A n : n # rounds => (n \in taken' <=> n \in taken)
    BY DEF GetTemperature
  <2>3. broker' = broker /\ accepted' = accepted
    BY DEF GetTemperature
  <2> QED
    BY <2>1, <2>2, <2>3, Zenon DEF IInv, InOrderOnce
<1>3. Library'
  BY DEF IInv, TypeOK, Library, Current, GetTemperature, library
<1>4. Known'
  BY DEF IInv, TypeOK, Library, Known, Entered, Current, GetTemperature, library
<1>5. Arrived'
  BY DEF IInv, TypeOK, Library, Arrived, Current, GetTemperature, library
<1>6. Delivery'
  BY DEF IInv, TypeOK, Library, Delivery, Current, GetTemperature, library
<1> QED
  BY <1>1, <1>2, <1>3, <1>4, <1>5, <1>6 DEF IInv

\* The message of this callback.
LEMMA RenderStep ==
  ASSUME IInv, Render PROVE IInv'
<1>1. TypeOK'
  BY PublisherAssumption DEF IInv, TypeOK, Render, library, history
<1>2. InOrderOnce'
  BY Zenon DEF IInv, InOrderOnce, Render, history
<1>3. Library'
  BY DEF IInv, TypeOK, Library, Current, Render, library, history
<1>4. Known'
  BY DEF IInv, TypeOK, Library, Known, Entered, Current, Render, library, history
<1>5. Arrived'
  BY DEF IInv, TypeOK, Library, Arrived, Current, Render, library, history
<1>6. Delivery'
  BY DEF IInv, TypeOK, Library, Delivery, Current, Render, library, history
<1> QED
  BY <1>1, <1>2, <1>3, <1>4, <1>5, <1>6 DEF IInv

\* No message: the program ends.
LEMMA RenderFailsStep ==
  ASSUME IInv, RenderFails PROVE IInv'
<1>1. TypeOK'
  BY PublisherAssumption DEF IInv, TypeOK, RenderFails, Fault, library, history
<1>2. InOrderOnce'
  BY Zenon DEF IInv, InOrderOnce, RenderFails, history
<1>3. Library'
  BY DEF IInv, TypeOK, Library, Current, RenderFails, Fault, library, history
<1>4. Known'
  BY DEF IInv, TypeOK, Library, Known, Entered, Current, RenderFails, Fault, library, history
<1>5. Arrived'
  BY DEF IInv, TypeOK, Library, Arrived, Current, RenderFails, Fault, library, history
<1>6. Delivery'
  BY DEF IInv, TypeOK, Library, Delivery, Current, RenderFails, Fault, library, history
<1> QED
  BY <1>1, <1>2, <1>3, <1>4, <1>5, <1>6 DEF IInv

\* The message is queued if the broker accepted.
LEMMA PublishStep ==
  ASSUME IInv, Publish PROVE IInv'
<1>1. queue = <<>> /\ msg = rounds /\ conn = "up" /\ (rc = 0 <=> rounds \in accepted)
  BY DEF IInv, Library, Known, Entered, Publish
<1>2. /\ Current # Disconnect /\ Disconnect # Current
      /\ Current \in [round : 0 .. MaxRounds, read : BOOLEAN]
      /\ Disconnect \in [round : 0 .. MaxRounds, read : BOOLEAN]
  BY <1>1, Packets
<1>3. queue' = IF rc = 0 THEN <<Current>> ELSE <<>>
  BY <1>1, <1>2, Queued DEF Publish, Message, Current
<1>4. /\ pc' = "disconnect" /\ pc = "publish"
      /\ UNCHANGED <<configured, conn, link, leaving, rc, read, msg, rounds, faults>>
      /\ UNCHANGED <<broker, accepted, cut, unsent, taken, Current>>
  BY DEF Publish, history, Current
<1>5. /\ <<Current>> # <<>> /\ <<Current>> # <<Current, Disconnect>>
      /\ <<>> # <<Current, Disconnect>>
  BY <1>2, Written
<1>6. TypeOK'
  <2>1. queue' \in Seq([round : 0 .. MaxRounds, read : BOOLEAN]) /\ Len(queue') <= 2
    <3> DEFINE P == [round : 0 .. MaxRounds, read : BOOLEAN]
    <3>1. /\ <<>> \in Seq(P) /\ <<Current>> \in Seq(P)
          /\ Len(<<>>) = 0 /\ Len(<<Current>>) = 1
      BY <1>2, Written
    <3>2. CASE rc = 0
      BY <1>3, <3>1, <3>2
    <3>3. CASE rc # 0
      BY <1>3, <3>1, <3>3
    <3> QED
      BY <3>2, <3>3
  <2>2. (\A i \in DOMAIN broker : broker[i].round \in 1 .. rounds)'
    BY <1>4 DEF IInv, TypeOK
  <2> QED
    BY <1>4, <2>1, <2>2 DEF IInv, TypeOK
<1>7. InOrderOnce'
  BY <1>4, Zenon DEF IInv, InOrderOnce
<1>8. Library'
  BY <1>1, <1>3, <1>4 DEF IInv, Library
<1>9. Known'
  BY <1>1, <1>3, <1>4, <1>5 DEF IInv, Known, Entered
<1>10. Arrived'
  BY <1>3, <1>4, <1>5 DEF IInv, Arrived
<1>11. Delivery'
  BY <1>1, <1>3, <1>4 DEF IInv, Delivery
<1> QED
  BY <1>6, <1>7, <1>8, <1>9, <1>10, <1>11 DEF IInv

\* The message is not queued, which unsent says.
LEMMA PublishFailsStep ==
  ASSUME IInv, PublishFails PROVE IInv'
<1>1. TypeOK'
  <2>1. /\ pc' \in {"config", "init", "connect", "loop", "sensor", "pack", "publish",
                  "disconnect", "sleep", "exit", "crashed"}
        /\ conn' \in {"none", "waiting", "up", "down"}
        /\ (configured \in BOOLEAN /\ read \in BOOLEAN)'
        /\ (link \in BOOLEAN /\ leaving \in BOOLEAN)'
    BY DEF IInv, TypeOK, PublishFails, Fault, library
  <2>2. /\ (rc \in {0, 1} /\ msg \in 0 .. MaxRounds)'
        /\ (rounds \in 0 .. MaxRounds /\ faults \in 0 .. MaxFaults)'
    BY PublisherAssumption DEF IInv, TypeOK, PublishFails, Fault, library
  <2>3. (queue \in Seq([round : 0 .. MaxRounds, read : BOOLEAN]) /\ Len(queue) <= 2)'
    BY DEF IInv, TypeOK, PublishFails, Fault, library
  <2>4. (\A i \in DOMAIN broker : broker[i].round \in 1 .. rounds)'
    BY PublisherAssumption DEF IInv, TypeOK, PublishFails, Fault, library
  <2>5. (accepted \cup cut \cup unsent \cup taken \subseteq 1 .. rounds)'
    BY PublisherAssumption DEF IInv, TypeOK, PublishFails, Fault, library, Library
  <2> QED
    BY <2>1, <2>2, <2>3, <2>4, <2>5 DEF TypeOK
<1>2. InOrderOnce'
  BY Zenon DEF IInv, InOrderOnce, PublishFails, history
<1>3. Library'
  BY DEF IInv, TypeOK, Library, Current, PublishFails, Fault, library
<1>4. Known'
  BY DEF IInv, TypeOK, Library, Known, Entered, Current, PublishFails, Fault, library
<1>5. Arrived'
  BY DEF IInv, TypeOK, Library, Arrived, Current, PublishFails, Fault, library
<1>6. Delivery'
  BY DEF IInv, TypeOK, Library, Delivery, Current, PublishFails, Fault, library
<1> QED
  BY <1>1, <1>2, <1>3, <1>4, <1>5, <1>6 DEF IInv

\* The end of the connection is queued behind it.
LEMMA LeaveStep ==
  ASSUME IInv, Leave PROVE IInv'
<1>1. queue \in {<<>>, <<Current>>} /\ conn = "up"
  BY DEF IInv, Library, Leave
<1>2. /\ Current # Disconnect /\ Disconnect # Current
      /\ Current \in [round : 0 .. MaxRounds, read : BOOLEAN]
      /\ Disconnect \in [round : 0 .. MaxRounds, read : BOOLEAN]
  BY <1>1, Packets
<1>3. /\ queue = <<>> => queue' = <<Disconnect>>
      /\ queue = <<Current>> => queue' = <<Current, Disconnect>>
  <2>1. Append(<<Current>>, Disconnect) = <<Current, Disconnect>>
    BY ONLY <1>2, Queued
  <2>3. Append(<<>>, Disconnect) = <<Disconnect>>
    BY ONLY <1>2, Queued
  <2>2. queue' = Append(queue, Disconnect)
    BY DEF Leave
  <2> QED
    BY <2>1, <2>2, <2>3
<1>4. /\ pc' = "loop" /\ pc = "disconnect" /\ leaving' = TRUE
      /\ UNCHANGED <<configured, conn, link, rc, read, msg, rounds, faults>>
      /\ UNCHANGED <<broker, accepted, cut, unsent, taken, Current, Disconnect>>
  BY DEF Leave, history, Current, Disconnect
<1>5. /\ <<Disconnect>> # <<Current>> /\ <<Current, Disconnect>> # <<Disconnect>>
      /\ <<Current, Disconnect>> # <<Current>> /\ <<Current>> # <<>>
  BY <1>2, Written
<1>6. TypeOK'
  <2>1. queue' \in Seq([round : 0 .. MaxRounds, read : BOOLEAN]) /\ Len(queue') <= 2
    <3> DEFINE P == [round : 0 .. MaxRounds, read : BOOLEAN]
    <3>1. /\ <<Disconnect>> \in Seq(P) /\ <<Current, Disconnect>> \in Seq(P)
          /\ Len(<<Disconnect>>) = 1 /\ Len(<<Current, Disconnect>>) = 2
      BY <1>2, Written
    <3>2. CASE queue' = <<Disconnect>>
      BY ONLY <3>1, <3>2
    <3>3. CASE queue' = <<Current, Disconnect>>
      BY ONLY <3>1, <3>3
    <3> QED
      BY <1>1, <1>3, <3>2, <3>3
  <2>2. (\A i \in DOMAIN broker : broker[i].round \in 1 .. rounds)'
    BY <1>4 DEF IInv, TypeOK
  <2> QED
    BY <1>4, <2>1, <2>2 DEF IInv, TypeOK
<1>7. InOrderOnce'
  BY <1>4, Zenon DEF IInv, InOrderOnce
<1>8. Library'
  BY <1>1, <1>3, <1>4 DEF IInv, Library
<1>9. Known'
  BY <1>1, <1>3, <1>4, <1>5 DEF IInv, Known, Entered
<1>10. Arrived'
  BY <1>4 DEF IInv, Arrived
<1>11. Delivery'
  BY <1>1, <1>3, <1>4, <1>5 DEF IInv, Delivery
<1> QED
  BY <1>6, <1>7, <1>8, <1>9, <1>10, <1>11 DEF IInv

-----------------------------------------------------------------------------
(* The theorems.                                                            *)

\* Every step that main, the library and the broker take keeps the invariant.
LEMMA Invariance == Spec => []IInv
<1>1. Init => IInv
  <2> SUFFICES ASSUME Init PROVE IInv
    OBVIOUS
  <2>1. TypeOK
    <3>1. /\ (configured \in BOOLEAN /\ read \in BOOLEAN)
          /\ (link \in BOOLEAN /\ leaving \in BOOLEAN)
      BY DEF Init
    <3>2. /\ pc \in {"config", "init", "connect", "loop", "sensor", "pack", "publish",
                     "disconnect", "sleep", "exit", "crashed"}
          /\ conn \in {"none", "waiting", "up", "down"}
      BY DEF Init
    <3>3. /\ (rc \in {0, 1} /\ msg \in 0 .. MaxRounds)
          /\ (rounds \in 0 .. MaxRounds /\ faults \in 0 .. MaxFaults)
      BY PublisherAssumption DEF Init
    <3>4. queue \in Seq([round : 0 .. MaxRounds, read : BOOLEAN]) /\ Len(queue) <= 2
      BY DEF Init
    <3>5. /\ \A i \in DOMAIN broker : broker[i].round \in 1 .. rounds
          /\ accepted \cup cut \cup unsent \cup taken \subseteq 1 .. rounds
      BY DEF Init
    <3> QED
      BY <3>1, <3>2, <3>3, <3>4, <3>5 DEF TypeOK
  <2>2. InOrderOnce /\ Library /\ Delivery
    BY DEF Init, InOrderOnce, Library, Delivery
  <2>3. <<>> # <<Current>> /\ <<>> # <<Current, Disconnect>>
    OBVIOUS
  <2>4. Known /\ Arrived
    BY <2>3 DEF Init, Known, Arrived, Entered
  <2> QED
    BY <2>1, <2>2, <2>4 DEF IInv
<1>2. IInv /\ [Next]_vars => IInv'
  <2> SUFFICES ASSUME IInv, [Next]_vars PROVE IInv'
    OBVIOUS
  <2>1. CASE UNCHANGED vars
    <3>1. UNCHANGED <<pc, configured, conn, link, leaving, queue, rc, read, msg, rounds,
                      faults, broker, accepted, cut, unsent, taken>>
      BY <2>1 DEF vars, library, history
    <3>2. Current' = Current /\ Disconnect' = Disconnect
      BY <3>1 DEF Current, Disconnect
    <3>3. TypeOK'
      BY <3>1 DEF IInv, TypeOK
    <3>4. InOrderOnce'
      BY <3>1, Zenon DEF IInv, InOrderOnce
    <3>5. Library' /\ Known'
      BY <3>1, <3>2 DEF IInv, Library, Known, Entered
    <3>6. Arrived' /\ Delivery'
      BY <3>1, <3>2 DEF IInv, Arrived, Delivery
    <3> QED
      BY <3>3, <3>4, <3>5, <3>6 DEF IInv
  <2>2. CASE Program
    BY <2>2, MainStep, ConnectStep, GetTemperatureStep, RenderStep, RenderFailsStep, PublishStep,
       PublishFailsStep, LeaveStep, NoticeStep, ReconnectStep, WriteStep DEF Program
  <2>3. CASE Answered \/ Lose
    BY <2>3, AnsweredStep, LoseStep
  <2> QED
    BY <2>1, <2>2, <2>3 DEF Next
<1> QED
  BY <1>1, <1>2, PTL DEF Spec

\* Every variable is in its range, the library never holds more than one message and
\* the packet that ends the connection, and the broker gets each message once, in
\* order, with the reading of its own callback, and none over a connection it refused
\* (mqtt1.c:72-86, 226-264).
THEOREM PublisherConsistent == Spec => []Consistent
<1>1. IInv => Consistent
  BY DEF IInv, Consistent
<1> QED
  BY <1>1, Invariance, PTL

\* An accepted callback whose connection held has its reading at the broker when the
\* loop returns, though mosquitto_disconnect is called right behind
\* mosquitto_publish (mqtt1.c:256-263, 82-86).
THEOREM PublisherDelivers == Spec => []DeliveredUnlessCut
<1>1. IInv => DeliveredUnlessCut
  <2> SUFFICES ASSUME IInv, pc = "sleep", rounds \in accepted \ (cut \cup unsent)
               PROVE  \E i \in DOMAIN broker : broker[i].round = rounds
    BY DEF DeliveredUnlessCut
  <2>1. queue = <<>>
    BY DEF IInv, Library
  <2>2. <<>> # <<Current, Disconnect>>
    OBVIOUS
  <2> QED
    BY <2>1, <2>2 DEF IInv, Delivery
<1> QED
  BY <1>1, Invariance, PTL

=============================================================================
