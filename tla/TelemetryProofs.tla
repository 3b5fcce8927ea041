-------------------------- MODULE TelemetryProofs ---------------------------
(***************************************************************************)
(* Proofs about the collecting server, and about clients, TCP and server   *)
(* together, for every number of clients, connections, descriptors and     *)
(* every bound.  The server: events name the connection they were reported *)
(* for and no descriptor is forgotten; and, when a read() returns one      *)
(* message (WholeReads), the rows are the messages that were sent, in      *)
(* their order, and none is gone without a reason.  All together: what the *)
(* clients do is what Server allows its environment, so that the server    *)
(* keeps its promises beside them; each client keeps the promise of        *)
(* StoreForward; and, under WholeReads, no sample vanishes without a known *)
(* failure, none is stored twice but for a row that was not deleted, and   *)
(* the server's table keeps the order of sampling but for rows behind live *)
(* readings.                                                               *)
(***************************************************************************)
EXTENDS Telemetry, FiniteSetTheorems, SequenceTheorems, TLAPS

-----------------------------------------------------------------------------
(* The inductive invariant.                                                 *)

\* The message that is being handled names a descriptor the server has open; two
\* events of a batch have different descriptors, and none that of that message.
Separate ==
  /\ \A d, e \in batch \ {Listen} : d.fd = e.fd => d = e
  /\ pc = "write" =>
       /\ current \in Events
       /\ \A e \in batch \ {Listen} : e.fd # current.fd

\* Descriptors that are open and not waited for.
Stray == {f \in Fds : owner[f] # NoConn} \ watched

\* A connection has one descriptor, or one place in the kernel's queue.
Placed ==
  /\ \A f \in Fds : owner[f] # NoConn => net[owner[f]] # "idle"
  /\ \A f, g \in Fds : owner[f] = owner[g] /\ owner[f] # NoConn => f = g
  /\ \A i \in DOMAIN backlog :
       /\ net[backlog[i]] # "idle"
       /\ \A f \in Fds : owner[f] # backlog[i]
  /\ \A i, j \in DOMAIN backlog : backlog[i] = backlog[j] => i = j

\* A message starts at position i of w, if w goes that far.
Begins(w, i) == i \in DOMAIN w => w[i].field = "id"

\* At position i of w are the three words of one message.
MessageAt(w, i) ==
  /\ i + 2 \in DOMAIN w
  /\ w[i] = Word(w[i].of, "id")
  /\ w[i + 1] = Word(w[i].of, "temp")
  /\ w[i + 2] = Word(w[i].of, "time")

\* w is a sequence of messages, each of which a NUL may follow.
Framed(w) ==
  /\ Begins(w, 1)
  /\ \A i \in DOMAIN w : w[i].field = "id" =>
       /\ MessageAt(w, i)
       /\ \/ Begins(w, i + 3)
          \/ w[i + 3] = Nul /\ Begins(w, i + 4)

\* The messages of w are numbered upwards.
Ascending(w) ==
  \A i, j \in DOMAIN w : i < j /\ w[i] # Nul /\ w[j] # Nul =>
    /\ w[i].of[2] <= w[j].of[2]
    /\ w[j].field = "id" => w[i].of[2] < w[j].of[2]

\* The words of w are those of messages sent on c.
SentOn(c, w) ==
  \A i \in DOMAIN w : w[i] # Nul =>
    w[i].of \in Msgs /\ w[i].of[1] = c /\ w[i].of[2] <= sent[c]

Streams ==
  WholeReads =>
    \A c \in Conns : Framed(rx[c]) /\ Ascending(rx[c]) /\ SentOn(c, rx[c])

TypeInv == Consistent /\ Separate /\ IsFiniteSet(Stray) /\ Placed /\ Streams

\* What buf holds between read() and INSERT is one whole message.
HeldMsg == buf[1].of
Handling == pc \in {"write", "store"}
WasSent(m) == m \in Msgs /\ m[2] <= sent[m[1]]
HeldWhole ==
  Handling =>
    /\ WasSent(HeldMsg)
    /\ buf[1] = Word(HeldMsg, "id")
    /\ buf[2] = Word(HeldMsg, "temp")
    /\ buf[3] = Word(HeldMsg, "time")

\* The rows are messages that were sent.
RowsSent ==
  \A i \in DOMAIN rows : WasSent(rows[i].time.of) /\ rows[i] = RowOf(rows[i].time.of)

\* On a connection m comes before n.
Before(m, n) == m[1] = n[1] => m[2] < n[2]

\* Rows come before the message being handled, and both before what is not read.
Sequence ==
  /\ StoredInOrder
  /\ \A i \in DOMAIN rows : Handling => Before(rows[i].time.of, HeldMsg)
  /\ \A c \in Conns : \A k \in DOMAIN rx[c] : rx[c][k] # Nul =>
       /\ \A i \in DOMAIN rows : Before(rows[i].time.of, rx[c][k].of)
       /\ Handling => Before(HeldMsg, rx[c][k].of)

DataInv == HeldWhole /\ RowsSent /\ Sequence /\ Accounted

-----------------------------------------------------------------------------
(* Sequences of words.                                                      *)

\* What Append makes of a sequence.
LEMMA AppendAt ==
  ASSUME NEW S, NEW s \in Seq(S), NEW e \in S
  PROVE  /\ Append(s, e) \in Seq(S) /\ Len(Append(s, e)) = Len(s) + 1
         /\ DOMAIN Append(s, e) = 1 .. Len(s) + 1
         /\ \A i \in 1 .. Len(s) : Append(s, e)[i] = s[i]
         /\ Append(s, e)[Len(s) + 1] = e
<1>1. /\ Append(s, e) \in Seq(S) /\ Len(Append(s, e)) = Len(s) + 1
      /\ \A i \in 1 .. Len(s) : Append(s, e)[i] = s[i]
      /\ Append(s, e)[Len(s) + 1] = e
  BY AppendProperties
<1> QED
  BY <1>1, LenProperties

\* What After leaves of a sequence.
LEMMA AfterAt ==
  ASSUME NEW S, NEW w \in Seq(S), NEW n \in 1 .. Len(w)
  PROVE  /\ After(w, n) \in Seq(S)
         /\ DOMAIN After(w, n) = 1 .. Len(w) - n
         /\ \A i \in DOMAIN After(w, n) :
              i \in Nat \ {0} /\ i + n \in DOMAIN w /\ After(w, n)[i] = w[i + n]
<1> DEFINE v == SubSeq(w, n + 1, Len(w))
<1>1. Len(w) \in Nat /\ DOMAIN w = 1 .. Len(w)
  BY LenProperties
<1>2. \A i \in n + 1 .. Len(w) : w[i] \in S
  BY <1>1, ElementOfSeq
<1>3. /\ v \in Seq(S) /\ Len(v) = Len(w) - n
      /\ \A i \in 1 .. Len(w) - n : v[i] = w[n + i]
  <2>1. n + 1 \in Int /\ Len(w) \in Int
    BY <1>1
  <2>2. /\ v \in Seq(S)
        /\ Len(v) = IF n + 1 <= Len(w) THEN Len(w) - (n + 1) + 1 ELSE 0
        /\ \A i \in 1 .. Len(w) - (n + 1) + 1 : v[i] = w[n + 1 + i - 1]
    BY <1>2, <2>1, SubSeqProperties
  <2> HIDE DEF v
  <2>3. Len(v) = Len(w) - n
    <3>1. n \in Int /\ 1 <= n /\ n <= Len(w) /\ Len(w) \in Int
      BY <1>1
    <3>2. CASE n = Len(w)
      BY <2>2, <3>1, <3>2
    <3>3. CASE n < Len(w)
      <4>1. n + 1 <= Len(w) /\ Len(w) - (n + 1) + 1 = Len(w) - n
        BY <3>1, <3>3
      <4> QED
        BY <2>2, <4>1
    <3> QED
      BY <3>1, <3>2, <3>3
  <2>4. ASSUME NEW i \in 1 .. Len(w) - n PROVE v[i] = w[n + i]
    <3>1. i \in 1 .. Len(w) - (n + 1) + 1 /\ n + 1 + i - 1 = n + i
      BY <1>1
    <3> QED
      BY <2>2, <3>1
  <2> QED
    BY <2>2, <2>3, <2>4
<1>4. DOMAIN v = 1 .. Len(w) - n
  BY <1>3, LenProperties
<1> HIDE DEF v
<1>5. ASSUME NEW i \in DOMAIN v
      PROVE  i \in Nat \ {0} /\ i + n \in DOMAIN w /\ v[i] = w[i + n]
  <2>1. i \in 1 .. Len(w) - n /\ v[i] = w[n + i]
    BY <1>3, <1>4
  <2>2. i \in Nat \ {0} /\ n + i = i + n /\ i + n \in 1 .. Len(w)
    BY <1>1, <2>1
  <2> QED
    BY <1>1, <2>1, <2>2
<1> QED
  BY <1>3, <1>4, <1>5 DEF v, After

\* What a concatenation holds.
LEMMA ConcatAt ==
  ASSUME NEW S, NEW w \in Seq(S), NEW v \in Seq(S)
  PROVE  /\ w \o v \in Seq(S)
         /\ DOMAIN (w \o v) = 1 .. Len(w) + Len(v)
         /\ \A i \in 1 .. Len(w) : (w \o v)[i] = w[i]
         /\ \A i \in 1 .. Len(v) : (w \o v)[Len(w) + i] = v[i]
<1>1. /\ w \o v \in Seq(S) /\ Len(w \o v) = Len(w) + Len(v)
      /\ \A i \in 1 .. Len(w) + Len(v) :
           (w \o v)[i] = IF i <= Len(w) THEN w[i] ELSE v[i - Len(w)]
  BY ConcatProperties
<1>2. Len(w) \in Nat /\ Len(v) \in Nat
  BY LenProperties
<1>3. DOMAIN (w \o v) = 1 .. Len(w) + Len(v)
  BY <1>1, LenProperties
<1> DEFINE u == w \o v
<1> HIDE DEF u
<1>4. \A i \in 1 .. Len(w) : u[i] = w[i]
  BY <1>1, <1>2 DEF u
<1>5. ASSUME NEW i \in 1 .. Len(v) PROVE u[Len(w) + i] = v[i]
  <2>1. /\ Len(w) + i \in 1 .. Len(w) + Len(v) /\ ~(Len(w) + i <= Len(w))
        /\ Len(w) + i - Len(w) = i
    BY <1>2
  <2> QED
    BY <1>1, <2>1 DEF u
<1> QED
  BY <1>1, <1>3, <1>4, <1>5 DEF u

\* The words of a message, padded or not.
LEMMA TextAt ==
  ASSUME NEW m \in Msgs, NEW v \in {Text(m), Padded(m)}
  PROVE  /\ v \in Seq(Words) /\ Len(v) \in {3, 4} /\ DOMAIN v = 1 .. Len(v)
         /\ v[1] = Word(m, "id") /\ v[2] = Word(m, "temp") /\ v[3] = Word(m, "time")
         /\ Len(v) = 4 => v[4] = Nul
<1> SUFFICES
      /\ v \in Seq(Words) /\ Len(v) \in {3, 4}
      /\ v[1] = Word(m, "id") /\ v[2] = Word(m, "temp") /\ v[3] = Word(m, "time")
      /\ Len(v) = 4 => v[4] = Nul
  BY LenProperties
<1>1. /\ Word(m, "id") \in Words /\ Word(m, "temp") \in Words
      /\ Word(m, "time") \in Words /\ Nul \in Words
  BY DEF Word, Words, Nul
<1>2. /\ Text(m) \in Seq(Words) /\ Len(Text(m)) = 3
      /\ Text(m)[1] = Word(m, "id") /\ Text(m)[2] = Word(m, "temp")
      /\ Text(m)[3] = Word(m, "time")
  BY <1>1 DEF Text
<1>3. CASE v = Text(m)
  BY <1>2, <1>3
<1>4. CASE v = Padded(m)
  <2>1. /\ Append(Text(m), Nul) \in Seq(Words)
        /\ Len(Append(Text(m), Nul)) = Len(Text(m)) + 1
        /\ \A i \in 1 .. Len(Text(m)) : Append(Text(m), Nul)[i] = Text(m)[i]
        /\ Append(Text(m), Nul)[Len(Text(m)) + 1] = Nul
    <3>1. Text(m) \in Seq(Words) /\ Nul \in Words
      BY <1>1, <1>2
    <3> QED
      BY ONLY <3>1, AppendAt
  <2> QED
    BY <1>2, <1>4, <2>1 DEF Padded
<1> QED
  BY <1>3, <1>4

\* The messages that wait in a socket are those of its words.
LEMMA UnreadIs ==
  ASSUME NEW c
  PROVE  Unread(c) = {rx[c][i].of : i \in DOMAIN rx[c]} \ {NoMsg}
BY DEF Unread, Range

\* An empty socket holds no message.
LEMMA UnreadNone ==
  ASSUME NEW c, rx[c] = <<>>
  PROVE  Unread(c) = {}
<1>1. DOMAIN rx[c] = {}
  BY EmptySeq
<1> QED
  BY <1>1, UnreadIs

\* The messages in a socket, and the one being handled, are messages.
LEMMA UnreadMsgs ==
  ASSUME TypeOK
  PROVE  /\ \A c \in Conns : Unread(c) \subseteq Msgs
         /\ Held \subseteq Msgs
<1>1. ASSUME NEW c \in Conns PROVE Unread(c) \subseteq Msgs
  <2>1. \A i \in DOMAIN rx[c] : rx[c][i] \in Words
    BY ElementOfSeq, LenProperties DEF TypeOK
  <2>2. \A i \in DOMAIN rx[c] : rx[c][i].of \in Msgs \cup {NoMsg}
    BY <2>1 DEF Words
  <2> QED
    BY <2>2, UnreadIs
<1>2. Held \subseteq Msgs
  <2>1. \A i \in 1 .. 3 : buf[i].of \in Msgs \cup {NoMsg}
    BY DEF TypeOK, Words
  <2> QED
    BY <2>1 DEF Held
<1> QED
  BY <1>1, <1>2

-----------------------------------------------------------------------------
(* Types.                                                                   *)

\* The initial state is well typed.
LEMMA TypeInit == Init => TypeOK
<1>1. Junk \in Words
  BY DEF Junk, Word, Words
<1>2. /\ <<>> \in Seq(Conns) /\ <<>> \in Seq(Words)
      /\ <<>> \in Seq([{"id", "temp", "time"} -> Words])
  BY EmptySeq
<1>3. /\ 0 \in 0 .. EchoCap /\ 0 \in 0 .. MaxFaults /\ 0 \in 0 .. MaxAddFaults
      /\ 0 \in 0 .. MaxRuns /\ 0 \in 0 .. MaxMsgs
  BY ServerAssumption
<1> HIDE DEF Junk
<1> SUFFICES ASSUME Init PROVE TypeOK
  OBVIOUS
<1>4. /\ buf \in [1 .. 3 -> Words] /\ fields \in [{"id", "temp", "time"} -> Words]
      /\ owner \in [Fds -> Conns \cup {NoConn}]
  BY <1>1 DEF Init, NoFields
<1>5. /\ net \in [Conns -> {"idle", "open", "fin", "doomed", "broken", "reset", "gone"}]
      /\ rx \in [Conns -> Seq(Words)] /\ echoes \in [Conns -> 0 .. EchoCap]
      /\ sent \in [Conns -> 0 .. MaxMsgs]
  BY <1>2, <1>3 DEF Init
<1> QED
  BY <1>2, <1>3, <1>4, <1>5 DEF Init, TypeOK

\* Closing the descriptor of an event keeps the types.
LEMMA CloseTypes ==
  ASSUME TypeOK, NEW f \in Fds, NEW thrown \in SUBSET Msgs, Close(f, thrown)
  PROVE  /\ owner' \in [Fds -> Conns \cup {NoConn}] /\ watched' \subseteq Fds
         /\ net' \in [Conns -> {"idle", "open", "fin", "doomed", "broken", "reset", "gone"}]
         /\ rx' \in [Conns -> Seq(Words)]
         /\ echoes' \in [Conns -> 0 .. EchoCap]
         /\ lost' \subseteq Msgs
         /\ UNCHANGED <<listening, backlog>>
<1>1. <<>> \in Seq(Words) /\ 0 \in 0 .. EchoCap
  BY ServerAssumption, EmptySeq
<1> QED
  BY <1>1 DEF Close, TypeOK

\* The end of the process keeps the types.
LEMMA EndsTypes ==
  ASSUME TypeOK, Ends, lost' = lost \cup Held \cup UNION {Unread(c) : c \in Conns},
         UNCHANGED <<rows, bounds, sent>>
  PROVE  TypeOK'
<1>1. Junk \in Words
  BY DEF Junk, Word, Words
<1>2. lost' \subseteq Msgs
  BY UnreadMsgs DEF TypeOK
<1>3. <<>> \in Seq(Words) /\ <<>> \in Seq(Conns) /\ 0 \in 0 .. EchoCap
  BY ServerAssumption, EmptySeq
<1> QED
  BY <1>1, <1>2, <1>3 DEF Ends, TypeOK, NoFields, bounds

\* What str_sscanf makes of the buffer are words.
LEMMA SplitTypes ==
  ASSUME TypeOK
  PROVE  Split \in [{"id", "temp", "time"} -> Words]
<1>1. Junk \in Words
  BY DEF Junk, Word, Words
<1> DEFINE n == CHOOSE k \in 0 .. 3 :
             /\ \A i \in 1 .. k : buf[i] # Nul
             /\ k < 3 => buf[k + 1] = Nul
<1> HIDE DEF n
<1>2. /\ (IF n >= 1 THEN buf[1] ELSE fields.id) \in Words
      /\ (IF n >= 2 THEN buf[2] ELSE Junk) \in Words
      /\ (IF n >= 3 THEN buf[3] ELSE fields.time) \in Words
  BY <1>1 DEF TypeOK
<1>3. Split = [id   |-> IF n >= 1 THEN buf[1] ELSE fields.id,
               temp |-> IF n >= 2 THEN buf[2] ELSE Junk,
               time |-> IF n >= 3 THEN buf[3] ELSE fields.time]
  BY DEF Split, n
<1> QED
  BY <1>2, <1>3

\* A read() that returns whole messages finds three words at least.
LEMMA ReadLength ==
  ASSUME TypeInv, NEW c \in Conns, rx[c] # <<>>, NEW n \in ReadLens(rx[c])
  PROVE  /\ n \in 1 .. Len(rx[c])
         /\ WholeReads => n \in {3, 4}
<1>1. rx[c] \in Seq(Words) /\ Len(rx[c]) \in Nat \ {0} /\ DOMAIN rx[c] = 1 .. Len(rx[c])
  BY LenProperties, EmptySeq DEF TypeInv, Consistent, TypeOK
<1>2. CASE WholeReads
  <2>1. Framed(rx[c])
    BY <1>2 DEF TypeInv, Streams
  <2>2. 1 \in DOMAIN rx[c]
    BY <1>1
  <2>3. 3 \in DOMAIN rx[c]
    BY <2>1, <2>2 DEF Framed, Begins, MessageAt
  <2>4. n = MessageLen(rx[c])
    BY <1>2 DEF ReadLens
  <2>5. n = 3 \/ (n = 4 /\ Len(rx[c]) > 3)
    BY <2>4 DEF MessageLen
  <2> QED
    BY <1>1, <2>3, <2>5
<1>3. CASE ~WholeReads
  BY <1>3 DEF ReadLens
<1> QED
  BY <1>2, <1>3

\* An event of a batch has a descriptor and a connection.
LEMMA EventTyped ==
  ASSUME TypeOK, NEW e \in batch, e # Listen
  PROVE  e \in Events /\ e.fd \in Fds /\ e.conn \in Conns /\ e.hup \in BOOLEAN
BY DEF TypeOK, Events

\* epoll_wait() reports descriptors of connections.
LEMMA ReadyTypes ==
  ASSUME TypeOK, OpenIsWatched
  PROVE  /\ Ready \subseteq Events \cup {Listen}
         /\ \A e \in Ready \ {Listen} : e.fd \in watched /\ owner[e.fd] = e.conn
         /\ \A d, e \in Ready \ {Listen} : d.fd = e.fd => d = e
<1>1. \A f \in watched : f \in Fds /\ owner[f] \in Conns
  BY DEF TypeOK, OpenIsWatched
<1>2. \A c : HangsUp(c) \in BOOLEAN
  BY DEF HangsUp
<1> DEFINE Reported(f) == [fd |-> f, conn |-> owner[f], hup |-> HangsUp(owner[f])]
<1>3. \A e \in Ready \ {Listen} : \E f \in watched : e = Reported(f)
  BY DEF Ready
<1>4. \A f \in watched : Reported(f) \in Events
  BY <1>1, <1>2 DEF Events
<1> QED
  BY <1>3, <1>4

\* Every step keeps the types.
LEMMA TypeStep == TypeInv /\ [Next]_vars => TypeOK'
<1> SUFFICES ASSUME TypeInv, [Next]_vars
             PROVE  TypeOK'
  OBVIOUS
<1>1. TypeOK /\ EventsCurrent /\ OpenIsWatched /\ Separate
  BY DEF TypeInv, Consistent
<1> USE <1>1, ServerAssumption
<1>2. CASE Start
  BY <1>2 DEF Start, TypeOK, program, network
<1>3. CASE Wait
  BY <1>3, ReadyTypes DEF Wait, TypeOK, epoll, network, bounds
<1>4. CASE Handle
  <2> USE <1>4
  <2>1. UNCHANGED <<rows, bounds, sent>> /\ pc = "events"
    BY DEF Handle
  <2>2. ASSUME NEW e \in batch, HangUp(e) PROVE TypeOK'
    <3>1. e.fd \in Fds /\ Unread(e.conn) \in SUBSET Msgs
      BY <2>2, EventTyped, UnreadMsgs DEF HangUp
    <3>2. Close(e.fd, Unread(e.conn))
      BY <2>2 DEF HangUp
    <3> QED
      BY <2>1, <2>2, <3>1, <3>2, CloseTypes DEF HangUp, NextEvent, TypeOK, bounds
  <2>3. ASSUME NEW e \in batch, ReadEnds(e) PROVE TypeOK'
    <3>1. e.fd \in Fds /\ {} \in SUBSET Msgs
      BY <2>3, EventTyped DEF ReadEnds
    <3>2. Close(e.fd, {})
      BY <2>3 DEF ReadEnds
    <3> QED
      BY <2>1, <2>3, <3>1, <3>2, CloseTypes DEF ReadEnds, NextEvent, TypeOK, bounds
  <2>4. ASSUME NEW e \in batch, Read(e) PROVE TypeOK'
    <3>1. e \in Events /\ e.conn \in Conns
      BY <2>4, EventTyped DEF Read
    <3>2. PICK n \in ReadLens(rx[e.conn]) :
            /\ buf' = Overlaid(n, rx[e.conn])
            /\ rx' = [rx EXCEPT ![e.conn] = After(rx[e.conn], n)]
      BY <2>4 DEF Read
    <3>3. n \in 1 .. Len(rx[e.conn]) /\ rx[e.conn] \in Seq(Words)
      BY <2>4, <3>1, ReadLength DEF Read, TypeOK
    <3>4. After(rx[e.conn], n) \in Seq(Words)
      BY <3>3, AfterAt
    <3>5. rx' \in [Conns -> Seq(Words)]
      BY <3>2, <3>4 DEF TypeOK
    <3>6. buf' \in [1 .. 3 -> Words]
      <4>1. \A i \in 1 .. 3 : i <= n => rx[e.conn][i] \in Words
        BY <3>3, ElementOfSeq, LenProperties
      <4> QED
        BY <3>2, <4>1 DEF Overlaid, TypeOK
    <3> QED
      BY <2>1, <2>4, <3>1, <3>5, <3>6 DEF Read, TypeOK, epoll, bounds
  <2>5. CASE Accept
    <3>1. Head(backlog) \in Conns /\ Tail(backlog) \in Seq(Conns)
      BY <2>5, HeadTailProperties DEF Accept, TypeOK
    <3> QED
      BY <2>1, <2>5, <3>1 DEF Accept, NextEvent, TypeOK, bounds
  <2>6. CASE AcceptFails
    BY <2>1, <2>6 DEF AcceptFails, NextEvent, TypeOK, bounds, epoll, network
  <2> QED
    BY <2>2, <2>3, <2>4, <2>5, <2>6 DEF Handle
<1>5. CASE HandleAddFails
  <2>1. AddFails /\ addFaults' = addFaults + 1 /\ UNCHANGED <<rows, faults, runs, sent>>
    BY <1>5 DEF HandleAddFails
  <2>2. backlog # <<>> /\ addFaults' \in 0 .. MaxAddFaults
    BY <2>1 DEF AddFails, TypeOK
  <2>3. Head(backlog) \in Conns /\ Tail(backlog) \in Seq(Conns)
    BY <2>2, HeadTailProperties DEF TypeOK
  <2>4. Range(Tail(backlog)) \subseteq Conns
    BY <2>3, ElementOfSeq, LenProperties DEF Range
  <2>5. lost' \subseteq Msgs
    <3>1. lost' = lost \cup UNION {Unread(c) : c \in Range(Tail(backlog))}
      BY <2>1 DEF AddFails
    <3>2. UNION {Unread(c) : c \in Range(Tail(backlog))} \subseteq Msgs
      BY <2>4, UnreadMsgs
    <3> QED
      BY <3>1, <3>2 DEF TypeOK
  <2>6. <<>> \in Seq(Words) /\ <<>> \in Seq(Conns)
    BY EmptySeq
  <2>7. rx' \in [Conns -> Seq(Words)] /\ backlog' \in Seq(Conns)
    BY <2>1, <2>6 DEF AddFails, TypeOK
  <2>8. owner' \in [Fds -> Conns \cup {NoConn}]
    BY <2>1, <2>3 DEF AddFails, TypeOK
  <2>9. net' \in [Conns -> {"idle", "open", "fin", "doomed", "broken", "reset", "gone"}]
    BY <2>1 DEF AddFails, TypeOK
  <2> QED
    BY <2>1, <2>2, <2>5, <2>7, <2>8, <2>9 DEF AddFails, NextEvent, TypeOK
<1>6. CASE Echo
  <2>1. current \in Events /\ current.conn \in Conns
    BY <1>6 DEF Echo, Separate, Events
  <2>2. echoes' \in [Conns -> 0 .. EchoCap]
    <3>1. \/ UNCHANGED echoes
          \/ /\ echoes[current.conn] < EchoCap
             /\ echoes' = [echoes EXCEPT ![current.conn] = echoes[current.conn] + 1]
      BY <1>6 DEF Echo
    <3>2. echoes \in [Conns -> 0 .. EchoCap]
      BY DEF TypeOK
    <3>3. echoes[current.conn] < EchoCap => echoes[current.conn] + 1 \in 0 .. EchoCap
      BY <2>1, <3>2
    <3> QED
      BY <2>1, <3>1, <3>2, <3>3
  <2>3. net' \in [Conns -> {"idle", "open", "fin", "doomed", "broken", "reset", "gone"}]
    BY <1>6, <2>1 DEF Echo, TypeOK
  <2> QED
    BY <1>6, <2>2, <2>3 DEF Echo, TypeOK, program, epoll, bounds
<1>7. CASE EchoFails
  <2>1. current \in Events /\ current.fd \in Fds /\ current.conn \in Conns
    BY <1>7 DEF EchoFails, EchoFailsThen, Separate, Events
  <2>2. Close(current.fd, Unread(current.conn) \ Held)
    BY <1>7 DEF EchoFails, EchoFailsThen
  <2>3. Unread(current.conn) \ Held \in SUBSET Msgs
    BY <2>1, UnreadMsgs
  <2> QED
    BY <1>7, <2>1, <2>2, <2>3, CloseTypes DEF EchoFails, EchoFailsThen, TypeOK, program, bounds
<1>8. CASE EchoKills
  BY <1>8, EndsTypes DEF EchoKills
<1>9. CASE Store
  <2>1. rows' \in Seq([{"id", "temp", "time"} -> Words])
    BY <1>9, SplitTypes, AppendProperties DEF Store, StoreRow, TypeOK
  <2> QED
    BY <1>9, <2>1, SplitTypes DEF Store, StoreRow, MessageDone, TypeOK, epoll, network
<1>10. CASE StoreFails
  <2>1. faults' \in 0 .. MaxFaults /\ lost' \subseteq Msgs /\ MessageDone /\ UNCHANGED rows
    BY <1>10, UnreadMsgs DEF StoreFails, TypeOK
  <2>2. fields' \in [{"id", "temp", "time"} -> Words]
    BY <2>1, SplitTypes DEF MessageDone
  <2> QED
    BY <2>1, <2>2 DEF MessageDone, TypeOK, epoll, network
<1>11. CASE Interrupt
  BY <1>11, EndsTypes DEF Interrupt
<1>12. CASE Environment
  <2>1. /\ UNCHANGED <<pc, program, epoll, rows, bounds, lost>>
        /\ \E c \in Conns : ClientConnect(c) \/ ClientSend(c) \/ ClientClose(c) \/ ResetArrives(c)
    BY <1>12 DEF Environment
  <2>2. ASSUME NEW c \in Conns, ClientConnect(c) PROVE TypeOK'
    <3>1. Append(backlog, c) \in Seq(Conns)
      BY AppendProperties DEF TypeOK
    <3> QED
      BY <2>1, <2>2, <3>1 DEF ClientConnect, TypeOK, program, epoll, bounds
  <2>3. ASSUME NEW c \in Conns, ClientSend(c) PROVE TypeOK'
    <3> DEFINE m == <<c, sent[c] + 1>>
    <3>1. m \in Msgs /\ sent[c] + 1 \in 0 .. MaxMsgs
      BY <2>3 DEF ClientSend, TypeOK, Msgs
    <3>2. PICK words \in {Text(m), Padded(m)} : rx' = [rx EXCEPT ![c] = rx[c] \o words]
      BY <2>3 DEF ClientSend
    <3> HIDE DEF m
    <3>3. words \in Seq(Words)
      BY <3>1, <3>2, TextAt
    <3>4. rx[c] \o words \in Seq(Words)
      BY <3>3, ConcatAt DEF TypeOK
    <3> QED
      BY <2>1, <2>3, <3>1, <3>2, <3>4 DEF ClientSend, TypeOK, program, epoll, bounds
  <2>4. ASSUME NEW c \in Conns, ClientClose(c) PROVE TypeOK'
    BY <2>1, <2>4 DEF ClientClose, TypeOK, program, epoll, bounds
  <2>5. ASSUME NEW c \in Conns, ResetArrives(c) PROVE TypeOK'
    BY <2>1, <2>5 DEF ResetArrives, TypeOK, program, epoll, bounds
  <2> QED
    BY <2>1, <2>2, <2>3, <2>4, <2>5
<1>13. CASE UNCHANGED vars
  BY <1>13 DEF vars, program, epoll, network, bounds, TypeOK
<1> QED
  BY <1>2, <1>3, <1>4, <1>5, <1>6, <1>7, <1>8, <1>9, <1>10, <1>11, <1>12, <1>13
     DEF Next, ServerStep

-----------------------------------------------------------------------------
(* Events and descriptors.                                                  *)

\* What EventsCurrent and Separate say stays true of the events that are left, when
\* their descriptors are left alone.
LEMMA EventsKept ==
  ASSUME EventsCurrent, Separate, batch' \subseteq batch, pc' # "write",
         \A e \in batch' \ {Listen} : owner'[e.fd] = owner[e.fd]
  PROVE  EventsCurrent' /\ Separate'
BY DEF EventsCurrent, Separate, Listen

\* Closing a descriptor leaves those of the other events alone.
LEMMA CloseOwners ==
  ASSUME TypeOK, NEW f \in Fds, NEW thrown, Close(f, thrown)
  PROVE  /\ owner'[f] = NoConn
         /\ \A g \in Fds \ {f} : owner'[g] = owner[g]
BY DEF Close, TypeOK

\* Every step keeps what an event names.
LEMMA EventsStep == TypeInv /\ [Next]_vars => EventsCurrent' /\ Separate'
<1> SUFFICES ASSUME TypeInv, [Next]_vars
             PROVE  EventsCurrent' /\ Separate'
  OBVIOUS
<1>1. TypeOK /\ EventsCurrent /\ OpenIsWatched /\ Separate
  BY DEF TypeInv, Consistent
<1>2. \A e \in batch \ {Listen} : e.fd \in Fds /\ e.conn # NoConn /\ owner[e.fd] = e.conn
  BY <1>1, EventTyped, ServerAssumption DEF EventsCurrent
<1>3. CASE Start
  BY <1>1, <1>3, EventsKept DEF Start, program
<1>4. CASE Wait
  <2>1. batch' = Ready /\ pc' = "events" /\ UNCHANGED owner
    BY <1>4 DEF Wait, epoll
  <2>2. \A e \in Ready \ {Listen} : owner[e.fd] = e.conn
    BY <1>1, ReadyTypes
  <2>3. \A d, e \in Ready \ {Listen} : d.fd = e.fd => d = e
    BY <1>1, ReadyTypes
  <2> QED
    BY <2>1, <2>2, <2>3 DEF EventsCurrent, Separate, Listen
<1>5. CASE Handle
  <2>1. ASSUME NEW e \in batch, e # Listen, NEW thrown, Close(e.fd, thrown), NextEvent(e)
        PROVE  EventsCurrent' /\ Separate'
    <3>1. batch' = batch \ {e} /\ pc' # "write"
      BY <2>1 DEF NextEvent
    <3>2. \A d \in batch' \ {Listen} : d.fd # e.fd
      BY <1>1, <2>1, <3>1 DEF Separate
    <3> QED
      BY <1>1, <1>2, <2>1, <3>1, <3>2, CloseOwners, EventsKept
  <2>2. ASSUME NEW e \in batch, HangUp(e) \/ ReadEnds(e) PROVE EventsCurrent' /\ Separate'
    BY <2>1, <2>2 DEF HangUp, ReadEnds
  <2>3. ASSUME NEW e \in batch, Read(e) PROVE EventsCurrent' /\ Separate'
    <3>1. batch' = batch \ {e} /\ current' = e /\ e # Listen /\ UNCHANGED owner
      BY <2>3 DEF Read, epoll
    <3>2. e \in Events
      BY <1>1, <3>1, EventTyped
    <3>3. EventsCurrent'
      BY <1>2, <3>1 DEF EventsCurrent, Listen
    <3>4. \A d, g \in batch' \ {Listen} : d.fd = g.fd => d = g
      BY <1>1, <3>1 DEF Separate
    <3>5. \A d \in batch' \ {Listen} : d.fd # e.fd
      BY <1>1, <3>1 DEF Separate
    <3> QED
      BY <3>1, <3>2, <3>3, <3>4, <3>5 DEF Separate, Events, Listen
  <2>4. CASE Accept
    <3>1. PICK f \in Fds : owner[f] = NoConn /\ owner' = [owner EXCEPT ![f] = Head(backlog)]
      BY <2>4 DEF Accept
    <3>2. batch' = batch \ {Listen} /\ pc' # "write"
      BY <2>4 DEF Accept, NextEvent
    <3>3. \A e \in batch' \ {Listen} : owner'[e.fd] = owner[e.fd]
      BY <1>1, <1>2, <3>1, <3>2 DEF TypeOK
    <3> QED
      BY <1>1, <3>2, <3>3, EventsKept
  <2>5. CASE AcceptFails
    BY <1>1, <2>5, EventsKept DEF AcceptFails, NextEvent, epoll
  <2> QED
    BY <1>5, <2>2, <2>3, <2>4, <2>5 DEF Handle
<1>6. CASE HandleAddFails
  <2>1. AddFails
    BY <1>6 DEF HandleAddFails
  <2>2. PICK f \in Fds : owner[f] = NoConn /\ owner' = [owner EXCEPT ![f] = Head(backlog)]
    BY <2>1 DEF AddFails
  <2>3. batch' = batch \ {Listen} /\ pc' # "write"
    BY <2>1 DEF AddFails, NextEvent
  <2>4. \A e \in batch' \ {Listen} : owner'[e.fd] = owner[e.fd]
    BY <1>1, <1>2, <2>2, <2>3 DEF TypeOK
  <2> QED
    BY <1>1, <2>3, <2>4, EventsKept
<1>7. CASE Echo
  BY <1>1, <1>7, EventsKept DEF Echo, program, epoll
<1>8. CASE EchoFails
  <2>1. /\ Close(current.fd, Unread(current.conn) \ Held)
        /\ batch' = batch /\ pc' # "write" /\ pc = "write"
    BY <1>8 DEF EchoFails, EchoFailsThen, program
  <2>2. current.fd \in Fds /\ \A e \in batch \ {Listen} : e.fd # current.fd
    BY <1>1, <2>1 DEF Separate, Events
  <2>3. \A e \in batch' \ {Listen} : owner'[e.fd] = owner[e.fd]
    BY <1>1, <1>2, <2>1, <2>2, CloseOwners
  <2> QED
    BY <1>1, <2>1, <2>3, EventsKept
<1>9. CASE EchoKills \/ Interrupt
  <2>1. batch' = {} /\ pc' # "write"
    BY <1>9 DEF EchoKills, Interrupt, Ends
  <2> QED
    BY <1>1, <2>1, EventsKept
<1>10. CASE Store \/ StoreFails
  <2>1. MessageDone
    BY <1>10 DEF Store, StoreRow, StoreFails
  <2> QED
    BY <1>1, <2>1, EventsKept DEF MessageDone, epoll
<1>11. CASE Environment \/ UNCHANGED vars
  <2>1. UNCHANGED <<pc, batch, current, owner>>
    BY <1>11 DEF Environment, vars, program, epoll
  <2> QED
    BY <1>1, <2>1 DEF EventsCurrent, Separate, Listen
<1> QED
  BY <1>3, <1>4, <1>5, <1>6, <1>7, <1>8, <1>9, <1>10, <1>11 DEF Next, ServerStep

\* Whose descriptor is whose, where a connection is, and how many descriptors were
\* forgotten.
Descriptors == OpenIsWatched /\ IsFiniteSet(Stray) /\ Placed

\* A step that moves no connection.
LEMMA PlacedSame ==
  ASSUME TypeOK, Descriptors, UNCHANGED <<owner, watched, backlog, addFaults>>,
         \A c \in Conns : net[c] # "idle" => net'[c] # "idle"
  PROVE  Descriptors'
<1>1. /\ \A f \in Fds : owner[f] # NoConn => owner[f] \in Conns
      /\ \A i \in DOMAIN backlog : backlog[i] \in Conns
  BY ElementOfSeq, LenProperties DEF TypeOK
<1> QED
  BY <1>1 DEF Descriptors, OpenIsWatched, Stray, Placed

\* The forgotten descriptors are as many as before when there are no new ones.
LEMMA StrayShrinks ==
  ASSUME TypeOK, Descriptors, Stray' \subseteq Stray, UNCHANGED addFaults
  PROVE  IsFiniteSet(Stray') /\ Cardinality(Stray') <= addFaults'
<1>1. IsFiniteSet(Stray) /\ Cardinality(Stray) <= addFaults
  BY DEF Descriptors, OpenIsWatched, Stray
<1>2. /\ IsFiniteSet(Stray') /\ Cardinality(Stray') <= Cardinality(Stray)
      /\ Cardinality(Stray) \in Nat /\ Cardinality(Stray') \in Nat
  BY <1>1, FS_Subset, FS_CardinalityType
<1> QED
  BY <1>1, <1>2 DEF TypeOK

\* close() gives a descriptor back.
LEMMA PlacedClose ==
  ASSUME TypeOK, Descriptors, NEW f \in Fds, owner[f] # NoConn, NEW thrown,
         Close(f, thrown), UNCHANGED addFaults
  PROVE  Descriptors'
<1>1. /\ owner'[f] = NoConn /\ \A g \in Fds \ {f} : owner'[g] = owner[g]
      /\ watched' = watched \ {f} /\ backlog' = backlog
      /\ \A c \in Conns : net[c] # "idle" => net'[c] # "idle"
  BY CloseOwners DEF Close, TypeOK
<1>2. Stray' \subseteq Stray
  BY <1>1 DEF Stray
<1>3. Placed'
  <2>1. /\ \A i \in DOMAIN backlog : backlog[i] \in Conns /\ backlog[i] # NoConn
        /\ \A g \in Fds : owner[g] # NoConn => owner[g] \in Conns
    BY ElementOfSeq, LenProperties, ServerAssumption DEF TypeOK
  <2> QED
    BY <1>1, <2>1 DEF Descriptors, Placed
<1>4. OpenIsWatched'
  <2>1. watched \subseteq Fds
    BY DEF TypeOK
  <2>2. Cardinality(Stray') <= addFaults'
    BY <1>2, StrayShrinks
  <2>3. \A g \in watched' : owner'[g] # NoConn
    BY <1>1, <2>1 DEF Descriptors, OpenIsWatched
  <2>4. \A g, h \in watched' : owner'[g] = owner'[h] => g = h
    BY <1>1, <2>1 DEF Descriptors, OpenIsWatched
  <2> QED
    BY <2>2, <2>3, <2>4 DEF OpenIsWatched, Stray
<1> QED
  BY <1>2, <1>3, <1>4, StrayShrinks DEF Descriptors

\* accept() takes the head of the queue to a descriptor that was free.
LEMMA AcceptMoves ==
  ASSUME TypeOK, Descriptors, backlog # <<>>, NEW f \in Fds, owner[f] = NoConn,
         owner' = [owner EXCEPT ![f] = Head(backlog)]
  PROVE  /\ owner'[f] \in Conns /\ owner'[f] = backlog[1] /\ f \notin watched
         /\ \A g \in Fds \ {f} : owner'[g] = owner[g] /\ owner[g] # owner'[f]
         /\ net[owner'[f]] # "idle"
<1>1. Len(backlog) \in Nat \ {0} /\ DOMAIN backlog = 1 .. Len(backlog) /\ Head(backlog) \in Conns
  BY LenProperties, EmptySeq, HeadTailProperties DEF TypeOK
<1>2. Head(backlog) = backlog[1] /\ 1 \in DOMAIN backlog
  BY <1>1
<1>3. owner'[f] = Head(backlog) /\ \A g \in Fds \ {f} : owner'[g] = owner[g]
  BY DEF TypeOK
<1> QED
  BY <1>1, <1>2, <1>3 DEF Descriptors, Placed, OpenIsWatched

\* An accepted connection leaves the queue and is waited for.
LEMMA PlacedAccept ==
  ASSUME TypeOK, Descriptors, Accept, UNCHANGED addFaults
  PROVE  Descriptors'
<1>1. PICK f \in Fds : /\ owner[f] = NoConn
                       /\ owner' = [owner EXCEPT ![f] = Head(backlog)]
                       /\ watched' = watched \cup {f}
  BY DEF Accept
<1>2. backlog # <<>> /\ backlog' = Tail(backlog) /\ UNCHANGED net
  BY DEF Accept
<1>3. /\ owner'[f] \in Conns /\ owner'[f] = backlog[1] /\ f \notin watched
      /\ \A g \in Fds \ {f} : owner'[g] = owner[g] /\ owner[g] # owner'[f]
      /\ net[owner'[f]] # "idle"
  BY <1>1, <1>2, AcceptMoves
<1>4. NoConn \notin Conns
  BY ServerAssumption
<1>5. \A i \in DOMAIN Tail(backlog) :
        /\ i \in Nat \ {0} /\ i + 1 \in DOMAIN backlog /\ 1 \in DOMAIN backlog
        /\ Tail(backlog)[i] = backlog[i + 1]
  <2>1. /\ Len(backlog) \in Nat \ {0} /\ DOMAIN backlog = 1 .. Len(backlog)
        /\ Tail(backlog) \in Seq(Conns) /\ Len(Tail(backlog)) = Len(backlog) - 1
        /\ \A i \in 1 .. Len(Tail(backlog)) : Tail(backlog)[i] = backlog[i + 1]
    BY <1>2, LenProperties, EmptySeq, HeadTailProperties DEF TypeOK
  <2>2. DOMAIN Tail(backlog) = 1 .. Len(backlog) - 1
    BY <2>1, LenProperties
  <2> QED
    BY <2>1, <2>2
<1>6. Stray' = Stray
  BY <1>1, <1>3, <1>4 DEF Stray
<1>7. Placed'
  <2>1. \A g \in Fds : owner'[g] # NoConn => net'[owner'[g]] # "idle"
    BY <1>2, <1>3 DEF Descriptors, Placed
  <2>2. \A g, h \in Fds : owner'[g] = owner'[h] /\ owner'[g] # NoConn => g = h
    BY <1>3 DEF Descriptors, Placed
  <2>3. \A i \in DOMAIN backlog' :
          net'[backlog'[i]] # "idle" /\ \A g \in Fds : owner'[g] # backlog'[i]
    <3> SUFFICES ASSUME NEW i \in DOMAIN Tail(backlog), NEW g \in Fds
                 PROVE  net[backlog[i + 1]] # "idle" /\ owner'[g] # backlog[i + 1]
      BY <1>2, <1>3, <1>5
    <3>1. i + 1 \in DOMAIN backlog /\ i + 1 # 1 /\ 1 \in DOMAIN backlog
      BY <1>5
    <3> QED
      BY <1>3, <3>1 DEF Descriptors, Placed
  <2>4. \A i, j \in DOMAIN backlog' : backlog'[i] = backlog'[j] => i = j
    <3> SUFFICES ASSUME NEW i \in DOMAIN Tail(backlog), NEW j \in DOMAIN Tail(backlog),
                        backlog[i + 1] = backlog[j + 1]
                 PROVE  i = j
      BY <1>2, <1>5
    <3>1. i + 1 = j + 1
      BY <1>5 DEF Descriptors, Placed
    <3> QED
      BY <1>5, <3>1
  <2> QED
    BY <2>1, <2>2, <2>3, <2>4 DEF Placed
<1>8. OpenIsWatched'
  <2>1. Cardinality(Stray') <= addFaults'
    BY <1>6, StrayShrinks
  <2>2. \A g \in watched' : owner'[g] # NoConn
    BY <1>1, <1>3, <1>4 DEF TypeOK, Descriptors, OpenIsWatched
  <2>3. \A g, h \in watched' : owner'[g] = owner'[h] => g = h
    BY <1>1, <1>3 DEF TypeOK, Descriptors, OpenIsWatched
  <2> QED
    BY <2>1, <2>2, <2>3 DEF OpenIsWatched, Stray
<1> QED
  BY <1>6, <1>7, <1>8, StrayShrinks DEF Descriptors

\* A connection whose ADD failed is one forgotten descriptor more.
LEMMA PlacedAddFails ==
  ASSUME TypeOK, Descriptors, AddFails, addFaults' = addFaults + 1
  PROVE  Descriptors'
<1>1. PICK f \in Fds : /\ owner[f] = NoConn
                       /\ owner' = [owner EXCEPT ![f] = Head(backlog)]
  BY DEF AddFails
<1>2. backlog # <<>> /\ backlog' = <<>> /\ UNCHANGED watched
  BY DEF AddFails
<1>3. /\ owner'[f] \in Conns /\ f \notin watched
      /\ \A g \in Fds \ {f} : owner'[g] = owner[g] /\ owner[g] # owner'[f]
      /\ net[owner'[f]] # "idle"
  BY <1>1, <1>2, AcceptMoves
<1>4. \A c \in Conns : net[c] # "idle" => net'[c] # "idle"
  BY DEF AddFails, TypeOK
<1>5. NoConn \notin Conns
  BY ServerAssumption
<1>6. Stray' = Stray \cup {f} /\ f \notin Stray
  BY <1>1, <1>2, <1>3, <1>5 DEF Stray
<1>7. IsFiniteSet(Stray') /\ Cardinality(Stray') <= addFaults'
  <2>1. IsFiniteSet(Stray) /\ Cardinality(Stray) <= addFaults
    BY DEF Descriptors, OpenIsWatched, Stray
  <2>2. /\ IsFiniteSet(Stray \cup {f}) /\ Cardinality(Stray \cup {f}) = Cardinality(Stray) + 1
        /\ Cardinality(Stray) \in Nat
    BY <1>6, <2>1, FS_AddElement, FS_CardinalityType
  <2> QED
    BY <1>6, <2>1, <2>2 DEF TypeOK
<1>8. Placed'
  <2>1. DOMAIN backlog' = {}
    BY <1>2, EmptySeq
  <2>2. \A g \in Fds : owner[g] \in Conns \cup {NoConn}
    BY DEF TypeOK
  <2>3. \A g \in Fds : owner'[g] # NoConn => net'[owner'[g]] # "idle"
    BY <1>3, <1>4, <2>2 DEF Descriptors, Placed
  <2>4. \A g, h \in Fds : owner'[g] = owner'[h] /\ owner'[g] # NoConn => g = h
    BY <1>3 DEF Descriptors, Placed
  <2> QED
    BY <2>1, <2>3, <2>4 DEF Placed
<1>9. OpenIsWatched'
  <2>1. \A g \in watched : g \in Fds \ {f}
    BY <1>3 DEF TypeOK
  <2> QED
    BY <1>2, <1>3, <1>7, <2>1 DEF Descriptors, OpenIsWatched, Stray
<1> QED
  BY <1>7, <1>8, <1>9 DEF Descriptors

\* The end of the process closes everything.
LEMMA PlacedEnds ==
  ASSUME TypeOK, Ends, UNCHANGED addFaults
  PROVE  Descriptors'
<1>1. owner' = [f \in Fds |-> NoConn] /\ watched' = {} /\ backlog' = <<>>
  BY DEF Ends
<1>2. Stray' = {}
  BY <1>1 DEF Stray
<1>3. IsFiniteSet(Stray') /\ Cardinality(Stray') <= addFaults'
  BY <1>2, FS_EmptySet DEF TypeOK
<1> QED
  BY <1>1, <1>3, EmptySeq DEF Descriptors, OpenIsWatched, Stray, Placed

\* A connection that is made goes to the end of the kernel's queue.
LEMMA PlacedConnect ==
  ASSUME TypeOK, Descriptors, NEW c \in Conns, ClientConnect(c),
         UNCHANGED <<owner, watched, addFaults>>
  PROVE  Descriptors'
<1>1. /\ net[c] = "idle" /\ net'[c] = "open" /\ \A d \in Conns \ {c} : net'[d] = net[d]
      /\ backlog' = Append(backlog, c)
  BY DEF ClientConnect, TypeOK
<1>2. /\ DOMAIN backlog = 1 .. Len(backlog) /\ Len(backlog) \in Nat
      /\ DOMAIN backlog' = 1 .. Len(backlog) + 1
      /\ \A i \in 1 .. Len(backlog) : backlog'[i] = backlog[i]
      /\ backlog'[Len(backlog) + 1] = c
  BY <1>1, AppendAt, LenProperties DEF TypeOK
<1>3. /\ \A f \in Fds : owner[f] # NoConn => owner[f] # c
      /\ \A i \in DOMAIN backlog : backlog[i] # c
      /\ c # NoConn
  BY <1>1, ServerAssumption DEF Descriptors, Placed
<1>4. \A i \in DOMAIN backlog' :
        \/ i \in DOMAIN backlog /\ backlog'[i] = backlog[i]
        \/ i = Len(backlog) + 1 /\ backlog'[i] = c
  BY <1>2
<1>5. Placed'
  <2>1. /\ \A i \in DOMAIN backlog : backlog[i] \in Conns
        /\ \A g \in Fds : owner[g] # NoConn => owner[g] \in Conns
    BY ElementOfSeq, LenProperties DEF TypeOK
  <2> QED
    BY <1>1, <1>3, <1>4, <2>1 DEF Descriptors, Placed
<1>6. OpenIsWatched' /\ IsFiniteSet(Stray')
  BY DEF Descriptors, OpenIsWatched, Stray
<1> QED
  BY <1>5, <1>6 DEF Descriptors

\* Every step keeps the descriptors in order.
LEMMA DescriptorsStep == TypeInv /\ [Next]_vars => Descriptors'
<1> SUFFICES ASSUME TypeInv, [Next]_vars
             PROVE  Descriptors'
  OBVIOUS
<1>1. TypeOK /\ Descriptors /\ Separate /\ EventsCurrent
  BY DEF TypeInv, Consistent, Descriptors
<1>2. CASE Start
  BY <1>1, <1>2, PlacedSame DEF Start, network
<1>3. CASE Wait
  BY <1>1, <1>3, PlacedSame DEF Wait, epoll, network, bounds
<1>4. CASE Handle
  <2>1. UNCHANGED addFaults
    BY <1>4 DEF Handle, bounds
  <2>2. ASSUME NEW e \in batch, HangUp(e) \/ ReadEnds(e) PROVE Descriptors'
    <3>1. e # Listen
      BY <2>2 DEF HangUp, ReadEnds
    <3>2. e.fd \in Fds /\ owner[e.fd] # NoConn
      BY <1>1, <3>1, EventTyped, ServerAssumption DEF EventsCurrent
    <3>3. \E thrown : Close(e.fd, thrown)
      BY <2>2 DEF HangUp, ReadEnds
    <3> QED
      BY <1>1, <2>1, <3>2, <3>3, PlacedClose
  <2>3. ASSUME NEW e \in batch, Read(e) PROVE Descriptors'
    BY <1>1, <2>1, <2>3, PlacedSame DEF Read, epoll
  <2>4. CASE Accept
    BY <1>1, <2>1, <2>4, PlacedAccept
  <2>5. CASE AcceptFails
    BY <1>1, <2>1, <2>5, PlacedSame DEF AcceptFails, epoll, network
  <2> QED
    BY <1>4, <2>2, <2>3, <2>4, <2>5 DEF Handle
<1>5. CASE HandleAddFails
  BY <1>1, <1>5, PlacedAddFails DEF HandleAddFails
<1>6. CASE Echo
  <2>1. \/ net' = net
        \/ net' = [net EXCEPT ![current.conn] = "doomed"]
    BY <1>6 DEF Echo
  <2>2. \A c \in Conns : net[c] # "idle" => net'[c] # "idle"
    BY <1>1, <2>1 DEF TypeOK
  <2> QED
    BY <1>1, <1>6, <2>2, PlacedSame DEF Echo, epoll, bounds
<1>7. CASE EchoFails
  <2>1. current.fd \in Fds /\ owner[current.fd] # NoConn
    BY <1>1, <1>7, ServerAssumption
       DEF EchoFails, EchoFailsThen, Separate, EventsCurrent, Events
  <2> QED
    BY <1>1, <1>7, <2>1, PlacedClose DEF EchoFails, EchoFailsThen, bounds
<1>8. CASE EchoKills \/ Interrupt
  BY <1>1, <1>8, PlacedEnds DEF EchoKills, Interrupt, bounds
<1>9. CASE Store \/ StoreFails
  <2>1. MessageDone
    BY <1>9 DEF Store, StoreRow, StoreFails
  <2> QED
    BY <1>1, <2>1, PlacedSame DEF MessageDone, epoll, network
<1>10. CASE Environment
  <2>1. UNCHANGED <<owner, watched, addFaults>>
    BY <1>10 DEF Environment, epoll, bounds
  <2>2. ASSUME NEW c \in Conns, ClientSend(c) \/ ClientClose(c) \/ ResetArrives(c)
        PROVE  Descriptors'
    <3>1. \/ net' = net
          \/ \E end \in {"fin", "reset", "broken"} : net' = [net EXCEPT ![c] = end]
      BY <2>2 DEF ClientSend, ClientClose, ResetArrives
    <3>2. \A d \in Conns : net[d] # "idle" => net'[d] # "idle"
      BY <1>1, <3>1 DEF TypeOK
    <3>3. backlog' = backlog
      BY <2>2 DEF ClientSend, ClientClose, ResetArrives
    <3> QED
      BY <1>1, <2>1, <3>2, <3>3, PlacedSame
  <2> QED
    BY <1>1, <1>10, <2>1, <2>2, PlacedConnect DEF Environment
<1>11. CASE UNCHANGED vars
  BY <1>1, <1>11, PlacedSame DEF vars, epoll, network, bounds
<1> QED
  BY <1>2, <1>3, <1>4, <1>5, <1>6, <1>7, <1>8, <1>9, <1>10, <1>11 DEF Next, ServerStep

-----------------------------------------------------------------------------
(* What waits in the sockets.                                               *)

\* A stream of whole messages of c.
Stream(c, w) == Framed(w) /\ Ascending(w) /\ SentOn(c, w)

\* What a read() of one message leaves is one.
LEMMA StreamAfter ==
  ASSUME NEW c \in Conns, NEW w \in Seq(Words), Stream(c, w), w # <<>>,
         NEW n \in 1 .. Len(w), n = MessageLen(w)
  PROVE  /\ Stream(c, After(w, n))
         /\ MessageAt(w, 1) /\ w[1].of \in Msgs /\ w[1].of[1] = c
         /\ \A i \in DOMAIN After(w, n) :
              /\ \E j \in DOMAIN w : After(w, n)[i] = w[j]
              /\ After(w, n)[i] # Nul => w[1].of[2] < After(w, n)[i].of[2]
         /\ \A i \in DOMAIN w : \/ w[i].of \in {w[1].of, NoMsg}
                                \/ \E j \in DOMAIN After(w, n) : After(w, n)[j] = w[i]
<1> DEFINE v == After(w, n)
<1>1. /\ DOMAIN w = 1 .. Len(w) /\ Len(w) \in Nat \ {0}
      /\ DOMAIN v = 1 .. Len(w) - n
      /\ \A i \in DOMAIN v : i \in Nat \ {0} /\ i + n \in DOMAIN w /\ v[i] = w[i + n]
  BY AfterAt, LenProperties, EmptySeq
<1> HIDE DEF v
<1>2. /\ Framed(w) /\ Ascending(w) /\ SentOn(c, w)
      /\ 1 \in DOMAIN w /\ w[1].field = "id"
  BY <1>1 DEF Stream, Framed, Begins
<1>3. MessageAt(w, 1) /\ 3 \in DOMAIN w
  BY <1>2 DEF Framed, MessageAt
<1>4. w[1] # Nul /\ w[2] # Nul /\ w[3] # Nul
  BY <1>2, <1>3 DEF MessageAt, Nul, Word
<1>5. \/ n = 3 /\ (4 \in DOMAIN w => w[4] # Nul)
      \/ n = 4 /\ 4 \in DOMAIN w /\ w[4] = Nul
  BY <1>1 DEF MessageLen
<1>6. Begins(w, 4) \/ (w[4] = Nul /\ Begins(w, 5))
  BY <1>2 DEF Framed
<1>7. n + 1 \in DOMAIN w => w[n + 1].field = "id"
  BY <1>5, <1>6 DEF Begins, Nul, Word
<1>8. Framed(v)
  <2>1. Begins(v, 1)
    BY <1>1, <1>7 DEF Begins
  <2>2. ASSUME NEW i \in DOMAIN v, v[i].field = "id"
        PROVE  /\ MessageAt(v, i)
               /\ Begins(v, i + 3) \/ (v[i + 3] = Nul /\ Begins(v, i + 4))
    <3>1. i + n \in DOMAIN w /\ w[i + n].field = "id"
      BY <1>1, <2>2
    <3>2. /\ MessageAt(w, i + n)
          /\ Begins(w, i + n + 3) \/ (w[i + n + 3] = Nul /\ Begins(w, i + n + 4))
      BY <1>2, <3>1 DEF Framed
    <3>3. \A k \in {1, 2, 3, 4} : i + n + k \in DOMAIN w => i + k \in DOMAIN v
      BY <1>1
    <3>4. \A k \in {1, 2, 3, 4} : i + k \in DOMAIN v =>
            i + n + k \in DOMAIN w /\ v[i + k] = w[i + n + k]
      <4> SUFFICES ASSUME NEW k \in {1, 2, 3, 4}, i + k \in DOMAIN v
                   PROVE  i + n + k \in DOMAIN w /\ v[i + k] = w[i + n + k]
        OBVIOUS
      <4>1. (i + k) + n \in DOMAIN w /\ v[i + k] = w[(i + k) + n]
        BY <1>1
      <4>2. (i + k) + n = i + n + k
        BY <1>1
      <4> QED
        BY <4>1, <4>2
    <3>5. i + n + 2 \in DOMAIN w
      BY <3>2 DEF MessageAt
    <3>6. i + 2 \in DOMAIN v
      BY <3>3, <3>5
    <3>7. i + 1 \in DOMAIN v
      BY <1>1, <3>6
    <3>8. MessageAt(v, i)
      BY <1>1, <3>2, <3>4, <3>6, <3>7 DEF MessageAt
    <3>9. Begins(v, i + 3) \/ (v[i + 3] = Nul /\ Begins(v, i + 4))
      <4>1. CASE i + 3 \notin DOMAIN v
        BY <4>1 DEF Begins
      <4>2. CASE i + 3 \in DOMAIN v
        <5>1. i + n + 3 \in DOMAIN w /\ v[i + 3] = w[i + n + 3]
          BY <3>4, <4>2
        <5>2. i + 4 \in DOMAIN v => i + n + 4 \in DOMAIN w /\ v[i + 4] = w[i + n + 4]
          BY <3>4
        <5> QED
          BY <3>2, <5>1, <5>2 DEF Begins
      <4> QED
        BY <4>1, <4>2
    <3> QED
      BY <3>8, <3>9
  <2> QED
    BY <2>1, <2>2 DEF Framed
<1>9. Ascending(v)
  <2> SUFFICES ASSUME NEW i \in DOMAIN v, NEW j \in DOMAIN v, i < j, v[i] # Nul, v[j] # Nul
               PROVE  /\ v[i].of[2] <= v[j].of[2]
                      /\ v[j].field = "id" => v[i].of[2] < v[j].of[2]
    BY DEF Ascending
  <2>1. i + n \in DOMAIN w /\ j + n \in DOMAIN w /\ i + n < j + n
    BY <1>1
  <2> QED
    BY <1>1, <1>2, <2>1 DEF Ascending
<1>10. SentOn(c, v)
  BY <1>1, <1>2 DEF SentOn
<1>11. w[1].of \in Msgs /\ w[1].of[1] = c
  BY <1>2, <1>4 DEF SentOn
<1>12. ASSUME NEW i \in DOMAIN v, v[i] # Nul PROVE w[1].of[2] < v[i].of[2]
  <2>1. n + 1 \in DOMAIN w /\ w[n + 1].field = "id"
    BY <1>1, <1>7
  <2>2. w[n + 1] # Nul /\ 1 < n + 1
    BY <2>1 DEF Nul, Word
  <2>3. w[1].of[2] < w[n + 1].of[2]
    BY <1>2, <1>4, <2>1, <2>2 DEF Ascending
  <2>4. w[i + n] # Nul /\ i + n \in DOMAIN w /\ v[i] = w[i + n]
    BY <1>1, <1>12
  <2>5. i = 1 \/ n + 1 < i + n
    BY <1>1
  <2>6. CASE i = 1
    <3>1. i + n = n + 1
      BY <2>6
    <3> QED
      BY <2>3, <2>4, <3>1
  <2>7. CASE n + 1 < i + n
    <3>1. w[n + 1].of[2] <= w[i + n].of[2]
      BY <1>2, <2>1, <2>2, <2>4, <2>7 DEF Ascending
    <3>2. w[1].of[2] \in Int /\ w[n + 1].of[2] \in Int /\ w[i + n].of[2] \in Int
      BY <1>2, <1>4, <2>1, <2>2, <2>4 DEF SentOn, Msgs
    <3> QED
      BY <2>3, <2>4, <3>1, <3>2
  <2> QED
    BY <2>5, <2>6, <2>7
<1>13. ASSUME NEW i \in DOMAIN w, w[i].of \notin {w[1].of, NoMsg}
       PROVE  \E j \in DOMAIN v : v[j] = w[i]
  <2>1. w[2].of = w[1].of /\ w[3].of = w[1].of
    BY <1>3 DEF MessageAt, Word
  <2>2. i > n
    <3>1. i \in Int /\ n \in {3, 4} /\ (n = 4 => w[4] = Nul) /\ 1 <= i
      BY <1>1, <1>5
    <3>2. i # 1 /\ i # 2 /\ i # 3
      BY <1>13, <2>1
    <3>3. n = 4 => i # 4
      BY <1>13, <3>1 DEF Nul, Word
    <3> QED
      BY <3>1, <3>2, <3>3
  <2>3. i - n \in DOMAIN v /\ (i - n) + n = i
    BY <1>1, <2>2
  <2> QED
    BY <1>1, <2>3
<1>14. \A i \in DOMAIN v : \E j \in DOMAIN w : v[i] = w[j]
  BY <1>1
<1> QED
  BY <1>3, <1>8, <1>9, <1>10, <1>11, <1>12, <1>13, <1>14 DEF Stream, v

\* A message more at the end of a stream of messages sent before it.
LEMMA StreamAppend ==
  ASSUME NEW c \in Conns, NEW w \in Seq(Words), NEW m \in Msgs,
         NEW v \in {Text(m), Padded(m)}, Framed(w), Ascending(w),
         \A i \in DOMAIN w : w[i] # Nul => w[i].of \in Msgs /\ w[i].of[2] < m[2]
  PROVE  /\ Framed(w \o v) /\ Ascending(w \o v)
         /\ \A i \in DOMAIN (w \o v) :
              \/ i \in DOMAIN w /\ (w \o v)[i] = w[i]
              \/ (w \o v)[i] = Nul
              \/ (w \o v)[i].of = m
         /\ \E i \in DOMAIN (w \o v) : (w \o v)[i].of = m
         /\ DOMAIN w \subseteq DOMAIN (w \o v)
<1> DEFINE u == w \o v  n == Len(w)
<1>1. /\ n \in Nat /\ DOMAIN w = 1 .. n /\ Len(v) \in {3, 4} /\ v \in Seq(Words)
      /\ v[1] = Word(m, "id") /\ v[2] = Word(m, "temp") /\ v[3] = Word(m, "time")
      /\ Len(v) = 4 => v[4] = Nul
  BY TextAt, LenProperties
<1>2. /\ DOMAIN u = 1 .. n + Len(v)
      /\ \A i \in DOMAIN w : u[i] = w[i]
      /\ \A i \in 1 .. Len(v) : u[n + i] = v[i]
  BY <1>1, ConcatAt
<1> HIDE DEF u, n
<1>3. /\ u[n + 1] = Word(m, "id") /\ u[n + 2] = Word(m, "temp") /\ u[n + 3] = Word(m, "time")
      /\ n + 4 \in DOMAIN u => u[n + 4] = Nul
      /\ n + 1 \in DOMAIN u /\ n + 3 \in DOMAIN u
  <2>1. 1 \in 1 .. Len(v) /\ 2 \in 1 .. Len(v) /\ 3 \in 1 .. Len(v)
    BY <1>1
  <2>2. u[n + 1] = v[1] /\ u[n + 2] = v[2] /\ u[n + 3] = v[3]
    BY <1>2, <2>1
  <2>3. n + 4 \in DOMAIN u => Len(v) = 4 /\ 4 \in 1 .. Len(v)
    BY <1>1, <1>2
  <2>4. n + 4 \in DOMAIN u => u[n + 4] = v[4]
    BY <1>2, <2>3
  <2>5. n + 1 \in DOMAIN u /\ n + 3 \in DOMAIN u
    BY <1>1, <1>2
  <2> QED
    BY <1>1, <2>2, <2>3, <2>4, <2>5
<1>4. \A i \in DOMAIN u : i \in DOMAIN w \/ i \in {n + 1, n + 2, n + 3, n + 4}
  <2>1. CASE Len(v) = 3
    BY <1>1, <1>2, <2>1
  <2>2. CASE Len(v) = 4
    BY <1>1, <1>2, <2>2
  <2> QED
    BY <1>1, <2>1, <2>2
<1>5. m[1] \in Conns /\ m[2] \in Int /\ m # NoMsg
  BY ServerAssumption DEF Msgs, NoMsg
<1>6. /\ u[n + 1].field = "id" /\ u[n + 1].of = m /\ u[n + 1] # Nul
      /\ u[n + 2].field = "temp" /\ u[n + 2].of = m /\ u[n + 2] # Nul
      /\ u[n + 3].field = "time" /\ u[n + 3].of = m /\ u[n + 3] # Nul
  BY <1>3 DEF Word, Nul
<1>7. \A i : Begins(w, i) /\ i \in 1 .. n + 1 => Begins(u, i)
  BY <1>1, <1>2, <1>6 DEF Begins
<1>8. Framed(u)
  <2>1. Begins(u, 1)
    BY <1>1, <1>7 DEF Framed
  <2>2. ASSUME NEW i \in DOMAIN w, u[i].field = "id"
        PROVE  /\ MessageAt(u, i)
               /\ Begins(u, i + 3) \/ (u[i + 3] = Nul /\ Begins(u, i + 4))
    <3>1. /\ MessageAt(w, i) /\ i + 2 \in DOMAIN w /\ i + 1 \in DOMAIN w
          /\ Begins(w, i + 3) \/ (w[i + 3] = Nul /\ Begins(w, i + 4))
      BY <1>1, <1>2, <2>2 DEF Framed, MessageAt
    <3>2. MessageAt(u, i)
      BY <1>1, <1>2, <3>1 DEF MessageAt
    <3>3. CASE i + 3 \notin DOMAIN w
      <4>1. Begins(w, i + 3) /\ i + 3 \in 1 .. n + 1
        BY <1>1, <3>1, <3>3 DEF Begins
      <4> QED
        BY <1>7, <3>2, <4>1
    <3>4. CASE i + 3 \in DOMAIN w
      <4>1. u[i + 3] = w[i + 3]
        BY <1>2, <3>4
      <4>2. i + 3 \in 1 .. n + 1 /\ i + 4 \in 1 .. n + 1
        BY <1>1, <3>4
      <4> QED
        BY <1>7, <3>1, <3>2, <4>1, <4>2
    <3> QED
      BY <3>3, <3>4
  <2>3. ASSUME NEW i \in DOMAIN u, i \notin DOMAIN w, u[i].field = "id"
        PROVE  /\ MessageAt(u, i)
               /\ Begins(u, i + 3) \/ (u[i + 3] = Nul /\ Begins(u, i + 4))
    <3>1. i = n + 1
      BY <1>3, <1>4, <1>6, <2>3 DEF Nul, Word
    <3>2. i + 1 = n + 2 /\ i + 2 = n + 3 /\ i + 3 = n + 4 /\ i + 4 = n + 5
      BY <1>1, <3>1
    <3>3. MessageAt(u, i)
      BY <1>3, <1>6, <3>1, <3>2 DEF MessageAt
    <3>4. i + 4 \notin DOMAIN u
      <4>1. CASE Len(v) = 3
        BY <1>1, <1>2, <3>2, <4>1
      <4>2. CASE Len(v) = 4
        BY <1>1, <1>2, <3>2, <4>2
      <4> QED
        BY <1>1, <4>1, <4>2
    <3> QED
      BY <1>3, <3>2, <3>3, <3>4 DEF Begins
  <2> QED
    BY <2>1, <2>2, <2>3 DEF Framed
<1>9. Ascending(u)
  <2> SUFFICES ASSUME NEW i \in DOMAIN u, NEW j \in DOMAIN u, i < j, u[i] # Nul, u[j] # Nul
               PROVE  /\ u[i].of[2] <= u[j].of[2]
                      /\ u[j].field = "id" => u[i].of[2] < u[j].of[2]
    BY DEF Ascending
  <2>1. CASE j \in DOMAIN w
    <3>1. i \in DOMAIN w
      BY <1>1, <1>2, <2>1
    <3> QED
      BY <1>2, <2>1, <3>1 DEF Ascending
  <2>2. CASE j \notin DOMAIN w
    <3>1. j \in {n + 1, n + 2, n + 3} /\ u[j].of = m
      BY <1>3, <1>4, <1>6, <2>2
    <3>2. CASE i \in DOMAIN w
      <4>1. u[i].of[2] < m[2] /\ u[i].of[2] \in Int
        BY <1>2, <3>2 DEF Msgs
      <4> QED
        BY <1>5, <3>1, <4>1
    <3>3. CASE i \notin DOMAIN w
      <4>1. i \in {n + 1, n + 2, n + 3} /\ u[i].of = m
        BY <1>3, <1>4, <1>6, <3>3
      <4>2. j # n + 1
        BY <1>1, <3>1, <4>1
      <4>3. u[j].field # "id"
        BY <1>6, <3>1, <4>2
      <4> QED
        BY <1>5, <3>1, <4>1, <4>3
    <3> QED
      BY <3>2, <3>3
  <2> QED
    BY <2>1, <2>2
<1>10. \A i \in DOMAIN u : (i \in DOMAIN w /\ u[i] = w[i]) \/ u[i] = Nul \/ u[i].of = m
  BY <1>2, <1>3, <1>4, <1>6
<1>11. DOMAIN w \subseteq DOMAIN u
  BY <1>1, <1>2
<1> QED
  BY <1>3, <1>6, <1>8, <1>9, <1>10, <1>11 DEF u

\* A step that empties some sockets, leaves the others alone, and sends nothing.
LEMMA StreamsKept ==
  ASSUME Streams, UNCHANGED sent, \A c \in Conns : rx'[c] \in {rx[c], <<>>}
  PROVE  Streams'
<1> SUFFICES ASSUME WholeReads, NEW c \in Conns
             PROVE  Stream(c, rx[c])'
  BY DEF Streams, Stream
<1>1. Stream(c, rx[c])
  BY DEF Streams, Stream
<1>2. CASE rx'[c] = rx[c]
  BY <1>1, <1>2 DEF Stream, SentOn
<1>3. CASE rx'[c] = <<>>
  BY <1>3, EmptySeq DEF Stream, Framed, Begins, Ascending, SentOn
<1> QED
  BY <1>2, <1>3

\* close() empties a socket.
LEMMA CloseEmpties ==
  ASSUME TypeOK, NEW f \in Fds, NEW thrown, Close(f, thrown)
  PROVE  \A c \in Conns : rx'[c] = IF c = owner[f] THEN <<>> ELSE rx[c]
BY DEF Close, TypeOK

\* A step that leaves the sockets alone, or closes some.
LEMMA SocketsKept ==
  ASSUME TypeInv, [Next]_vars,
         ~(Handle /\ \E e \in batch : Read(e)),
         ~(Environment /\ \E c \in Conns : ClientSend(c))
  PROVE  (\A c \in Conns : rx'[c] \in {rx[c], <<>>}) /\ UNCHANGED sent
<1>1. TypeOK
  BY DEF TypeInv, Consistent
<1>2. CASE Handle
  <2>1. UNCHANGED sent
    BY <1>2 DEF Handle
  <2>2. ASSUME NEW e \in batch, HangUp(e) \/ ReadEnds(e)
        PROVE  \A c \in Conns : rx'[c] \in {rx[c], <<>>}
    <3>1. e.fd \in Fds /\ \E thrown : Close(e.fd, thrown)
      BY <1>1, <2>2, EventTyped DEF HangUp, ReadEnds
    <3> QED
      BY <1>1, <3>1, CloseEmpties
  <2> QED
    BY <1>2, <2>1, <2>2 DEF Handle, Accept, AcceptFails, network
<1>3. CASE HandleAddFails
  BY <1>1, <1>3 DEF HandleAddFails, AddFails, TypeOK
<1>4. CASE EchoFails
  <2>1. current.fd \in Fds /\ \E thrown : Close(current.fd, thrown)
    BY <1>4 DEF EchoFails, EchoFailsThen, TypeInv, Separate, Events
  <2>2. \A c \in Conns : rx'[c] \in {rx[c], <<>>}
    BY <1>1, <2>1, CloseEmpties
  <2> QED
    BY <1>4, <2>2 DEF EchoFails, EchoFailsThen
<1>5. CASE EchoKills \/ Interrupt
  BY <1>1, <1>5 DEF EchoKills, Interrupt, Ends
<1>6. CASE Start \/ Wait \/ Echo \/ Store \/ StoreFails
  BY <1>6 DEF Start, Wait, Echo, Store, StoreRow, StoreFails, MessageDone, network
<1>7. CASE Environment
  <2>1. \E c \in Conns : ClientConnect(c) \/ ClientClose(c) \/ ResetArrives(c)
    BY <1>7 DEF Environment
  <2> QED
    BY <2>1 DEF ClientConnect, ClientClose, ResetArrives
<1>8. CASE UNCHANGED vars
  BY <1>8 DEF vars, network
<1> QED
  BY <1>2, <1>3, <1>4, <1>5, <1>6, <1>7, <1>8 DEF Next, ServerStep

\* What a read() of a whole message does.
LEMMA ReadMoves ==
  ASSUME TypeInv, WholeReads, NEW e \in batch, Read(e)
  PROVE  LET c == e.conn IN
         /\ c \in Conns /\ Stream(c, rx'[c])
         /\ \A d \in Conns \ {c} : rx'[d] = rx[d]
         /\ MessageAt(rx[c], 1) /\ 1 \in DOMAIN rx[c]
         /\ rx[c][1].of \in Msgs /\ rx[c][1].of[1] = c /\ rx[c][1].of[2] <= sent[c]
         /\ \A i \in 1 .. 3 : buf'[i] = rx[c][i]
         /\ \A i \in DOMAIN rx'[c] :
              /\ \E j \in DOMAIN rx[c] : rx'[c][i] = rx[c][j]
              /\ rx'[c][i] # Nul => rx[c][1].of[2] < rx'[c][i].of[2]
         /\ \A i \in DOMAIN rx[c] : \/ rx[c][i].of \in {rx[c][1].of, NoMsg}
                                    \/ \E j \in DOMAIN rx'[c] : rx'[c][j] = rx[c][i]
<1> DEFINE c == e.conn
<1>1. TypeOK /\ c \in Conns /\ rx[c] # <<>> /\ rx[c] \in Seq(Words)
  BY EventTyped DEF Read, TypeInv, Consistent, TypeOK
<1>2. PICK n \in ReadLens(rx[c]) : /\ buf' = Overlaid(n, rx[c])
                                   /\ rx' = [rx EXCEPT ![c] = After(rx[c], n)]
  BY DEF Read
<1>3. n = MessageLen(rx[c]) /\ n \in 1 .. Len(rx[c]) /\ n \in {3, 4}
  BY <1>1, ReadLength DEF ReadLens
<1>4. rx'[c] = After(rx[c], n) /\ \A d \in Conns \ {c} : rx'[d] = rx[d]
  BY <1>1, <1>2 DEF TypeOK
<1>5. Stream(c, rx[c])
  BY <1>1 DEF TypeInv, Streams, Stream
<1>6. 1 \in DOMAIN rx[c]
  BY <1>1, LenProperties, EmptySeq
<1>7. \A i \in 1 .. 3 : buf'[i] = rx[c][i]
  BY <1>2, <1>3 DEF Overlaid
<1>8. /\ Stream(c, rx'[c]) /\ MessageAt(rx[c], 1)
      /\ rx[c][1].of \in Msgs /\ rx[c][1].of[1] = c
      /\ \A i \in DOMAIN rx'[c] :
           /\ \E j \in DOMAIN rx[c] : rx'[c][i] = rx[c][j]
           /\ rx'[c][i] # Nul => rx[c][1].of[2] < rx'[c][i].of[2]
      /\ \A i \in DOMAIN rx[c] : \/ rx[c][i].of \in {rx[c][1].of, NoMsg}
                                 \/ \E j \in DOMAIN rx'[c] : rx'[c][j] = rx[c][i]
  BY <1>1, <1>3, <1>4, <1>5, StreamAfter
<1>9. rx[c][1].of[2] <= sent[c]
  BY <1>5, <1>6, <1>8 DEF Stream, SentOn, MessageAt, Word, Nul
<1> QED
  BY <1>1, <1>4, <1>6, <1>7, <1>8, <1>9

\* What a client that sends adds to its socket.
LEMMA SendMoves ==
  ASSUME TypeInv, NEW c \in Conns, ClientSend(c)
  PROVE  LET m == <<c, sent[c] + 1>> IN
         /\ m \in Msgs /\ sent'[c] = sent[c] + 1 /\ sent[c] \in Nat
         /\ \A d \in Conns \ {c} : rx'[d] = rx[d] /\ sent'[d] = sent[d]
         /\ WholeReads =>
              /\ Framed(rx'[c]) /\ Ascending(rx'[c])
              /\ \A i \in DOMAIN rx'[c] :
                   \/ i \in DOMAIN rx[c] /\ rx'[c][i] = rx[c][i]
                   \/ rx'[c][i] = Nul
                   \/ rx'[c][i].of = m
              /\ \A i \in DOMAIN rx[c] : \E j \in DOMAIN rx'[c] : rx'[c][j].of = rx[c][i].of
              /\ \E i \in DOMAIN rx'[c] : rx'[c][i].of = m
<1> DEFINE m == <<c, sent[c] + 1>>
<1>1. TypeOK
  BY DEF TypeInv, Consistent
<1>2. m \in Msgs /\ sent'[c] = sent[c] + 1 /\ sent[c] \in Nat /\ rx[c] \in Seq(Words)
  <2>1. /\ sent[c] \in 0 .. MaxMsgs /\ sent[c] < MaxMsgs /\ rx[c] \in Seq(Words)
        /\ sent' = [sent EXCEPT ![c] = sent[c] + 1]
    BY <1>1 DEF ClientSend, TypeOK
  <2>2. sent'[c] = sent[c] + 1
    BY <1>1, <2>1 DEF TypeOK
  <2>3. sent[c] + 1 \in 1 .. MaxMsgs
    BY <2>1, ServerAssumption
  <2> QED
    BY <2>1, <2>2, <2>3 DEF Msgs
<1>3. PICK words \in {Text(m), Padded(m)} : rx' = [rx EXCEPT ![c] = rx[c] \o words]
  BY DEF ClientSend
<1>4. rx'[c] = rx[c] \o words /\ \A d \in Conns \ {c} : rx'[d] = rx[d] /\ sent'[d] = sent[d]
  BY <1>1, <1>3 DEF ClientSend, TypeOK
<1>5. m[2] = sent[c] + 1
  OBVIOUS
<1> HIDE DEF m
<1>6. ASSUME WholeReads
      PROVE  /\ Framed(rx[c]) /\ Ascending(rx[c])
             /\ \A i \in DOMAIN rx[c] : rx[c][i] # Nul => rx[c][i].of \in Msgs /\ rx[c][i].of[2] < m[2]
  <2>1. Framed(rx[c]) /\ Ascending(rx[c]) /\ SentOn(c, rx[c])
    BY <1>6 DEF TypeInv, Streams
  <2> QED
    BY <1>2, <1>5, <2>1 DEF SentOn, Msgs
<1>7. ASSUME WholeReads
      PROVE  /\ Framed(rx'[c]) /\ Ascending(rx'[c])
             /\ \A i \in DOMAIN rx'[c] :
                  \/ i \in DOMAIN rx[c] /\ rx'[c][i] = rx[c][i]
                  \/ rx'[c][i] = Nul
                  \/ rx'[c][i].of = m
             /\ \E i \in DOMAIN rx'[c] : rx'[c][i].of = m
             /\ DOMAIN rx[c] \subseteq DOMAIN rx'[c]
  <2> DEFINE longer == rx[c] \o words
  <2>1. /\ Framed(longer) /\ Ascending(longer)
        /\ \A i \in DOMAIN longer :
             \/ i \in DOMAIN rx[c] /\ longer[i] = rx[c][i]
             \/ longer[i] = Nul
             \/ longer[i].of = m
        /\ \E i \in DOMAIN longer : longer[i].of = m
        /\ DOMAIN rx[c] \subseteq DOMAIN longer
    BY <1>2, <1>3, <1>6, <1>7, StreamAppend
  <2>2. rx'[c] = longer
    BY <1>4
  <2> HIDE DEF longer
  <2> QED
    BY <2>1, <2>2
<1>8. \A i \in DOMAIN rx[c] : i \in DOMAIN (rx[c] \o words) /\ (rx[c] \o words)[i] = rx[c][i]
  <2>1. words \in Seq(Words)
    BY <1>2, <1>3, TextAt
  <2> QED
    BY <1>2, <2>1, ConcatAt, LenProperties
<1> QED
  BY <1>2, <1>4, <1>7, <1>8 DEF m

\* Every step keeps the streams.
LEMMA StreamsStep == TypeInv /\ [Next]_vars => Streams'
<1> SUFFICES ASSUME TypeInv, [Next]_vars
             PROVE  Streams'
  OBVIOUS
<1>1. Streams /\ TypeOK
  BY DEF TypeInv, Consistent
<1>2. CASE Handle /\ \E e \in batch : Read(e)
  <2>1. PICK e \in batch : Read(e)
    BY <1>2
  <2>2. UNCHANGED sent
    BY <1>2 DEF Handle
  <2> SUFFICES ASSUME WholeReads, NEW d \in Conns
               PROVE  Stream(d, rx[d])'
    BY DEF Streams, Stream
  <2>3. CASE d = e.conn
    <3>1. Stream(d, rx'[d])
      BY <2>1, <2>3, ReadMoves
    <3> QED
      BY <2>2, <3>1 DEF Stream, SentOn
  <2>4. CASE d # e.conn
    <3>1. rx'[d] = rx[d]
      BY <2>1, <2>4, ReadMoves
    <3> QED
      BY <1>1, <2>2, <3>1 DEF Streams, Stream, SentOn
  <2> QED
    BY <2>3, <2>4
<1>3. CASE Environment /\ \E c \in Conns : ClientSend(c)
  <2>1. PICK c \in Conns : ClientSend(c)
    BY <1>3
  <2> SUFFICES ASSUME WholeReads, NEW d \in Conns
               PROVE  Stream(d, rx[d])'
    BY DEF Streams, Stream
  <2>2. CASE d = c
    <3>1. SentOn(c, rx[c]) /\ sent[c] \in Nat /\ sent'[c] = sent[c] + 1
      BY <1>1, <2>1, SendMoves DEF Streams
    <3>2. /\ Framed(rx'[c]) /\ Ascending(rx'[c])
          /\ \A i \in DOMAIN rx'[c] :
               \/ i \in DOMAIN rx[c] /\ rx'[c][i] = rx[c][i]
               \/ rx'[c][i] = Nul
               \/ rx'[c][i].of = <<c, sent[c] + 1>>
          /\ <<c, sent[c] + 1>> \in Msgs
      BY <2>1, SendMoves
    <3>3. \A i \in DOMAIN rx'[c] : rx'[c][i] # Nul =>
            rx'[c][i].of \in Msgs /\ rx'[c][i].of[1] = c /\ rx'[c][i].of[2] <= sent'[c]
      <4> SUFFICES ASSUME NEW i \in DOMAIN rx'[c], rx'[c][i] # Nul
                   PROVE  rx'[c][i].of \in Msgs /\ rx'[c][i].of[1] = c /\ rx'[c][i].of[2] <= sent'[c]
        OBVIOUS
      <4>1. CASE rx'[c][i].of = <<c, sent[c] + 1>>
        BY <3>1, <3>2, <4>1
      <4>2. CASE i \in DOMAIN rx[c] /\ rx'[c][i] = rx[c][i]
        BY <3>1, <4>2 DEF SentOn, Msgs
      <4> QED
        BY <3>2, <4>1, <4>2
    <3> QED
      BY <2>2, <3>2, <3>3 DEF Stream, SentOn
  <2>3. CASE d # c
    <3>1. rx'[d] = rx[d] /\ sent'[d] = sent[d]
      BY <2>1, <2>3, SendMoves
    <3> QED
      BY <1>1, <3>1 DEF Streams, Stream, SentOn
  <2> QED
    BY <2>2, <2>3
<1>4. CASE ~(Handle /\ \E e \in batch : Read(e)) /\ ~(Environment /\ \E c \in Conns : ClientSend(c))
  BY <1>1, <1>4, SocketsKept, StreamsKept
<1> QED
  BY <1>2, <1>3, <1>4

\* At the start nothing is open, reported or waiting.
LEMMA TypeInvInit == Init => TypeInv
<1> SUFFICES ASSUME Init PROVE TypeInv
  OBVIOUS
<1>1. TypeOK
  BY TypeInit
<1>2. Stray = {} /\ watched = {} /\ owner = [f \in Fds |-> NoConn]
  BY DEF Init, Stray
<1>3. EventsCurrent /\ Separate
  BY DEF Init, EventsCurrent, Separate
<1>4. OpenIsWatched /\ IsFiniteSet(Stray)
  <2>1. IsFiniteSet(Stray) /\ Cardinality(Stray) = 0 /\ addFaults = 0
    BY <1>2, FS_EmptySet DEF Init
  <2>2. Cardinality(Stray) <= addFaults
    BY <2>1
  <2> QED
    BY <1>2, <2>1, <2>2 DEF OpenIsWatched, Stray
<1>5. Placed
  BY EmptySeq DEF Init, Placed
<1>6. Streams
  BY EmptySeq DEF Init, Streams, Framed, Begins, Ascending, SentOn
<1> QED
  BY <1>1, <1>3, <1>4, <1>5, <1>6 DEF TypeInv, Consistent

\* Every step keeps the invariant about events, descriptors and sockets.
LEMMA TypeInvStep == TypeInv /\ [Next]_vars => TypeInv'
BY TypeStep, EventsStep, DescriptorsStep, StreamsStep DEF TypeInv, Consistent, Descriptors

\* It holds in every state.
LEMMA TypeInvariance == Spec => []TypeInv
BY TypeInvInit, TypeInvStep, PTL DEF Spec

\* Every variable is in its range; an event is handled for the connection it was
\* reported for although descriptors are reused; and the descriptors the server
\* holds are those it waits for, but for as many as ADD has failed
\* (main.c:95-171).
THEOREM ServerConsistent == Spec => []Consistent
<1>1. TypeInv => Consistent
  BY DEF TypeInv
<1> QED
  BY <1>1, TypeInvariance, PTL

-----------------------------------------------------------------------------
(* What is stored.                                                          *)

\* While a message is handled Held is that message.
LEMMA HeldIs ==
  ASSUME HeldWhole
  PROVE  Held = IF Handling THEN {HeldMsg} ELSE {}
<1>1. CASE Handling
  <2>1. /\ buf[1].of = HeldMsg /\ buf[2].of = HeldMsg /\ buf[3].of = HeldMsg
        /\ HeldMsg \in Msgs
    BY <1>1 DEF HeldWhole, Word, WasSent
  <2>2. HeldMsg # NoMsg
    BY <2>1, ServerAssumption DEF Msgs, NoMsg
  <2>3. {buf[i].of : i \in 1 .. 3} = {HeldMsg}
    BY <2>1
  <2> QED
    BY <1>1, <2>2, <2>3 DEF Held, Handling
<1>2. CASE ~Handling
  BY <1>2 DEF Held, Handling
<1> QED
  BY <1>1, <1>2

\* str_sscanf makes of a whole message its row.
LEMMA SplitIsRow ==
  ASSUME HeldWhole, Handling
  PROVE  Split = RowOf(HeldMsg) /\ Split.time.of = HeldMsg
<1>1. /\ buf[1] = Word(HeldMsg, "id") /\ buf[2] = Word(HeldMsg, "temp")
      /\ buf[3] = Word(HeldMsg, "time")
  BY DEF HeldWhole
<1>2. buf[1] # Nul /\ buf[2] # Nul /\ buf[3] # Nul
  BY <1>1 DEF Word, Nul
<1> DEFINE Stops(k) == /\ \A i \in 1 .. k : buf[i] # Nul
                       /\ k < 3 => buf[k + 1] = Nul
<1>3. \A k \in 0 .. 3 : Stops(k) <=> k = 3
  <2> SUFFICES ASSUME NEW k \in 0 .. 3 PROVE Stops(k) <=> k = 3
    OBVIOUS
  <2>1. k \in {0, 1, 2, 3}
    OBVIOUS
  <2>2. \A i \in 1 .. 3 : buf[i] # Nul
    <3>1. \A i \in 1 .. 3 : i \in {1, 2, 3}
      OBVIOUS
    <3> QED
      BY <1>2, <3>1
  <2> QED
    BY <1>2, <2>1, <2>2
<1> DEFINE n == CHOOSE k \in 0 .. 3 : Stops(k)
<1>4. n = 3
  <2>1. 3 \in 0 .. 3
    OBVIOUS
  <2> HIDE DEF Stops
  <2> QED
    BY <1>3, <2>1
<1>5. Split = [id   |-> IF n >= 1 THEN buf[1] ELSE fields.id,
               temp |-> IF n >= 2 THEN buf[2] ELSE Junk,
               time |-> IF n >= 3 THEN buf[3] ELSE fields.time]
  BY DEF Split
<1> HIDE DEF n
<1>6. Split = [id |-> buf[1], temp |-> buf[2], time |-> buf[3]]
  BY <1>4, <1>5
<1> QED
  BY <1>1, <1>6 DEF RowOf, Word

\* A step that neither reads, sends nor stores.
Quiet ==
  /\ UNCHANGED <<rows, sent>>
  /\ \A c \in Conns : rx'[c] \in {rx[c], <<>>}
  /\ Handling' => Handling /\ buf' = buf
  /\ \A c \in Conns : Unread(c) \subseteq Unread(c)' \cup Held' \cup lost'
  /\ Held \subseteq Held' \cup lost'
  /\ lost \subseteq lost'

\* The message in a closed socket is dropped, unless it is the one being handled.
LEMMA CloseDrops ==
  ASSUME TypeOK, NEW f \in Fds, NEW thrown, Close(f, thrown)
  PROVE  /\ \A c \in Conns : c # owner[f] => Unread(c)' = Unread(c)
         /\ \A c \in Conns : rx'[c] \in {rx[c], <<>>}
         /\ lost' = lost \cup thrown
<1>1. \A c \in Conns : rx'[c] = IF c = owner[f] THEN <<>> ELSE rx[c]
  BY CloseEmpties
<1> QED
  BY <1>1 DEF Close, Unread

\* When the process ends, whatever it had not stored is dropped.
LEMMA EndsIdle ==
  ASSUME TypeOK, Ends, lost' = lost \cup Held \cup UNION {Unread(c) : c \in Conns},
         UNCHANGED <<rows, sent>>
  PROVE  Quiet
BY DEF Ends, Quiet, Handling, TypeOK

\* The steps are those that read, send or store, and quiet ones.
LEMMA StepKinds ==
  ASSUME TypeInv, [Next]_vars
  PROVE  \/ Handle /\ \E e \in batch : Read(e)
         \/ Environment /\ \E c \in Conns : ClientSend(c)
         \/ Store
         \/ StoreFails
         \/ Quiet
<1>1. TypeOK /\ EventsCurrent /\ Separate
  BY DEF TypeInv, Consistent
<1>2. ASSUME NEW e \in batch, HangUp(e) \/ ReadEnds(e), Handle PROVE Quiet
  <2>1. e # Listen
    BY <1>2 DEF HangUp, ReadEnds
  <2>2. /\ e.fd \in Fds /\ e.conn \in Conns /\ owner[e.fd] = e.conn
        /\ pc = "events" /\ UNCHANGED <<rows, sent>>
    BY <1>1, <1>2, <2>1, EventTyped DEF EventsCurrent, Handle
  <2>3. ~Handling' /\ Held = {}
    BY <1>2, <2>2 DEF HangUp, ReadEnds, NextEvent, Handling, Held
  <2>4. \E thrown : Close(e.fd, thrown) /\ Unread(e.conn) \subseteq thrown
    <3>1. CASE HangUp(e)
      BY <3>1 DEF HangUp
    <3>2. CASE ReadEnds(e)
      <4>1. rx[e.conn] = <<>> /\ Close(e.fd, {})
        BY <3>2 DEF ReadEnds
      <4> QED
        BY <4>1, UnreadNone
    <3> QED
      BY <1>2, <3>1, <3>2
  <2> QED
    BY <1>1, <2>2, <2>3, <2>4, CloseDrops DEF Quiet
<1>3. ASSUME Accept \/ AcceptFails, Handle PROVE Quiet
  <2>1. UNCHANGED <<rx, lost>> /\ pc' \notin {"write", "store"}
    BY <1>3 DEF Accept, AcceptFails, NextEvent, network
  <2>2. UNCHANGED <<rows, sent>> /\ Held = {} /\ ~Handling'
    BY <1>3, <2>1 DEF Handle, Held, Handling
  <2> QED
    BY <2>1, <2>2 DEF Quiet, Unread
<1>4. CASE HandleAddFails
  <2>1. /\ AddFails /\ UNCHANGED <<rows, sent>> /\ Held = {}
    BY <1>4 DEF HandleAddFails, Held
  <2>2. pc' \notin {"write", "store"}
    BY <2>1 DEF AddFails, NextEvent
  <2> DEFINE Refused == Range(Tail(backlog))
  <2>3. /\ \A c \in Conns : rx'[c] = IF c \in Refused THEN <<>> ELSE rx[c]
        /\ lost' = lost \cup UNION {Unread(c) : c \in Refused}
    BY <1>1, <2>1 DEF AddFails, TypeOK
  <2> HIDE DEF Refused
  <2>4. \A c \in Conns : Unread(c) \subseteq Unread(c)' \cup lost'
    <3> SUFFICES ASSUME NEW c \in Conns PROVE Unread(c) \subseteq Unread(c)' \cup lost'
      OBVIOUS
    <3>1. CASE c \in Refused
      BY <2>3, <3>1
    <3>2. CASE c \notin Refused
      BY <2>3, <3>2 DEF Unread
    <3> QED
      BY <3>1, <3>2
  <2> QED
    BY <2>1, <2>2, <2>3, <2>4 DEF Quiet, Handling
<1>5. CASE EchoFails
  <2>1. /\ pc = "write" /\ pc' = "store" /\ UNCHANGED <<buf, rows, sent>>
        /\ Close(current.fd, Unread(current.conn) \ Held)
    BY <1>5 DEF EchoFails, EchoFailsThen, program
  <2>2. current.fd \in Fds /\ owner[current.fd] = current.conn /\ current.conn \in Conns
    BY <1>1, <2>1 DEF EventsCurrent, Separate, Events
  <2>3. Held' = Held
    BY <2>1 DEF Held
  <2>4. /\ \A c \in Conns : c # current.conn => Unread(c)' = Unread(c)
        /\ \A c \in Conns : rx'[c] \in {rx[c], <<>>}
        /\ lost' = lost \cup (Unread(current.conn) \ Held)
    BY <1>1, <2>1, <2>2, CloseDrops
  <2> QED
    BY <2>1, <2>3, <2>4 DEF Quiet, Handling
<1>6. CASE EchoKills \/ Interrupt
  BY <1>1, <1>6, EndsIdle DEF EchoKills, Interrupt
<1>7. CASE Start \/ Wait
  BY <1>7 DEF Start, Wait, Quiet, Handling, Held, Unread, network, program
<1>8. CASE Echo
  <2>1. pc = "write" /\ pc' = "store" /\ UNCHANGED <<buf, rows, sent, rx, lost>>
    BY <1>8 DEF Echo, program
  <2> QED
    BY <2>1 DEF Quiet, Handling, Held, Unread
<1>9. ASSUME Environment, NEW c \in Conns, ClientConnect(c) \/ ClientClose(c) \/ ResetArrives(c)
      PROVE  Quiet
  <2>1. UNCHANGED <<pc, buf, rows, sent, rx, lost>>
    BY <1>9 DEF Environment, ClientConnect, ClientClose, ResetArrives, program
  <2> QED
    BY <2>1 DEF Quiet, Handling, Held, Unread
<1>10. CASE UNCHANGED vars
  <2>1. UNCHANGED <<pc, buf, rows, sent, rx, lost>>
    BY <1>10 DEF vars, program, network
  <2> QED
    BY <2>1 DEF Quiet, Handling, Held, Unread
<1>11. CASE Handle
  BY <1>2, <1>3, <1>11 DEF Handle
<1>12. CASE Environment
  BY <1>9, <1>12 DEF Environment
<1> QED
  BY <1>4, <1>5, <1>6, <1>7, <1>8, <1>10, <1>11, <1>12 DEF Next, ServerStep

\* Nothing is stored, handled or sent at the start.
LEMMA DataInit == Init => DataInv
<1> SUFFICES ASSUME Init PROVE DataInv
  OBVIOUS
<1>1. /\ rows = <<>> /\ DOMAIN rows = {} /\ ~Handling
      /\ \A c \in Conns : DOMAIN rx[c] = {}
  BY EmptySeq DEF Init, Handling
<1>2. \A m \in Msgs : ~(m[2] <= sent[m[1]])
  BY DEF Init, Msgs
<1> QED
  BY <1>1, <1>2 DEF DataInv, HeldWhole, RowsSent, Sequence, StoredInOrder, Accounted

\* A quiet step.
LEMMA DataIdle ==
  ASSUME TypeInv, WholeReads, DataInv, Quiet
  PROVE  DataInv'
<1>1. HeldWhole'
  BY DEF DataInv, Quiet, HeldWhole, HeldMsg, WasSent
<1>2. RowsSent' /\ StoredInOrder'
  BY DEF DataInv, Quiet, RowsSent, Sequence, StoredInOrder, WasSent, RowOf
<1>3. Handling' => HeldMsg' = HeldMsg
  BY DEF Quiet, HeldMsg
<1>4. \A c \in Conns : \A k \in DOMAIN rx'[c] : k \in DOMAIN rx[c] /\ rx'[c][k] = rx[c][k]
  BY EmptySeq DEF Quiet
<1>5. Sequence'
  <2>1. \A i \in DOMAIN rows' : Handling' => Before(rows'[i].time.of, HeldMsg')
    BY <1>3 DEF DataInv, Sequence, Quiet
  <2>2. \A c \in Conns : \A k \in DOMAIN rx'[c] : rx'[c][k] # Nul =>
          /\ \A i \in DOMAIN rows' : Before(rows'[i].time.of, rx'[c][k].of)
          /\ Handling' => Before(HeldMsg', rx'[c][k].of)
    BY <1>3, <1>4 DEF DataInv, Sequence, Quiet
  <2> QED
    BY <1>2, <2>1, <2>2 DEF Sequence
<1>6. Accounted'
  <2> SUFFICES ASSUME NEW m \in Msgs, m[2] <= sent[m[1]]
               PROVE  m \in Unread(m[1])' \cup Held' \cup StoredMsgs' \cup lost'
    BY DEF Quiet, Accounted
  <2>1. m \in Unread(m[1]) \cup Held \cup StoredMsgs \cup lost /\ m[1] \in Conns
    BY DEF DataInv, Accounted, Msgs
  <2>2. StoredMsgs' = StoredMsgs
    BY DEF Quiet, StoredMsgs
  <2> QED
    BY <2>1, <2>2 DEF Quiet
<1> QED
  BY <1>1, <1>2, <1>5, <1>6 DEF DataInv

\* A read() moves the oldest message of a socket to the buffer.
LEMMA DataRead ==
  ASSUME TypeInv, WholeReads, DataInv, Handle, NEW e \in batch, Read(e)
  PROVE  DataInv'
<1> DEFINE c == e.conn  m == rx[c][1].of
<1>1. /\ c \in Conns /\ 1 \in DOMAIN rx[c] /\ m \in Msgs /\ m[1] = c /\ m[2] <= sent[c]
      /\ \A d \in Conns \ {c} : rx'[d] = rx[d]
      /\ \A i \in 1 .. 3 : buf'[i] = rx[c][i]
      /\ \A i \in DOMAIN rx'[c] :
           /\ \E j \in DOMAIN rx[c] : rx'[c][i] = rx[c][j]
           /\ rx'[c][i] # Nul => m[2] < rx'[c][i].of[2]
      /\ \A i \in DOMAIN rx[c] : \/ rx[c][i].of \in {m, NoMsg}
                                 \/ \E j \in DOMAIN rx'[c] : rx'[c][j] = rx[c][i]
  BY ReadMoves
<1>2. /\ rx[c][1] = Word(m, "id") /\ rx[c][2] = Word(m, "temp") /\ rx[c][3] = Word(m, "time")
  BY ReadMoves DEF MessageAt
<1>3. UNCHANGED <<rows, sent, lost>> /\ pc = "events" /\ pc' = "write"
  BY DEF Handle, Read
<1> HIDE DEF c, m
<1>4. buf'[1] = Word(m, "id") /\ buf'[2] = Word(m, "temp") /\ buf'[3] = Word(m, "time")
  BY <1>1, <1>2
<1>5. HeldMsg' = m /\ Handling' /\ ~Handling
  BY <1>3, <1>4 DEF HeldMsg, Handling, Word
<1>6. HeldWhole'
  BY <1>1, <1>3, <1>4, <1>5 DEF HeldWhole, WasSent
<1>7. RowsSent' /\ StoredInOrder'
  BY <1>3 DEF DataInv, RowsSent, Sequence, StoredInOrder, WasSent, RowOf
<1>8. Sequence'
  <2>1. rx[c][1] # Nul
    BY <1>2 DEF Word, Nul
  <2>2. \A i \in DOMAIN rows' : Before(rows'[i].time.of, HeldMsg')
    <3>1. \A i \in DOMAIN rows : Before(rows[i].time.of, rx[c][1].of)
      BY <1>1, <2>1 DEF DataInv, Sequence
    <3>2. rx[c][1].of = m
      BY <1>2 DEF Word
    <3> QED
      BY <1>3, <1>5, <3>1, <3>2
  <2>3. ASSUME NEW d \in Conns, NEW k \in DOMAIN rx'[d], rx'[d][k] # Nul
        PROVE  /\ \A i \in DOMAIN rows' : Before(rows'[i].time.of, rx'[d][k].of)
               /\ Before(HeldMsg', rx'[d][k].of)
    <3>1. \E j \in DOMAIN rx[d] : rx'[d][k] = rx[d][j]
      BY <1>1
    <3>2. \A i \in DOMAIN rows : Before(rows[i].time.of, rx'[d][k].of)
      BY <2>3, <3>1 DEF DataInv, Sequence
    <3>3. CASE d = c
      BY <1>1, <1>3, <1>5, <2>3, <3>2, <3>3 DEF Before
    <3>4. CASE d # c
      <4>1. rx'[d][k].of[1] = d
        BY <2>3, <3>1 DEF TypeInv, Streams, SentOn
      <4> QED
        BY <1>1, <1>3, <1>5, <3>2, <3>4, <4>1 DEF Before
    <3> QED
      BY <3>3, <3>4
  <2> QED
    BY <1>7, <2>2, <2>3 DEF Sequence
<1>9. Accounted'
  <2> SUFFICES ASSUME NEW n \in Msgs, n[2] <= sent[n[1]], n \notin StoredMsgs \cup lost, n # m
               PROVE  n \in Unread(n[1])'
    <3>1. Held' = {m}
      <4>1. buf'[1].of = m /\ buf'[2].of = m /\ buf'[3].of = m
        BY <1>4 DEF Word
      <4>2. m # NoMsg
        BY <1>1, ServerAssumption DEF Msgs, NoMsg
      <4>3. {buf'[i].of : i \in 1 .. 3} = {m}
        BY <4>1
      <4> QED
        BY <1>3, <4>2, <4>3 DEF Held
    <3> QED
      BY <1>3, <3>1 DEF Accounted, StoredMsgs
  <2>1. Held = {}
    BY <1>3 DEF Held
  <2>2. n \in Unread(n[1]) /\ n[1] \in Conns
    BY <2>1 DEF DataInv, Accounted, Msgs
  <2>3. PICK i \in DOMAIN rx[n[1]] : rx[n[1]][i].of = n
    BY <2>2, UnreadIs
  <2>4. n # NoMsg
    BY <2>2, UnreadIs
  <2>5. \E j \in DOMAIN rx'[n[1]] : rx'[n[1]][j].of = n
    BY <1>1, <2>2, <2>3, <2>4
  <2> QED
    BY <2>4, <2>5 DEF Unread, Range
<1> QED
  BY <1>6, <1>7, <1>8, <1>9 DEF DataInv

\* A client sends a message that is newer than all it sent before.
LEMMA DataSend ==
  ASSUME TypeInv, WholeReads, DataInv, Environment, NEW c \in Conns, ClientSend(c)
  PROVE  DataInv'
<1> DEFINE m == <<c, sent[c] + 1>>
<1>1. /\ m \in Msgs /\ sent'[c] = sent[c] + 1 /\ sent[c] \in Nat
      /\ \A d \in Conns \ {c} : rx'[d] = rx[d] /\ sent'[d] = sent[d]
      /\ \A i \in DOMAIN rx'[c] :
           \/ i \in DOMAIN rx[c] /\ rx'[c][i] = rx[c][i]
           \/ rx'[c][i] = Nul
           \/ rx'[c][i].of = m
      /\ \A i \in DOMAIN rx[c] : \E j \in DOMAIN rx'[c] : rx'[c][j].of = rx[c][i].of
      /\ \E i \in DOMAIN rx'[c] : rx'[c][i].of = m
  BY SendMoves
<1>2. UNCHANGED <<pc, buf, rows, lost>>
  BY DEF Environment, program
<1>3. m[1] = c /\ m[2] = sent[c] + 1
  OBVIOUS
<1> HIDE DEF m
<1>4. ASSUME NEW n, WasSent(n)
      PROVE  WasSent(n)' /\ Before(n, m)
  <2>1. n \in Msgs /\ n[1] \in Conns /\ n[2] \in Int
    BY <1>4 DEF WasSent, Msgs
  <2>2. CASE n[1] = c
    BY <1>1, <1>3, <1>4, <2>1, <2>2 DEF WasSent, Before
  <2>3. CASE n[1] # c
    BY <1>1, <1>3, <1>4, <2>1, <2>3 DEF WasSent, Before
  <2> QED
    BY <2>2, <2>3
<1>5. HeldMsg' = HeldMsg /\ (Handling' <=> Handling) /\ Held' = Held /\ StoredMsgs' = StoredMsgs
  BY <1>2 DEF HeldMsg, Handling, Held, StoredMsgs
<1>6. HeldWhole'
  BY <1>2, <1>4, <1>5 DEF DataInv, HeldWhole
<1>7. RowsSent' /\ StoredInOrder'
  BY <1>2, <1>4 DEF DataInv, RowsSent, Sequence, StoredInOrder, RowOf
<1>8. Sequence'
  <2>1. \A i \in DOMAIN rows : Before(rows[i].time.of, m)
    BY <1>4 DEF DataInv, RowsSent
  <2>2. Handling => Before(HeldMsg, m)
    BY <1>4 DEF DataInv, HeldWhole
  <2>3. ASSUME NEW d \in Conns, NEW k \in DOMAIN rx'[d], rx'[d][k] # Nul
        PROVE  \/ k \in DOMAIN rx[d] /\ rx'[d][k] = rx[d][k]
               \/ rx'[d][k].of = m
    BY <1>1, <2>3
  <2>4. \A d \in Conns : \A k \in DOMAIN rx'[d] : rx'[d][k] # Nul =>
          /\ \A i \in DOMAIN rows : Before(rows[i].time.of, rx'[d][k].of)
          /\ Handling => Before(HeldMsg, rx'[d][k].of)
    BY <2>1, <2>2, <2>3 DEF DataInv, Sequence
  <2>5. \A i \in DOMAIN rows : Handling => Before(rows[i].time.of, HeldMsg)
    BY DEF DataInv, Sequence
  <2> QED
    BY <1>2, <1>5, <1>7, <2>4, <2>5 DEF Sequence
<1>9. Accounted'
  <2> SUFFICES ASSUME NEW n \in Msgs, n[2] <= sent'[n[1]], n \notin Held \cup StoredMsgs \cup lost
               PROVE  n \in Unread(n[1])'
    BY <1>2, <1>5 DEF Accounted
  <2>1. n[1] \in Conns /\ n[2] \in Int /\ n # NoMsg /\ n = <<n[1], n[2]>>
    BY ServerAssumption DEF Msgs, NoMsg
  <2>2. n = m \/ n[2] <= sent[n[1]]
    <3>1. CASE n[1] = c
      BY <1>1, <2>1, <3>1 DEF m
    <3>2. CASE n[1] # c
      BY <1>1, <2>1, <3>2
    <3> QED
      BY <3>1, <3>2
  <2>3. CASE n = m
    BY <1>1, <1>3, <2>1, <2>3 DEF Unread, Range
  <2>4. CASE n[2] <= sent[n[1]]
    <3>1. n \in Unread(n[1])
      BY <2>4 DEF DataInv, Accounted
    <3>2. PICK i \in DOMAIN rx[n[1]] : rx[n[1]][i].of = n
      BY <3>1, UnreadIs
    <3>3. \E j \in DOMAIN rx'[n[1]] : rx'[n[1]][j].of = n
      <4>1. CASE n[1] = c
        BY <1>1, <3>2, <4>1
      <4>2. CASE n[1] # c
        BY <1>1, <2>1, <3>2, <4>2
      <4> QED
        BY <4>1, <4>2
    <3> QED
      BY <2>1, <3>3 DEF Unread, Range
  <2> QED
    BY <2>2, <2>3, <2>4
<1> QED
  BY <1>6, <1>7, <1>8, <1>9 DEF DataInv

\* The message that was handled becomes the last row.
LEMMA DataStore ==
  ASSUME TypeInv, WholeReads, DataInv, Store
  PROVE  DataInv'
<1> DEFINE m == HeldMsg
<1>1. /\ Handling /\ ~Handling' /\ rows' = Append(rows, Split)
      /\ UNCHANGED <<rx, sent, lost>>
  BY DEF Store, StoreRow, MessageDone, Handling, network
<1>2. Split = RowOf(m) /\ Split.time.of = m /\ WasSent(m)
  BY <1>1, SplitIsRow DEF DataInv, HeldWhole
<1>3. /\ DOMAIN rows = 1 .. Len(rows) /\ Len(rows) \in Nat
      /\ DOMAIN rows' = 1 .. Len(rows) + 1
      /\ \A i \in 1 .. Len(rows) : rows'[i] = rows[i]
      /\ rows'[Len(rows) + 1] = Split
  BY <1>1, AppendAt, SplitTypes, LenProperties DEF TypeInv, Consistent, TypeOK
<1>4. \A i \in DOMAIN rows' :
        \/ i \in DOMAIN rows /\ rows'[i] = rows[i]
        \/ i = Len(rows) + 1 /\ rows'[i] = Split
  BY <1>3
<1> HIDE DEF m
<1>5. HeldWhole'
  BY <1>1 DEF HeldWhole
<1>6. RowsSent'
  BY <1>1, <1>2, <1>4 DEF DataInv, RowsSent, WasSent, RowOf
<1>7. StoredInOrder'
  <2> SUFFICES ASSUME NEW i \in DOMAIN rows', NEW j \in DOMAIN rows', i < j
               PROVE  Before(rows'[i].time.of, rows'[j].time.of)
    BY DEF StoredInOrder, Before
  <2>1. i \in DOMAIN rows /\ rows'[i] = rows[i]
    BY <1>3
  <2>2. CASE j \in DOMAIN rows /\ rows'[j] = rows[j]
    BY <2>1, <2>2 DEF DataInv, Sequence, StoredInOrder, Before
  <2>3. CASE rows'[j] = Split
    BY <1>1, <1>2, <2>1, <2>3 DEF DataInv, Sequence, m
  <2> QED
    BY <1>4, <2>2, <2>3
<1>8. Sequence'
  <2>1. ASSUME NEW d \in Conns, NEW k \in DOMAIN rx[d], rx[d][k] # Nul, NEW i \in DOMAIN rows'
        PROVE  Before(rows'[i].time.of, rx[d][k].of)
    BY <1>1, <1>2, <1>4, <2>1 DEF DataInv, Sequence, m
  <2> QED
    BY <1>1, <1>7, <2>1 DEF Sequence
<1>9. Accounted'
  <2>1. StoredMsgs \cup {m} \subseteq StoredMsgs'
    <3>1. \A i \in DOMAIN rows : i \in DOMAIN rows' /\ rows'[i] = rows[i]
      BY <1>3
    <3>2. Len(rows) + 1 \in DOMAIN rows' /\ rows'[Len(rows) + 1].time.of = m
      BY <1>2, <1>3
    <3> QED
      BY <3>1, <3>2 DEF StoredMsgs
  <2>2. Held = {m}
    BY <1>1, HeldIs DEF DataInv, m
  <2>3. \A n : Unread(n)' = Unread(n)
    BY <1>1 DEF Unread
  <2> QED
    BY <1>1, <2>1, <2>2, <2>3 DEF DataInv, Accounted
<1> QED
  BY <1>5, <1>6, <1>7, <1>8, <1>9 DEF DataInv

\* The message that was handled is dropped.
LEMMA DataStoreFails ==
  ASSUME DataInv, StoreFails
  PROVE  DataInv'
<1>1. /\ ~Handling' /\ UNCHANGED <<rows, rx, sent>> /\ lost' = lost \cup Held
  BY DEF StoreFails, MessageDone, Handling, network
<1>2. HeldWhole'
  BY <1>1 DEF HeldWhole
<1>3. RowsSent' /\ StoredInOrder'
  BY <1>1 DEF DataInv, RowsSent, Sequence, StoredInOrder, WasSent, RowOf
<1>4. Sequence'
  BY <1>1, <1>3 DEF DataInv, Sequence
<1>5. Accounted'
  BY <1>1 DEF DataInv, Accounted, Unread, StoredMsgs
<1> QED
  BY <1>2, <1>3, <1>4, <1>5 DEF DataInv

\* Every step keeps what is stored.
LEMMA DataStep == WholeReads /\ TypeInv /\ DataInv /\ [Next]_vars => DataInv'
BY StepKinds, DataRead, DataSend, DataStore, DataStoreFails, DataIdle

\* It holds in every state.
LEMMA DataInvariance == WholeReads => (Spec => [](TypeInv /\ DataInv))
<1> SUFFICES ASSUME WholeReads
             PROVE  Spec => [](TypeInv /\ DataInv)
  OBVIOUS
<1>1. Init => TypeInv /\ DataInv
  BY TypeInvInit, DataInit
<1>2. TypeInv /\ DataInv /\ [Next]_vars => (TypeInv /\ DataInv)'
  BY TypeInvStep, DataStep
<1> QED
  BY <1>1, <1>2, PTL DEF Spec

\* When a read() returns one message, every row is a message some client sent: the
\* reading and the time of one measurement, never mixed from two, nor from what an
\* earlier message left in buf, id or local_t (main.c:137-162, par_data.c:17-24).
THEOREM ServerStoresWhatWasSent == WholeReads => (Spec => []StoredWasSent)
<1> SUFFICES ASSUME WholeReads PROVE Spec => []StoredWasSent
  OBVIOUS
<1>1. DataInv => StoredWasSent
  BY DEF DataInv, RowsSent, WasSent, StoredWasSent
<1> QED
  BY <1>1, DataInvariance, PTL

\* When a read() returns one message, the messages of a connection are stored in the
\* order they were sent, each at most once (main.c:108-170).
THEOREM ServerStoresInOrder == WholeReads => (Spec => []StoredInOrder)
<1> SUFFICES ASSUME WholeReads PROVE Spec => []StoredInOrder
  OBVIOUS
<1>1. DataInv => StoredInOrder
  BY DEF DataInv, Sequence
<1> QED
  BY <1>1, DataInvariance, PTL

\* When a read() returns one message, every message that was sent waits in the
\* socket, is being handled, is a row, or was dropped by a reset, a failing database
\* or the end of the server (main.c:108-170).
THEOREM ServerAccounts == WholeReads => (Spec => []Accounted)
<1> SUFFICES ASSUME WholeReads PROVE Spec => []Accounted
  OBVIOUS
<1>1. DataInv => Accounted
  BY DEF DataInv
<1> QED
  BY <1>1, DataInvariance, PTL

-----------------------------------------------------------------------------
(* The inductive invariant: the clients.                                    *)

\* The sample and the connection a client has fit the call it makes next.
Turns ==
  \A a \in Clients :
    /\ hand[a] # 0 => at[a] \in {"connect", "live"}
    /\ at[a] = "live" => hand[a] # 0
    /\ at[a] \in {"live", "row"} => sock[a] # NoConn
    /\ at[a] = "delete" => spool[a] # <<>>
    /\ at[a] = "off" => sock[a] = NoConn
    /\ at[a] # "off" => boots[a] > 0

\* A connection a client names is its own and open, or the server has left it; what the
\* server has left holds nothing.
Sockets ==
  /\ \A a \in Clients : sock[a] # NoConn => net[sock[a]] \in {"open", "gone"}
  /\ \A a, b \in Clients : sock[a] = sock[b] /\ sock[a] # NoConn => a = b
  /\ \A c \in heard : net[c] = "gone"
  /\ \A c \in Conns : net[c] \in {"idle", "gone"} => rx[c] = <<>>

\* A table is a queue in the order of sampling, and the sample in hand the newest.
Queues ==
  \A a \in Clients :
    /\ \A i, j \in DOMAIN spool[a] : i < j => spool[a][i] < spool[a][j]
    /\ \A n \in Spooled(a) : n <= taken[a]
    /\ hand[a] # 0 => hand[a] = taken[a] /\ hand[a] \notin Spooled(a)

\* What was handed over or dropped was sampled; a row is deleted after it was sent.
Past ==
  /\ \A a \in Clients, n \in Samples : <<a, n>> \in handed \cup dropped => n <= taken[a]
  /\ \A a \in Clients : at[a] = "delete" => <<a, Head(spool[a])>> \in handed

ClientInv == TelemetryTypeOK /\ Turns /\ Sockets /\ Queues /\ Past

-----------------------------------------------------------------------------
(* The inductive invariant: what the messages carry.                        *)

\* What is known of a message that was sent by client a for a sample: it is no newer
\* than the last one and not the one in hand, no row of the table is older than a row
\* that was sent, and a row that stays though it was sent is known.
Knows(a, m) ==
  /\ carries[m].n <= taken[a] /\ carries[m].n # hand[a]
  /\ carries[m].boot <= boots[a]
  /\ carries[m].row => \A n \in Spooled(a) : carries[m].n <= n
  /\ carries[m].n \in Spooled(a) => \/ <<a, carries[m].n>> \in undeleted
                                    \/ at[a] = "delete" /\ carries[m].n = Head(spool[a])

Loads ==
  \A m \in Msgs : WasSent(m) => carries[m] \in Load /\ Knows(carries[m].client, m)

\* A sample that was sent, or is known to be gone.
Away(a, n) ==
  \/ <<a, n>> \in dropped \cup vanished
  \/ \E m \in Msgs : WasSent(m) /\ LoadOf(m) = <<a, n>>

\* A sample is in hand, in the table, or away, and away before its row is deleted.
Kept ==
  /\ \A a \in Clients : \A n \in 1 .. taken[a] :
       n = hand[a] \/ n \in Spooled(a) \/ Away(a, n)
  /\ \A a \in Clients : at[a] = "delete" => Away(a, Head(spool[a]))

\* Two messages carry one sample only if its row was not deleted.
SentTwice ==
  \A k, m \in Msgs :
    WasSent(k) /\ WasSent(m) /\ k # m /\ LoadOf(k) = LoadOf(m) => LoadOf(k) \in undeleted

LoadInv == Loads /\ Kept /\ SentTwice

-----------------------------------------------------------------------------
(* The inductive invariant: the order in which messages are stored.         *)

\* The messages no read() has returned.
Pending == UNION {Unread(c) : c \in Conns}

SameRun(k, m) == carries[k].client = carries[m].client /\ carries[k].boot = carries[m].boot

\* m may be stored behind k.
MayFollow(k, m) ==
  SameRun(k, m) /\ carries[k].n > carries[m].n => carries[m].row /\ ~carries[k].row

\* A client sends no more in this run.
Finished(a) == at[a] = "off" \/ (at[a] = "turn" /\ stop[a])

\* What a run of a client has not been read from is one connection, the one it sends on.
OneConn ==
  /\ \A k, m \in Pending : SameRun(k, m) => k[1] = m[1]
  /\ \A m \in Pending :
       LET a == carries[m].client
       IN carries[m].boot = boots[a] => m[1] = sock[a] \/ Finished(a)

\* Every message may be stored behind those that are sure to be stored before it.
InTurn ==
  /\ \A k, m \in Msgs :
       WasSent(k) /\ WasSent(m) /\ k[1] = m[1] /\ k[2] < m[2] => MayFollow(k, m)
  /\ \A k \in StoredMsgs \cup Held, m \in Pending : k[1] # m[1] => MayFollow(k, m)
  /\ \A k \in StoredMsgs, m \in Held : k[1] # m[1] => MayFollow(k, m)

OrderInv == OneConn /\ InTurn /\ LateExplained

TelemetryInv == ClientInv /\ LoadInv /\ OrderInv

-----------------------------------------------------------------------------
(* The clients are an environment of the server.                            *)

\* A client that closes its connection.
LEMMA CloseSockIsServer ==
  ASSUME TelemetryTypeOK, NEW a \in Clients, CloseSock(a)
  PROVE  /\ [Next]_vars
         /\ sock' = [sock EXCEPT ![a] = NoConn]
         /\ UNCHANGED <<rx, sent, rows, lost, pc, buf>>
         /\ \A c \in Conns : net'[c] = net[c] \/ (c = sock[a] /\ net[c] = "open")
<1>1. CASE sock[a] # NoConn /\ net[sock[a]] = "open"
  <2>1. sock[a] \in Conns /\ ClientClose(sock[a]) /\ OnlyNet
    BY <1>1 DEF CloseSock, TelemetryTypeOK
  <2>2. [Next]_vars
    BY <2>1 DEF Next, Environment, OnlyNet
  <2> QED
    BY <1>1, <2>1, <2>2 DEF CloseSock, ClientClose, OnlyNet, program, TelemetryTypeOK, TypeOK
<1>2. CASE ~(sock[a] # NoConn /\ net[sock[a]] = "open")
  <2>1. ServerRests
    BY <1>2 DEF CloseSock
  <2> QED
    BY <2>1 DEF CloseSock, ServerRests, vars, network, program
<1> QED
  BY <1>1, <1>2

\* What a client does to settle the sample in its hand when there is no connection, or
\* when it gives up the one it has.
Settles(a) ==
  /\ Insert(a, hand[a])
  /\ hand' = [hand EXCEPT ![a] = 0]
  /\ CloseSock(a) /\ GoesTo(a, "turn")
  /\ UNCHANGED <<heard, taken, boots, handed, carries, vanished, undeleted>>
  /\ \/ UNCHANGED stop /\ sock[a] \in {NoConn} \cup heard
     \/ stop' = [stop EXCEPT ![a] = TRUE]
  /\ at[a] \in {"connect", "live", "row"}

\* The three steps that settle the sample of a turn.
LEMMA SettleKinds ==
  ASSUME NEW a \in Clients, Spools(a) \/ SendFails(a) \/ SignalInWrite(a)
  PROVE  Settles(a)
<1>1. CASE Spools(a)
  BY <1>1 DEF Spools, Settles, Offline
<1>2. CASE SendFails(a)
  BY <1>2 DEF SendFails, GivesUp, GivesUpThen, Sending, Settles
<1>3. CASE SignalInWrite(a)
  BY <1>3 DEF SignalInWrite, GivesUp, GivesUpThen, Sending, Settles
<1> QED
  BY <1>1, <1>2, <1>3

\* Steps of the server and of the network alone.
Beside == UNCHANGED <<at, heard, local, trace>>
ServerMoves ==
  /\ Beside /\ [Next]_vars /\ UNCHANGED sent
  /\ Start \/ ServerStep \/ Interrupt \/ \E c \in Conns : ResetArrives(c)

\* What the server does beside the clients is a step of Server that sends nothing.
LEMMA BesideKinds ==
  ASSUME \/ ServerSide(Start) \/ ServerSide(ServerStep)
         \/ ServerSide(Interrupt) \/ ServerSide(Resets)
  PROVE  ServerMoves
<1>1. CASE ServerSide(Start)
  BY <1>1 DEF ServerSide, ServerMoves, Beside, Next, Start
<1>2. CASE ServerSide(ServerStep)
  <2>1. UNCHANGED sent
    BY <1>2 DEF ServerSide, ServerStep, Wait, Handle, HandleAddFails, Echo, EchoFails,
                EchoFailsThen, EchoKills, Store, StoreRow, StoreFails, MessageDone
  <2> QED
    BY <1>2, <2>1 DEF ServerSide, ServerMoves, Beside, Next
<1>3. CASE ServerSide(Interrupt)
  BY <1>3 DEF ServerSide, ServerMoves, Beside, Next, Interrupt
<1>4. CASE ServerSide(Resets)
  <2>1. PICK c \in Conns : ResetArrives(c)
    BY <1>4 DEF ServerSide, Resets
  <2>2. OnlyNet /\ Beside
    BY <1>4 DEF ServerSide, Resets, Beside
  <2>3. Environment
    BY <2>1, <2>2 DEF Environment, OnlyNet
  <2> QED
    BY <2>1, <2>2, <2>3 DEF ServerMoves, Next, ResetArrives
<1> QED
  BY <1>1, <1>2, <1>3, <1>4

\* The message of a write() that is accepted.
NewMsg(a) == <<sock[a], sent[sock[a]] + 1>>

\* A write() the kernel accepts.
LEMMA TransmitsIs ==
  ASSUME TelemetryTypeOK, NEW a \in Clients, sock[a] # NoConn, Transmits(a),
         at[a] \in {"live", "row"}, Sending(a) \in Samples, boots[a] > 0
  PROVE  LET m == NewMsg(a) IN
         /\ [Next]_vars
         /\ m \in Msgs /\ ~WasSent(m) /\ m[1] = sock[a]
         /\ \A k \in Msgs : WasSent(k)' <=> WasSent(k) \/ k = m
         /\ \A k \in Msgs : k[1] = m[1] => (WasSent(k) <=> k[2] < m[2])
         /\ \A k \in Msgs : k # m => carries'[k] = carries[k]
         /\ carries' \in [Msgs -> Load \cup {NoLoad}] /\ carries'[m] \in Load
         /\ carries'[m].client = a /\ carries'[m].n = Sending(a)
         /\ carries'[m].row <=> at[a] = "row"
         /\ carries'[m].boot = boots[a]
         /\ UNCHANGED <<rows, pc, buf, lost, net, vanished>>
         /\ \A c \in Conns : c # m[1] => rx'[c] = rx[c]
         /\ \A c \in Conns : Unread(c)' \subseteq Unread(c) \cup {m}
<1> DEFINE c == sock[a]
           m == <<c, sent[c] + 1>>
<1>1. c \in Conns /\ TypeOK
  BY DEF TelemetryTypeOK
<1>2. /\ ClientSend(c) /\ OnlyNet /\ UNCHANGED vanished
      /\ carries' = [carries EXCEPT ![m] =
           [client |-> a, n |-> Sending(a), row |-> at[a] = "row", boot |-> boots[a]]]
  BY DEF Transmits
<1>3. [Next]_vars
  BY <1>1, <1>2 DEF Next, Environment, OnlyNet
<1>4. /\ sent[c] \in Nat /\ sent' = [sent EXCEPT ![c] = sent[c] + 1]
      /\ sent[c] + 1 \in 1 .. MaxMsgs /\ sent \in [Conns -> Nat]
  BY <1>1, <1>2, ServerAssumption DEF ClientSend, TypeOK
<1>5. m \in Msgs /\ m[1] = c /\ m[2] = sent[c] + 1
  BY <1>1, <1>4 DEF Msgs
<1>6. \A k \in Msgs : k[1] \in Conns /\ k[2] \in Nat /\ k = <<k[1], k[2]>>
  BY DEF Msgs
<1> HIDE DEF m
<1>7. \A k \in Msgs : WasSent(k)' <=> WasSent(k) \/ k = m
  BY <1>1, <1>4, <1>5, <1>6 DEF WasSent, m
<1>8. ~WasSent(m) /\ \A k \in Msgs : k[1] = m[1] => (WasSent(k) <=> k[2] < m[2])
  BY <1>4, <1>5, <1>6 DEF WasSent
<1> DEFINE load == [client |-> a, n |-> Sending(a), row |-> at[a] = "row", boot |-> boots[a]]
<1>9. load \in Load
  BY DEF Load, TelemetryTypeOK
<1>10. /\ load.client = a /\ load.n = Sending(a)
       /\ (load.row <=> at[a] = "row") /\ load.boot = boots[a]
  OBVIOUS
<1> HIDE DEF load
<1>11. carries \in [Msgs -> Load \cup {NoLoad}]
  BY DEF TelemetryTypeOK
<1>12. /\ carries' = [carries EXCEPT ![m] = load]
       /\ carries'[m] = load /\ \A k \in Msgs : k # m => carries'[k] = carries[k]
  BY <1>2, <1>5, <1>11 DEF load, m
<1>13. carries' \in [Msgs -> Load \cup {NoLoad}]
  BY <1>9, <1>11, <1>12
<1>14. UNCHANGED <<rows, pc, buf, lost, net>>
  BY <1>2 DEF OnlyNet, program, ClientSend
<1>15. PICK words \in {Text(m), Padded(m)} : rx' = [rx EXCEPT ![c] = rx[c] \o words]
  BY <1>2 DEF ClientSend, m
<1>16. rx'[c] = rx[c] \o words /\ \A d \in Conns : d # c => rx'[d] = rx[d]
  BY <1>1, <1>15 DEF TypeOK
<1>17. ASSUME NEW d \in Conns, d = c PROVE Unread(d)' \subseteq Unread(d) \cup {m}
  <2>1. rx[c] \in Seq(Words) /\ words \in Seq(Words)
    BY <1>1, <1>5, <1>15, TextAt DEF TypeOK
  <2>2. \A i \in DOMAIN words : words[i].of \in {m, NoMsg}
    <3>1. /\ Len(words) \in {3, 4} /\ DOMAIN words = 1 .. Len(words)
          /\ words[1] = Word(m, "id") /\ words[2] = Word(m, "temp")
          /\ words[3] = Word(m, "time")
          /\ Len(words) = 4 => words[4] = Nul
      BY <1>5, <1>15, TextAt
    <3>2. \A i \in DOMAIN words : i \in {1, 2, 3} \/ (i = 4 /\ Len(words) = 4)
      BY <3>1
    <3>3. /\ words[1].of = m /\ words[2].of = m /\ words[3].of = m
          /\ Len(words) = 4 => words[4].of = NoMsg
      BY <3>1 DEF Word, Nul
    <3> QED
      BY <3>2, <3>3
  <2>3. \A i \in DOMAIN rx'[c] : \/ \E j \in DOMAIN rx[c] : rx'[c][i] = rx[c][j]
                                 \/ \E j \in DOMAIN words : rx'[c][i] = words[j]
    <3>1. Len(rx[c]) \in Nat /\ Len(words) \in Nat
          /\ DOMAIN rx[c] = 1 .. Len(rx[c]) /\ DOMAIN words = 1 .. Len(words)
      BY <2>1, LenProperties
    <3>2. /\ DOMAIN rx'[c] = 1 .. Len(rx[c]) + Len(words)
          /\ \A i \in 1 .. Len(rx[c]) : rx'[c][i] = rx[c][i]
          /\ \A i \in 1 .. Len(words) : rx'[c][Len(rx[c]) + i] = words[i]
      BY <1>16, <2>1, ConcatAt
    <3> SUFFICES ASSUME NEW i \in DOMAIN rx'[c], i \notin DOMAIN rx[c]
                 PROVE  \E j \in DOMAIN words : rx'[c][i] = words[j]
      BY <3>1, <3>2
    <3>3. PICK j \in 1 .. Len(words) : i = Len(rx[c]) + j
      <4>1. i - Len(rx[c]) \in 1 .. Len(words) /\ i = Len(rx[c]) + (i - Len(rx[c]))
        BY <3>1, <3>2
      <4> QED
        BY <4>1
    <3> QED
      BY <3>1, <3>2, <3>3
  <2>4. \A i \in DOMAIN rx'[c] : \/ \E j \in DOMAIN rx[c] : rx'[c][i].of = rx[c][j].of
                                 \/ rx'[c][i].of \in {m, NoMsg}
    BY <2>2, <2>3
  <2>5. /\ Unread(d)' = {rx'[c][i].of : i \in DOMAIN rx'[c]} \ {NoMsg}
        /\ Unread(d) = {rx[c][j].of : j \in DOMAIN rx[c]} \ {NoMsg}
    BY <1>17 DEF Unread, Range
  <2> QED
    BY <2>4, <2>5
<1>18. \A d \in Conns : d # c => Unread(d)' = Unread(d)
  BY <1>16 DEF Unread
<1>19. m = NewMsg(a)
  BY DEF m, NewMsg
<1>20. \A d \in Conns : Unread(d)' \subseteq Unread(d) \cup {m}
  BY <1>17, <1>18
<1>21. /\ m \in Msgs /\ ~WasSent(m) /\ m[1] = sock[a]
       /\ \A k \in Msgs : WasSent(k)' <=> WasSent(k) \/ k = m
       /\ \A k \in Msgs : k[1] = m[1] => (WasSent(k) <=> k[2] < m[2])
  BY <1>5, <1>7, <1>8
<1>22. /\ \A k \in Msgs : k # m => carries'[k] = carries[k]
       /\ carries'[m] \in Load
       /\ carries'[m].client = a /\ carries'[m].n = Sending(a)
       /\ carries'[m].row <=> at[a] = "row"
       /\ carries'[m].boot = boots[a]
  BY <1>9, <1>10, <1>12
<1>23. \A d \in Conns : d # m[1] => rx'[d] = rx[d]
  BY <1>5, <1>16
<1> HIDE DEF c
<1> QED
  BY <1>2, <1>3, <1>13, <1>14, <1>19, <1>20, <1>21, <1>22, <1>23

-----------------------------------------------------------------------------
(* The tables of the clients.                                               *)

Ascends(s) == \A i, j \in DOMAIN s : i < j => s[i] < s[j]

\* A row more.
LEMMA SpoolLonger ==
  ASSUME NEW s \in Seq(Samples), NEW n \in Samples
  PROVE  /\ Append(s, n) \in Seq(Samples) /\ Range(Append(s, n)) = Range(s) \cup {n}
         /\ s # <<>> => Head(Append(s, n)) = Head(s)
         /\ Ascends(s) /\ (\A m \in Range(s) : m < n) => Ascends(Append(s, n))
<1> DEFINE t == Append(s, n)
<1>1. /\ t \in Seq(Samples) /\ DOMAIN t = 1 .. Len(s) + 1
      /\ \A i \in 1 .. Len(s) : t[i] = s[i]
      /\ t[Len(s) + 1] = n
  BY AppendAt
<1>2. Len(s) \in Nat /\ DOMAIN s = 1 .. Len(s) /\ (s # <<>> => Len(s) > 0)
  BY LenProperties, EmptySeq
<1>3. t # <<>>
  BY <1>1, <1>2, EmptySeq
<1> HIDE DEF t
<1>4. DOMAIN t = DOMAIN s \cup {Len(s) + 1} /\ \A i \in DOMAIN s : t[i] = s[i]
  BY <1>1, <1>2
<1>5. Range(t) = Range(s) \cup {n}
  BY <1>1, <1>4 DEF Range
<1>6. s # <<>> => Head(t) = Head(s)
  <2> SUFFICES ASSUME s # <<>> PROVE Head(t) = Head(s)
    OBVIOUS
  <2>1. Head(t) = t[1] /\ Head(s) = s[1]
    BY <1>1, <1>3
  <2> QED
    BY <1>2, <1>4, <2>1
<1>7. ASSUME Ascends(s), \A m \in Range(s) : m < n
      PROVE  Ascends(t)
  <2> SUFFICES ASSUME NEW i \in DOMAIN t, NEW j \in DOMAIN t, i < j
               PROVE  t[i] < t[j]
    BY DEF Ascends
  <2>1. i \in DOMAIN s
    BY <1>1, <1>2
  <2>2. CASE j \in DOMAIN s
    BY <1>4, <1>7, <2>1, <2>2 DEF Ascends
  <2>3. CASE j = Len(s) + 1
    BY <1>1, <1>4, <1>7, <2>1, <2>3 DEF Range
  <2> QED
    BY <1>4, <2>2, <2>3
<1> QED
  BY <1>1, <1>5, <1>6, <1>7 DEF t

\* The oldest row and what is behind it.
LEMMA SpoolShorter ==
  ASSUME NEW s \in Seq(Samples), s # <<>>
  PROVE  /\ Head(s) \in Samples /\ Head(s) \in Range(s) /\ Tail(s) \in Seq(Samples)
         /\ Range(Tail(s)) \subseteq Range(s) /\ Range(s) \subseteq Range(Tail(s)) \cup {Head(s)}
         /\ Ascends(s) => /\ \A n \in Range(s) : Head(s) <= n
                          /\ Head(s) \notin Range(Tail(s))
                          /\ Ascends(Tail(s))
<1> DEFINE t == Tail(s)
<1>1. /\ Head(s) \in Samples /\ t \in Seq(Samples) /\ Len(t) = Len(s) - 1
      /\ \A i \in 1 .. Len(t) : t[i] = s[i + 1]
  BY HeadTailProperties
<1>2. Len(s) \in Nat \ {0} /\ DOMAIN s = 1 .. Len(s)
  BY LenProperties, EmptySeq
<1>3. DOMAIN t = 1 .. Len(s) - 1
  BY <1>1, LenProperties
<1>4. Head(s) = s[1]
  BY <1>2
<1> HIDE DEF t
<1>5. \A i \in DOMAIN t : i + 1 \in DOMAIN s /\ i + 1 > 1 /\ t[i] = s[i + 1]
  BY <1>1, <1>2, <1>3
<1>6. \A i \in DOMAIN s : i = 1 \/ \E j \in DOMAIN t : i = j + 1 /\ s[i] = t[j]
  <2> SUFFICES ASSUME NEW i \in DOMAIN s, i # 1 PROVE \E j \in DOMAIN t : i = j + 1 /\ s[i] = t[j]
    OBVIOUS
  <2>1. i - 1 \in DOMAIN t /\ (i - 1) + 1 = i
    BY <1>2, <1>3
  <2> QED
    BY <1>5, <2>1
<1>7. /\ Head(s) \in Range(s) /\ Range(t) \subseteq Range(s)
      /\ Range(s) \subseteq Range(t) \cup {Head(s)}
  BY <1>2, <1>4, <1>5, <1>6 DEF Range
<1>8. ASSUME Ascends(s)
      PROVE  (\A n \in Range(s) : Head(s) <= n) /\ Head(s) \notin Range(t) /\ Ascends(t)
  <2>1. \A i \in DOMAIN s : s[i] \in Int
    <3>1. \A i \in DOMAIN s : s[i] \in Samples
      BY <1>2, ElementOfSeq
    <3> QED
      BY <3>1 DEF Samples
  <2>2. \A i \in DOMAIN s : i # 1 => s[1] < s[i]
    BY <1>2, <1>8 DEF Ascends
  <2>3. \A n \in Range(s) : Head(s) <= n
    BY <1>2, <1>4, <2>1, <2>2 DEF Range
  <2>4. Head(s) \notin Range(t)
    <3>1. \A i \in DOMAIN t : s[1] < t[i] /\ t[i] \in Int
      BY <1>5, <2>1, <2>2
    <3> QED
      BY <1>2, <1>4, <2>1, <3>1 DEF Range
  <2>5. Ascends(t)
    <3> SUFFICES ASSUME NEW i \in DOMAIN t, NEW j \in DOMAIN t, i < j PROVE t[i] < t[j]
      BY DEF Ascends
    <3>1. i + 1 \in DOMAIN s /\ j + 1 \in DOMAIN s /\ i + 1 < j + 1
      BY <1>3, <1>5
    <3> QED
      BY <1>5, <1>8, <3>1 DEF Ascends
  <2> QED
    BY <2>3, <2>4, <2>5
<1> QED
  BY <1>1, <1>7, <1>8 DEF t

\* What a client is about to write.
LEMMA SendingIs ==
  ASSUME TelemetryTypeOK, NEW a \in Clients, Sending(a) # 0
  PROVE  /\ at[a] \in {"live", "row"} /\ Sending(a) \in Samples
         /\ at[a] = "live" => Sending(a) = hand[a]
         /\ at[a] = "row" => /\ spool[a] # <<>> /\ Sending(a) = Head(spool[a])
                             /\ Head(spool[a]) \in Spooled(a)
<1>1. CASE at[a] = "live"
  BY <1>1 DEF Sending, TelemetryTypeOK, Samples
<1>2. CASE at[a] = "row" /\ spool[a] # <<>>
  BY <1>2, SpoolShorter DEF Sending, TelemetryTypeOK, Spooled
<1> QED
  BY <1>1, <1>2 DEF Sending

\* The two ways a write() is accepted.
LEMMA WrittenIs ==
  ASSUME TelemetryTypeOK, Turns, NEW a \in Clients, Written(a)
  PROVE  /\ [Next]_vars /\ Sending(a) # 0 /\ sock[a] # NoConn /\ boots[a] > 0
         /\ \/ Transmits(a)
            \/ /\ vanished' = vanished \cup {<<a, Sending(a)>>}
               /\ UNCHANGED <<vars, carries>>
<1>1. Sending(a) # 0 /\ sock[a] # NoConn /\ boots[a] > 0 /\ at[a] \in {"live", "row"}
  BY SendingIs DEF Written, Turns
<1>2. CASE Transmits(a)
  BY <1>1, <1>2, SendingIs, TransmitsIs
<1>3. CASE Vanishes(a)
  BY <1>1, <1>3 DEF Vanishes, ServerRests
<1> QED
  BY <1>1, <1>2, <1>3 DEF Written

\* Every step is one of the server, one that leaves the server alone, or one of the
\* four kinds in which a client touches its connection.
LEMMA IsServerStep ==
  ASSUME TelemetryTypeOK, Turns, [TelemetryNext]_telemetryVars
  PROVE  [Next]_vars
<1>1. CASE UNCHANGED telemetryVars
  BY <1>1 DEF telemetryVars
<1>2. CASE Hear
  BY <1>2 DEF Hear, ServerRests
<1>3. ASSUME NEW a \in Clients,
             ClientStep(a) \/ Signal(a) \/ SignalInWrite(a) \/ Kill(a) \/ Boot(a)
      PROVE  [Next]_vars
  <2>1. CASE Begin(a) \/ StillConnected(a) \/ NoRow(a) \/ Delete(a) \/ Signal(a) \/ Boot(a)
    BY <2>1 DEF Begin, BeginTurn, StillConnected, NoRow, Delete, DeleteLeaving, Signal, Boot,
                ServerRests
  <2>2. CASE Connect(a)
    <3>1. PICK c \in Conns : ClientConnect(c) /\ OnlyNet
      BY <2>2 DEF Connect, Idle
    <3> QED
      BY <3>1 DEF OnlyNet, Environment, Next
  <2>3. CASE Spools(a) \/ SendFails(a) \/ SignalInWrite(a) \/ Exit(a) \/ Kill(a)
    <3>1. CloseSock(a)
      BY <2>3, SettleKinds DEF Settles, Exit, Kill
    <3> QED
      BY <3>1, CloseSockIsServer
  <2>4. CASE SendLive(a) \/ SendRow(a)
    BY <2>4, WrittenIs DEF SendLive, SendRow, SendRowThen
  <2> QED
    BY <1>3, <2>1, <2>2, <2>3, <2>4 DEF ClientStep
<1> QED
  BY <1>1, <1>2, <1>3, BesideKinds DEF TelemetryNext, ServerMoves

-----------------------------------------------------------------------------
(* Types and the calls the clients are in.                                  *)

\* What a client does with its table, its hand and what it counts.
ClientTypes ==
  /\ at \in [Clients -> {"turn", "connect", "live", "row", "delete", "off"}]
  /\ stop \in [Clients -> BOOLEAN]
  /\ sock \in [Clients -> Conns \cup {NoConn}]
  /\ hand \in [Clients -> 0 .. MaxSamples]
  /\ spool \in [Clients -> Seq(Samples)]
  /\ heard \subseteq Conns
  /\ taken \in [Clients -> 0 .. MaxSamples]
  /\ dbFaults \in 0 .. MaxDbFaults /\ boots \in [Clients -> 0 .. MaxBoots]
  /\ carries \in [Msgs -> Load \cup {NoLoad}]
  /\ handed \cup dropped \cup vanished \cup undeleted \subseteq Clients \X Samples

\* Insert leaves a table, and what it cannot insert is dropped.
LEMMA InsertIs ==
  ASSUME ClientTypes, NEW a \in Clients, NEW n \in 0 .. MaxSamples, Insert(a, n)
  PROVE  /\ spool' \in [Clients -> Seq(Samples)] /\ dbFaults' \in 0 .. MaxDbFaults
         /\ dropped' \subseteq Clients \X Samples
         /\ \A b \in Clients \ {a} : spool'[b] = spool[b]
         /\ \/ n = 0 /\ spool'[a] = spool[a] /\ dropped' = dropped
            \/ n \in Samples /\ spool'[a] = Append(spool[a], n) /\ dropped' = dropped
            \/ n \in Samples /\ spool'[a] = spool[a] /\ dropped' = dropped \cup {<<a, n>>}
<1>1. n = 0 \/ n \in Samples
  BY DEF Samples
<1>2. spool[a] \in Seq(Samples) /\ (n \in Samples => Append(spool[a], n) \in Seq(Samples))
  BY SpoolLonger DEF ClientTypes
<1>3. CASE n = 0 /\ UNCHANGED <<spool, dbFaults, dropped>>
  BY <1>3 DEF ClientTypes
<1>4. CASE /\ n # 0 /\ spool' = [spool EXCEPT ![a] = Append(spool[a], n)]
           /\ UNCHANGED <<dbFaults, dropped>>
  BY <1>1, <1>2, <1>4 DEF ClientTypes
<1>5. CASE n # 0 /\ DbFault /\ dropped' = dropped \cup {<<a, n>>} /\ UNCHANGED spool
  BY <1>1, <1>5, TelemetryAssumption DEF ClientTypes, DbFault
<1> QED
  BY <1>3, <1>4, <1>5 DEF Insert, InsertAs

\* Every step keeps the types.
LEMMA ClientTypesStep ==
  ASSUME TelemetryTypeOK, Turns, [TelemetryNext]_telemetryVars
  PROVE  ClientTypes'
<1>1. ClientTypes
  BY DEF TelemetryTypeOK, ClientTypes
<1>2. CASE UNCHANGED telemetryVars \/ Beside
  BY <1>1, <1>2 DEF ClientTypes, telemetryVars, Beside, local, trace
<1>3. CASE Hear
  BY <1>1, <1>3 DEF ClientTypes, Hear, local, trace
<1>4. ASSUME NEW a \in Clients, Begin(a)
      PROVE  ClientTypes'
  <2>1. PICK n \in Due(a) : /\ taken' = [taken EXCEPT ![a] = IF n = 0 THEN @ ELSE n]
                            /\ hand' = [hand EXCEPT ![a] = n]
    BY <1>4 DEF Begin, BeginTurn
  <2>2. n \in 0 .. MaxSamples
    BY TelemetryAssumption DEF Due, Samples
  <2>3. taken' \in [Clients -> 0 .. MaxSamples] /\ hand' \in [Clients -> 0 .. MaxSamples]
    BY <1>1, <2>1, <2>2 DEF ClientTypes
  <2> QED
    BY <1>1, <1>4, <2>3 DEF ClientTypes, Begin, BeginTurn, GoesTo, trace
<1>5. ASSUME NEW a \in Clients, Connect(a)
      PROVE  ClientTypes'
  BY <1>1, <1>5 DEF ClientTypes, Connect, Idle, GoesTo, trace
<1>6. ASSUME NEW a \in Clients, StillConnected(a)
      PROVE  ClientTypes'
  BY <1>1, <1>6 DEF ClientTypes, StillConnected, GoesTo, local, trace
<1>7. ASSUME NEW a \in Clients, Settles(a)
      PROVE  ClientTypes'
  <2>1. /\ spool' \in [Clients -> Seq(Samples)] /\ dbFaults' \in 0 .. MaxDbFaults
        /\ dropped' \subseteq Clients \X Samples
    BY <1>1, <1>7, InsertIs DEF Settles, ClientTypes
  <2>2. stop' \in [Clients -> BOOLEAN] /\ hand' \in [Clients -> 0 .. MaxSamples]
    <3>1. 0 \in 0 .. MaxSamples
      BY TelemetryAssumption
    <3>2. hand' \in [Clients -> 0 .. MaxSamples]
      BY <1>1, <1>7, <3>1 DEF ClientTypes, Settles
    <3>3. stop' = stop \/ stop' = [stop EXCEPT ![a] = TRUE]
      BY <1>7 DEF Settles
    <3> QED
      BY <1>1, <3>2, <3>3 DEF ClientTypes
  <2>3. sock' \in [Clients -> Conns \cup {NoConn}]
    BY <1>1, <1>7 DEF ClientTypes, Settles, CloseSock
  <2> QED
    BY <1>1, <1>7, <2>1, <2>2, <2>3 DEF ClientTypes, Settles, GoesTo
<1>8. ASSUME NEW a \in Clients, SendLive(a) \/ SendRow(a)
      PROVE  ClientTypes'
  <2>1. Written(a)
    BY <1>8 DEF SendLive, SendRow, SendRowThen
  <2>2. Sending(a) # 0 /\ sock[a] # NoConn /\ boots[a] > 0
    BY <2>1, WrittenIs
  <2>3. Sending(a) \in Samples /\ at[a] \in {"live", "row"}
    BY <2>2, SendingIs
  <2>4. carries' \in [Msgs -> Load \cup {NoLoad}] /\ vanished' \subseteq Clients \X Samples
    <3>1. CASE Transmits(a)
      BY <1>1, <2>2, <2>3, <3>1, TransmitsIs DEF ClientTypes
    <3>2. CASE vanished' = vanished \cup {<<a, Sending(a)>>} /\ UNCHANGED carries
      BY <1>1, <2>3, <3>2 DEF ClientTypes
    <3> QED
      BY <2>1, <3>1, <3>2, WrittenIs
  <2>5. handed' \subseteq Clients \X Samples
    BY <1>1, <2>1, <2>3 DEF ClientTypes, Written
  <2>6. hand' \in [Clients -> 0 .. MaxSamples] /\ UNCHANGED <<dropped, undeleted, dbFaults>>
    BY <1>1, <1>8, TelemetryAssumption DEF ClientTypes, SendLive, SendRow, SendRowThen, local
  <2>7. UNCHANGED <<heard, stop, sock, spool, taken, boots>>
    BY <1>8 DEF SendLive, SendRow, SendRowThen, local
  <2>8. at' \in [Clients -> {"turn", "connect", "live", "row", "delete", "off"}]
    BY <1>1, <1>8 DEF ClientTypes, SendLive, SendRow, SendRowThen, GoesTo
  <2> QED
    BY <1>1, <2>4, <2>5, <2>6, <2>7, <2>8 DEF ClientTypes
<1>9. ASSUME NEW a \in Clients, NoRow(a)
      PROVE  ClientTypes'
  BY <1>1, <1>9, TelemetryAssumption DEF ClientTypes, NoRow, GoesTo, DbFault, trace
<1>10. ASSUME NEW a \in Clients, Delete(a)
       PROVE  ClientTypes'
  <2>1. spool[a] \in Seq(Samples) /\ spool[a] # <<>>
    BY <1>1, <1>10 DEF ClientTypes, Delete, DeleteLeaving, Turns
  <2>2. Tail(spool[a]) \in Seq(Samples) /\ Head(spool[a]) \in Samples
    BY <2>1, SpoolShorter
  <2>3. /\ spool' \in [Clients -> Seq(Samples)] /\ dbFaults' \in 0 .. MaxDbFaults
        /\ undeleted' \subseteq Clients \X Samples
    <3>1. CASE spool' = [spool EXCEPT ![a] = Tail(spool[a])] /\ UNCHANGED <<dbFaults, undeleted>>
      BY <1>1, <2>2, <3>1 DEF ClientTypes
    <3>2. CASE DbFault /\ undeleted' = undeleted \cup {<<a, Head(spool[a])>>} /\ UNCHANGED spool
      BY <1>1, <2>2, <3>2, TelemetryAssumption DEF ClientTypes, DbFault
    <3> QED
      BY <1>10, <3>1, <3>2 DEF Delete, DeleteLeaving
  <2> QED
    BY <1>1, <1>10, <2>3 DEF ClientTypes, Delete, DeleteLeaving, GoesTo
<1>11. ASSUME NEW a \in Clients, Exit(a)
       PROVE  ClientTypes'
  BY <1>1, <1>11 DEF ClientTypes, Exit, CloseSock, GoesTo, trace
<1>12. ASSUME NEW a \in Clients, Signal(a)
       PROVE  ClientTypes'
  BY <1>1, <1>12 DEF ClientTypes, Signal, trace
<1>13. ASSUME NEW a \in Clients, Kill(a)
       PROVE  ClientTypes'
  <2>1. dropped' \subseteq Clients \X Samples
    BY <1>1, <1>13 DEF ClientTypes, Kill, Samples
  <2>2. at[a] = "delete" => Head(spool[a]) \in Samples
    BY <1>1, SpoolShorter DEF ClientTypes, Turns
  <2>3. undeleted' \subseteq Clients \X Samples
    BY <1>1, <1>13, <2>2 DEF ClientTypes, Kill
  <2>4. hand' \in [Clients -> 0 .. MaxSamples] /\ sock' \in [Clients -> Conns \cup {NoConn}]
    BY <1>1, <1>13, TelemetryAssumption DEF ClientTypes, Kill, CloseSock
  <2> QED
    BY <1>1, <1>13, <2>1, <2>3, <2>4 DEF ClientTypes, Kill, GoesTo
<1>14. ASSUME NEW a \in Clients, Boot(a)
       PROVE  ClientTypes'
  BY <1>1, <1>14, TelemetryAssumption DEF ClientTypes, Boot, GoesTo, trace
<1> QED
  BY <1>2, <1>3, <1>4, <1>5, <1>6, <1>7, <1>8, <1>9, <1>10, <1>11, <1>12, <1>13, <1>14,
     BesideKinds, SettleKinds DEF ServerMoves, TelemetryNext, ClientStep

-----------------------------------------------------------------------------
(* The kinds of steps, client by client.                                    *)

\* Nothing of the table, the hand and the samples of client b changes.
SameData(b) == hand'[b] = hand[b] /\ spool'[b] = spool[b] /\ taken'[b] = taken[b]
Same(b) ==
  /\ SameData(b)
  /\ at'[b] = at[b] /\ stop'[b] = stop[b] /\ sock'[b] = sock[b] /\ boots'[b] = boots[b]
Alone(a) == \A b \in Clients \ {a} : Same(b)

\* No message moves.
Still == UNCHANGED <<rx, sent, rows, pc, buf, carries>>

\* The turn begins.
Takes(a) ==
  /\ at[a] = "turn" /\ ~stop[a] /\ at'[a] = "connect"
  /\ stop'[a] = stop[a] /\ sock'[a] = sock[a] /\ spool'[a] = spool[a] /\ boots'[a] = boots[a]
  /\ \/ hand'[a] = 0 /\ taken'[a] = taken[a]
     \/ hand'[a] = taken[a] + 1 /\ taken'[a] = taken[a] + 1 /\ hand'[a] \in Samples
  /\ Still /\ UNCHANGED <<net, heard, trace>>

\* A connection is made.
Dials(a) ==
  /\ at[a] = "connect" /\ at'[a] = IF hand[a] = 0 THEN "row" ELSE "live"
  /\ sock[a] = NoConn /\ sock'[a] \in Conns
  /\ net[sock'[a]] = "idle" /\ net'[sock'[a]] = "open"
  /\ \A c \in Conns : c # sock'[a] => net'[c] = net[c]
  /\ SameData(a) /\ stop'[a] = stop[a] /\ boots'[a] = boots[a]
  /\ Still /\ UNCHANGED <<heard, trace>>

\* A connection is closed, or left as it was found.
Closes(a) ==
  /\ sock'[a] = NoConn
  /\ \A c \in Conns :
       \/ net'[c] = net[c]
       \/ c = sock[a] /\ net[c] = "open" /\ net'[c] \in {"fin", "reset"}

\* The sample in hand goes to the table, or is dropped.
Settled(a) ==
  /\ at[a] \in {"connect", "live", "row"} /\ at'[a] = "turn"
  /\ sock[a] \in {NoConn} \cup heard \/ stop'[a]
  /\ Closes(a)
  /\ hand'[a] = 0 /\ taken'[a] = taken[a] /\ boots'[a] = boots[a]
  /\ \/ hand[a] = 0 /\ spool'[a] = spool[a] /\ dropped' = dropped
     \/ hand[a] \in Samples /\ spool'[a] = Append(spool[a], hand[a]) /\ dropped' = dropped
     \/ hand[a] \in Samples /\ spool'[a] = spool[a] /\ dropped' = dropped \cup {<<a, hand[a]>>}
  /\ Still /\ UNCHANGED <<heard, handed, vanished, undeleted>>

\* A write() is accepted, into a connection or by one the server has left.
Accepted(a) ==
  /\ Sending(a) # 0 /\ sock[a] # NoConn /\ boots[a] > 0
  /\ \/ at[a] = "live" /\ at'[a] = "row" /\ hand'[a] = 0
     \/ at[a] = "row" /\ at'[a] = "delete" /\ hand'[a] = hand[a]
  /\ spool'[a] = spool[a] /\ taken'[a] = taken[a]
  /\ stop'[a] = stop[a] /\ sock'[a] = sock[a] /\ boots'[a] = boots[a]
  /\ handed' = handed \cup {<<a, Sending(a)>>}
  /\ \/ Transmits(a)
     \/ Still /\ UNCHANGED net /\ vanished' = vanished \cup {<<a, Sending(a)>>}
  /\ UNCHANGED <<heard, dropped, undeleted>>

\* The row that was sent is deleted, or stays.
Deleted(a) ==
  /\ at[a] = "delete" /\ at'[a] = "turn"
  /\ hand'[a] = hand[a] /\ taken'[a] = taken[a]
  /\ stop'[a] = stop[a] /\ sock'[a] = sock[a] /\ boots'[a] = boots[a]
  /\ \/ spool'[a] = Tail(spool[a]) /\ undeleted' = undeleted
     \/ spool'[a] = spool[a] /\ undeleted' = undeleted \cup {<<a, Head(spool[a])>>}
  /\ Still /\ UNCHANGED <<net, heard, handed, dropped, vanished>>

\* The process is gone.
Killed(a) ==
  /\ at[a] # "off" /\ at'[a] = "off" /\ Closes(a)
  /\ hand'[a] = 0 /\ spool'[a] = spool[a] /\ taken'[a] = taken[a]
  /\ stop'[a] = stop[a] /\ boots'[a] = boots[a]
  /\ dropped' = dropped \cup {<<a, n>> : n \in {hand[a]} \ {0}}
  /\ undeleted' = undeleted \cup
       (IF at[a] = "delete" THEN {<<a, Head(spool[a])>>} ELSE {})
  /\ Still /\ UNCHANGED <<heard, handed, vanished>>

\* The client goes on, with its data as it is.
Goes(a) ==
  /\ SameData(a)
  /\ \/ /\ at[a] = "connect" /\ at'[a] = (IF hand[a] = 0 THEN "row" ELSE "live")
        /\ sock[a] # NoConn
        /\ UNCHANGED net /\ sock'[a] = sock[a] /\ stop'[a] = stop[a] /\ boots'[a] = boots[a]
     \/ /\ at[a] = "row" /\ at'[a] = "turn"
        /\ UNCHANGED net /\ sock'[a] = sock[a] /\ stop'[a] = stop[a] /\ boots'[a] = boots[a]
     \/ /\ at[a] = "turn" /\ at'[a] = "off" /\ stop[a] /\ Closes(a)
        /\ stop'[a] = stop[a] /\ boots'[a] = boots[a]
     \/ /\ at[a] # "off" /\ at'[a] = at[a] /\ stop'[a]
        /\ UNCHANGED net /\ sock'[a] = sock[a] /\ boots'[a] = boots[a]
     \/ /\ at[a] = "off" /\ at'[a] = "turn" /\ boots'[a] = boots[a] + 1 /\ ~stop'[a]
        /\ UNCHANGED net /\ sock'[a] = sock[a]
  /\ Still /\ UNCHANGED <<heard, trace>>

\* The end of a connection is heard of, or nothing happens.
Learns ==
  /\ \A c \in heard' \ heard : c \in Conns /\ net[c] = "gone"
  /\ heard \subseteq heard' /\ Still /\ UNCHANGED <<net, at, local, trace>>

ClientMoves(a) ==
  \/ Takes(a) \/ Dials(a) \/ Settled(a) \/ Accepted(a) \/ Deleted(a) \/ Killed(a) \/ Goes(a)

\* What closing the connection does to the network.
LEMMA ClosesIs ==
  ASSUME TelemetryTypeOK, NEW a \in Clients, CloseSock(a)
  PROVE  Closes(a) /\ \A b \in Clients \ {a} : sock'[b] = sock[b]
<1>1. sock' = [sock EXCEPT ![a] = NoConn] /\ sock \in [Clients -> Conns \cup {NoConn}]
  BY DEF CloseSock, TelemetryTypeOK
<1>2. ASSUME NEW c \in Conns
      PROVE  net'[c] = net[c] \/ (c = sock[a] /\ net[c] = "open" /\ net'[c] \in {"fin", "reset"})
  <2>1. CASE sock[a] # NoConn /\ net[sock[a]] = "open"
    <3>1. ClientClose(sock[a]) /\ sock[a] \in Conns /\ net \in [Conns ->
            {"idle", "open", "fin", "doomed", "broken", "reset", "gone"}]
      BY <2>1 DEF CloseSock, TelemetryTypeOK, TypeOK
    <3> QED
      BY <3>1 DEF ClientClose
  <2>2. CASE ~(sock[a] # NoConn /\ net[sock[a]] = "open")
    BY <2>2 DEF CloseSock, ServerRests, vars, network
  <2> QED
    BY <2>1, <2>2
<1> QED
  BY <1>1, <1>2 DEF Closes

\* What a client does is one of these.
LEMMA ClientKinds ==
  ASSUME TelemetryTypeOK, Turns, NEW a \in Clients,
         ClientStep(a) \/ Signal(a) \/ SignalInWrite(a) \/ Kill(a) \/ Boot(a)
  PROVE  Alone(a) /\ ClientMoves(a)
<1>1. ClientTypes
  BY DEF TelemetryTypeOK, ClientTypes
<1>2. ServerRests => UNCHANGED <<net, rx, sent, rows, pc, buf>>
  BY DEF ServerRests, vars, network, program
<1>3. CASE Begin(a)
  <2>1. PICK n \in Due(a) : /\ taken' = [taken EXCEPT ![a] = IF n = 0 THEN @ ELSE n]
                            /\ hand' = [hand EXCEPT ![a] = n]
    BY <1>3 DEF Begin, BeginTurn
  <2>2. n = 0 \/ (n \in Samples /\ n = taken[a] + 1 /\ n # 0)
    BY <1>1 DEF Due, Samples
  <2>3. /\ hand'[a] = n /\ taken'[a] = IF n = 0 THEN taken[a] ELSE n
        /\ \A b \in Clients \ {a} : hand'[b] = hand[b] /\ taken'[b] = taken[b]
    BY <1>1, <2>1 DEF ClientTypes
  <2>4. /\ at[a] = "turn" /\ ~stop[a] /\ at'[a] = "connect"
        /\ \A b \in Clients \ {a} : at'[b] = at[b]
        /\ ServerRests /\ UNCHANGED <<heard, stop, sock, spool, dbFaults, boots, trace>>
    BY <1>1, <1>3 DEF Begin, BeginTurn, GoesTo, ClientTypes
  <2>5. Takes(a)
    BY <1>2, <2>2, <2>3, <2>4 DEF Takes, Still, trace
  <2> QED
    BY <2>3, <2>4, <2>5 DEF Alone, Same, SameData, ClientMoves
<1>4. CASE Connect(a)
  <2>1. PICK c \in Idle : ClientConnect(c) /\ OnlyNet /\ sock' = [sock EXCEPT ![a] = c]
    BY <1>4 DEF Connect
  <2>2. /\ c \in Conns /\ net[c] = "idle" /\ net'[c] = "open"
        /\ \A d \in Conns : d # c => net'[d] = net[d]
    BY <2>1 DEF Idle, ClientConnect, TelemetryTypeOK, TypeOK
  <2>3. sock'[a] = c /\ \A b \in Clients \ {a} : sock'[b] = sock[b]
    BY <1>1, <2>1 DEF ClientTypes
  <2>4. /\ at[a] = "connect" /\ sock[a] = NoConn
        /\ at'[a] = IF hand[a] = 0 THEN "row" ELSE "live"
        /\ \A b \in Clients \ {a} : at'[b] = at[b]
        /\ UNCHANGED <<heard, stop, hand, spool, taken, dbFaults, boots, trace>>
    BY <1>1, <1>4 DEF Connect, GoesTo, ClientTypes
  <2>5. Still
    BY <2>1, <2>4 DEF Still, ClientConnect, OnlyNet, program, trace
  <2>6. Dials(a)
    BY <2>2, <2>3, <2>4, <2>5 DEF Dials, SameData
  <2> QED
    BY <2>3, <2>4, <2>6 DEF Alone, Same, SameData, ClientMoves
<1>5. CASE Settles(a)
  <2>1. CloseSock(a) /\ Insert(a, hand[a]) /\ hand[a] \in 0 .. MaxSamples
    BY <1>1, <1>5 DEF Settles, ClientTypes
  <2>2. Closes(a) /\ \A b \in Clients \ {a} : sock'[b] = sock[b]
    BY <2>1, ClosesIs
  <2>3. UNCHANGED <<rx, sent, rows, pc, buf>>
    BY <2>1, CloseSockIsServer
  <2>4. /\ \A b \in Clients \ {a} : spool'[b] = spool[b]
        /\ \/ hand[a] = 0 /\ spool'[a] = spool[a] /\ dropped' = dropped
           \/ hand[a] \in Samples /\ spool'[a] = Append(spool[a], hand[a]) /\ dropped' = dropped
           \/ hand[a] \in Samples /\ spool'[a] = spool[a]
                /\ dropped' = dropped \cup {<<a, hand[a]>>}
    BY <1>1, <2>1, InsertIs
  <2>5. /\ hand'[a] = 0 /\ at'[a] = "turn"
        /\ \A b \in Clients \ {a} : hand'[b] = hand[b] /\ at'[b] = at[b]
        /\ UNCHANGED <<heard, taken, boots, handed, carries, vanished, undeleted>>
        /\ at[a] \in {"connect", "live", "row"}
    BY <1>1, <1>5 DEF Settles, GoesTo, ClientTypes
  <2>6. /\ \A b \in Clients \ {a} : stop'[b] = stop[b]
        /\ sock[a] \in {NoConn} \cup heard \/ stop'[a]
    BY <1>1, <1>5 DEF Settles, ClientTypes
  <2>7. Settled(a)
    BY <2>2, <2>3, <2>4, <2>5, <2>6 DEF Settled, Still
  <2> QED
    BY <2>2, <2>4, <2>5, <2>6, <2>7 DEF Alone, Same, SameData, ClientMoves
<1>6. CASE SendLive(a) \/ SendRow(a)
  <2>1. Written(a) /\ UNCHANGED <<heard, stop, sock, spool, taken, boots, dropped, undeleted>>
    BY <1>6 DEF SendLive, SendRow, SendRowThen, local
  <2>2. /\ Sending(a) # 0 /\ sock[a] # NoConn /\ boots[a] > 0
        /\ handed' = handed \cup {<<a, Sending(a)>>}
        /\ \/ Transmits(a)
           \/ /\ vanished' = vanished \cup {<<a, Sending(a)>>}
              /\ UNCHANGED <<vars, carries>>
    BY <2>1, WrittenIs DEF Written
  <2>3. /\ \/ at[a] = "live" /\ at'[a] = "row" /\ hand'[a] = 0
           \/ at[a] = "row" /\ at'[a] = "delete" /\ hand'[a] = hand[a]
        /\ \A b \in Clients \ {a} : hand'[b] = hand[b] /\ at'[b] = at[b]
    BY <1>1, <1>6 DEF SendLive, SendRow, SendRowThen, GoesTo, local, ClientTypes
  <2>4. \/ Transmits(a)
        \/ Still /\ UNCHANGED net /\ vanished' = vanished \cup {<<a, Sending(a)>>}
    BY <2>2 DEF Still, vars, network, program
  <2>5. Accepted(a)
    BY <2>1, <2>2, <2>3, <2>4 DEF Accepted
  <2> QED
    BY <2>1, <2>3, <2>5 DEF Alone, Same, SameData, ClientMoves
<1>7. CASE Delete(a)
  <2>1. /\ at[a] = "delete" /\ at'[a] = "turn" /\ \A b \in Clients \ {a} : at'[b] = at[b]
        /\ ServerRests
        /\ UNCHANGED <<heard, stop, sock, hand, taken, boots, handed, carries, dropped, vanished>>
    BY <1>1, <1>7 DEF Delete, DeleteLeaving, GoesTo, ClientTypes
  <2>2. /\ \/ spool'[a] = Tail(spool[a]) /\ undeleted' = undeleted
           \/ spool'[a] = spool[a] /\ undeleted' = undeleted \cup {<<a, Head(spool[a])>>}
        /\ \A b \in Clients \ {a} : spool'[b] = spool[b]
    BY <1>1, <1>7 DEF Delete, DeleteLeaving, ClientTypes
  <2>3. Deleted(a)
    BY <1>2, <2>1, <2>2 DEF Deleted, Still
  <2> QED
    BY <2>1, <2>2, <2>3 DEF Alone, Same, SameData, ClientMoves
<1>8. CASE Kill(a)
  <2>1. CloseSock(a) /\ UNCHANGED <<heard, stop, spool, taken, boots, handed, carries, vanished>>
    BY <1>8 DEF Kill
  <2>2. Closes(a) /\ \A b \in Clients \ {a} : sock'[b] = sock[b]
    BY <2>1, ClosesIs
  <2>3. UNCHANGED <<rx, sent, rows, pc, buf>>
    BY <2>1, CloseSockIsServer
  <2>4. /\ hand'[a] = 0 /\ at'[a] = "off" /\ at[a] # "off"
        /\ \A b \in Clients \ {a} : hand'[b] = hand[b] /\ at'[b] = at[b]
    BY <1>1, <1>8 DEF Kill, GoesTo, ClientTypes
  <2>5. Killed(a)
    BY <1>8, <2>1, <2>2, <2>3, <2>4 DEF Kill, Killed, Still
  <2> QED
    BY <2>1, <2>2, <2>4, <2>5 DEF Alone, Same, SameData, ClientMoves
<1>9. CASE Exit(a)
  <2>1. /\ CloseSock(a) /\ UNCHANGED <<heard, stop, hand, spool, taken, dbFaults, boots, trace>>
        /\ at[a] = "turn" /\ stop[a]
        /\ at'[a] = "off" /\ \A b \in Clients \ {a} : at'[b] = at[b]
    BY <1>1, <1>9 DEF Exit, GoesTo, ClientTypes
  <2>2. Closes(a) /\ \A b \in Clients \ {a} : sock'[b] = sock[b]
    BY <2>1, ClosesIs
  <2>3. UNCHANGED <<rx, sent, rows, pc, buf>>
    BY <2>1, CloseSockIsServer
  <2>4. Goes(a)
    BY <2>1, <2>2, <2>3 DEF Goes, SameData, Still, trace
  <2> QED
    BY <2>1, <2>2, <2>4 DEF Alone, Same, SameData, ClientMoves
<1>10. CASE StillConnected(a)
  <2>1. /\ ServerRests /\ UNCHANGED <<heard, stop, sock, hand, spool, taken, boots, trace>>
        /\ at[a] = "connect" /\ sock[a] # NoConn
        /\ at'[a] = (IF hand[a] = 0 THEN "row" ELSE "live")
        /\ \A b \in Clients \ {a} : at'[b] = at[b]
    BY <1>1, <1>10 DEF StillConnected, GoesTo, ClientTypes, local
  <2>2. Goes(a)
    BY <1>2, <2>1 DEF Goes, SameData, Still, trace
  <2> QED
    BY <2>1, <2>2 DEF Alone, Same, SameData, ClientMoves
<1>11. CASE NoRow(a)
  <2>1. /\ ServerRests /\ UNCHANGED <<heard, stop, sock, hand, spool, taken, boots, trace>>
        /\ at[a] = "row" /\ at'[a] = "turn" /\ \A b \in Clients \ {a} : at'[b] = at[b]
    BY <1>1, <1>11 DEF NoRow, GoesTo, ClientTypes
  <2>2. Goes(a)
    BY <1>2, <2>1 DEF Goes, SameData, Still, trace
  <2> QED
    BY <2>1, <2>2 DEF Alone, Same, SameData, ClientMoves
<1>12. CASE Signal(a)
  <2>1. /\ ServerRests /\ UNCHANGED <<at, heard, sock, hand, spool, taken, boots, trace>>
        /\ at[a] # "off" /\ stop'[a] /\ \A b \in Clients \ {a} : stop'[b] = stop[b]
    BY <1>1, <1>12 DEF Signal, ClientTypes
  <2>2. Goes(a)
    BY <1>2, <2>1 DEF Goes, SameData, Still, trace
  <2> QED
    BY <2>1, <2>2 DEF Alone, Same, SameData, ClientMoves
<1>13. CASE Boot(a)
  <2>1. /\ ServerRests /\ UNCHANGED <<heard, sock, hand, spool, taken, trace>>
        /\ at[a] = "off" /\ at'[a] = "turn" /\ boots'[a] = boots[a] + 1 /\ ~stop'[a]
        /\ \A b \in Clients \ {a} : at'[b] = at[b] /\ boots'[b] = boots[b] /\ stop'[b] = stop[b]
    BY <1>1, <1>13 DEF Boot, GoesTo, ClientTypes
  <2>2. Goes(a)
    BY <1>2, <2>1 DEF Goes, SameData, Still, trace
  <2> QED
    BY <2>1, <2>2 DEF Alone, Same, SameData, ClientMoves
<1> QED
  BY <1>3, <1>4, <1>5, <1>6, <1>7, <1>8, <1>9, <1>10, <1>11, <1>12, <1>13, SettleKinds
     DEF ClientStep

\* And every step is one of a client, of the server, or one that only tells.
LEMMA TelemetryKinds ==
  ASSUME TelemetryTypeOK, Turns, [TelemetryNext]_telemetryVars
  PROVE  \/ \E a \in Clients : Alone(a) /\ ClientMoves(a)
         \/ Learns
         \/ ServerMoves
<1>1. CASE UNCHANGED telemetryVars
  BY <1>1 DEF telemetryVars, vars, Learns, Still, local, network, program, trace
<1>2. CASE Hear
  BY <1>2 DEF Hear, ServerRests, vars, Learns, Still, network, program, trace
<1>3. CASE \E a \in Clients :
             ClientStep(a) \/ Signal(a) \/ SignalInWrite(a) \/ Kill(a) \/ Boot(a)
  BY <1>3, ClientKinds
<1> QED
  BY <1>1, <1>2, <1>3, BesideKinds DEF TelemetryNext

-----------------------------------------------------------------------------
(* The connections.                                                         *)

\* The server leaves a connection for ever, with nothing in it.
LEMMA ServerNet ==
  ASSUME TypeInv, ServerMoves, \A c \in Conns : net[c] \in {"idle", "gone"} => rx[c] = <<>>
  PROVE  \A c \in Conns :
           /\ net[c] = "open" => net'[c] \in {"open", "gone"}
           /\ net[c] = "gone" => net'[c] = "gone"
           /\ net'[c] \in {"idle", "gone"} => rx'[c] = <<>>
<1>1. TypeOK
  BY DEF TypeInv, Consistent
<1> DEFINE Fine == \A c \in Conns :
           /\ net[c] = "open" => net'[c] \in {"open", "gone"}
           /\ net[c] = "gone" => net'[c] = "gone"
           /\ net'[c] \in {"idle", "gone"} => rx'[c] = <<>>
<1>2. ASSUME NEW f \in Fds, NEW left, Close(f, left)
      PROVE  Fine
  <2>1. /\ \A c \in Conns : rx'[c] = IF c = owner[f] THEN <<>> ELSE rx[c]
        /\ \A c \in Conns : net'[c] = IF c = owner[f] THEN "gone" ELSE net[c]
    BY <1>1, <1>2 DEF Close, TypeOK
  <2> QED
    BY <2>1
<1>3. CASE UNCHANGED <<net, rx>>
  BY <1>3
<1>4. CASE Ends
  BY <1>1, <1>4 DEF Ends
<1>5. ASSUME NEW e \in batch, Read(e)
      PROVE  Fine
  <2>1. e.conn \in Conns
    BY <1>1, <1>5, EventTyped DEF Read
  <2>2. rx[e.conn] # <<>> /\ UNCHANGED net /\ \A c \in Conns : c # e.conn => rx'[c] = rx[c]
    <3>1. PICK n \in ReadLens(rx[e.conn]) : rx' = [rx EXCEPT ![e.conn] = After(@, n)]
      BY <1>5 DEF Read
    <3> QED
      BY <1>1, <1>5, <2>1, <3>1 DEF Read, TypeOK
  <2> QED
    BY <2>1, <2>2
<1>6. CASE Handle
  <2>1. ASSUME NEW e \in batch, HangUp(e) \/ ReadEnds(e) PROVE Fine
    <3>1. e.fd \in Fds /\ \E left : Close(e.fd, left)
      BY <1>1, <2>1, EventTyped DEF HangUp, ReadEnds
    <3> QED
      BY <1>2, <3>1
  <2>2. CASE Accept \/ AcceptFails
    BY <1>3, <2>2 DEF Accept, AcceptFails, network
  <2> QED
    BY <1>5, <1>6, <2>1, <2>2 DEF Handle
<1>7. CASE HandleAddFails
  BY <1>1, <1>7 DEF HandleAddFails, AddFails, TypeOK
<1>8. CASE Echo
  BY <1>1, <1>8 DEF Echo, TypeOK
<1>9. CASE EchoFails
  <2>1. current.fd \in Fds /\ \E left : Close(current.fd, left)
    BY <1>9 DEF EchoFails, EchoFailsThen, TypeInv, Separate, Events
  <2> QED
    BY <1>2, <2>1
<1>10. CASE EchoKills \/ Interrupt
  BY <1>4, <1>10 DEF EchoKills, Interrupt
<1>11. CASE Start \/ Wait \/ Store \/ StoreFails
  BY <1>3, <1>11 DEF Start, Wait, Store, StoreRow, StoreFails, MessageDone, network
<1>12. ASSUME NEW c \in Conns, ResetArrives(c) PROVE Fine
  BY <1>1, <1>12 DEF ResetArrives, TypeOK
<1> QED
  BY <1>6, <1>7, <1>8, <1>9, <1>10, <1>11, <1>12 DEF ServerMoves, ServerStep

\* The connection of a client is its own, and what the server has left is empty.
LEMMA SocketsStep ==
  ASSUME TypeInv, ClientInv, [TelemetryNext]_telemetryVars
  PROVE  Sockets'
<1>1. TelemetryTypeOK /\ Turns /\ Sockets /\ heard \subseteq Conns
      /\ \A b \in Clients : sock[b] \in Conns \cup {NoConn}
  BY DEF ClientInv, TelemetryTypeOK
<1>2. NoConn \notin Conns
  BY ServerAssumption
<1>3. CASE ServerMoves
  <2>1. UNCHANGED <<sock, heard>>
    BY <1>3 DEF ServerMoves, Beside, local
  <2>2. \A c \in Conns : net'[c] \in {"idle", "gone"} => rx'[c] = <<>>
    BY <1>1, <1>3, ServerNet DEF Sockets
  <2>3. \A b \in Clients : sock'[b] # NoConn => net'[sock'[b]] \in {"open", "gone"}
    BY <1>1, <1>3, <2>1, ServerNet DEF Sockets
  <2>4. \A c \in heard' : net'[c] = "gone"
    BY <1>1, <1>3, <2>1, ServerNet DEF Sockets
  <2> QED
    BY <1>1, <2>1, <2>2, <2>3, <2>4 DEF Sockets
<1>4. CASE Learns
  <2>1. UNCHANGED <<sock, net, rx>> /\ \A c \in heard' : c \in heard \/ net[c] = "gone"
    BY <1>4 DEF Learns, local, Still
  <2> QED
    BY <1>1, <2>1 DEF Sockets
<1>5. ASSUME NEW a \in Clients, Alone(a), Dials(a)
      PROVE  Sockets'
  <2>1. /\ \A b \in Clients \ {a} : sock'[b] = sock[b]
        /\ UNCHANGED <<rx, heard>>
    BY <1>5 DEF Alone, Same, Dials, Still
  <2>2. \A b \in Clients : sock[b] # sock'[a]
    BY <1>1, <1>2, <1>5 DEF Dials, Sockets
  <2>3. \A c \in heard : net'[c] = "gone"
    BY <1>1, <1>5 DEF Dials, Sockets
  <2>4. \A c \in Conns : net'[c] \in {"idle", "gone"} => rx'[c] = <<>>
    BY <1>1, <1>5, <2>1 DEF Dials, Sockets
  <2>5. \A b \in Clients : sock'[b] # NoConn => net'[sock'[b]] \in {"open", "gone"}
    BY <1>1, <1>2, <1>5, <2>1, <2>2 DEF Dials, Sockets
  <2>6. \A b, d \in Clients : sock'[b] = sock'[d] /\ sock'[b] # NoConn => b = d
    BY <1>1, <2>1, <2>2 DEF Sockets
  <2> QED
    BY <2>1, <2>3, <2>4, <2>5, <2>6 DEF Sockets
<1>6. ASSUME NEW a \in Clients, Alone(a), Closes(a), UNCHANGED <<rx, heard>>
      PROVE  Sockets'
  <2>1. /\ \A b \in Clients \ {a} : sock'[b] = sock[b]
        /\ sock'[a] = NoConn
    BY <1>6 DEF Alone, Same, Closes
  <2>2. \A c \in Conns : c # sock[a] \/ net[c] # "open" => net'[c] = net[c]
    BY <1>6 DEF Closes
  <2>3. \A c \in Conns : net'[c] \in {"idle", "gone"} => net[c] \in {"idle", "gone"}
    BY <1>6 DEF Closes
  <2>4. \A b \in Clients : sock'[b] # NoConn => net'[sock'[b]] \in {"open", "gone"}
    BY <1>1, <2>1, <2>2 DEF Sockets
  <2> QED
    BY <1>1, <1>6, <2>1, <2>2, <2>3, <2>4 DEF Sockets
<1>7. ASSUME NEW a \in Clients, Alone(a), sock'[a] = sock[a], UNCHANGED <<rx, net, heard>>
      PROVE  Sockets'
  <2>1. \A b \in Clients : sock'[b] = sock[b]
    BY <1>7 DEF Alone, Same
  <2> QED
    BY <1>1, <1>7, <2>1 DEF Sockets
<1>8. ASSUME NEW a \in Clients, Alone(a), Accepted(a), Transmits(a)
      PROVE  Sockets'
  <2>1. \A b \in Clients : sock'[b] = sock[b]
    BY <1>8 DEF Alone, Same, Accepted
  <2>2. at[a] \in {"live", "row"} /\ Sending(a) \in Samples /\ sock[a] # NoConn /\ boots[a] > 0
    BY <1>1, <1>8, SendingIs DEF Accepted
  <2>3. UNCHANGED <<net, heard>> /\ \A c \in Conns : c # sock[a] => rx'[c] = rx[c]
    BY <1>1, <1>8, <2>2, TransmitsIs DEF Accepted
  <2>4. net[sock[a]] = "open"
    BY <1>8 DEF Transmits, ClientSend
  <2> QED
    BY <1>1, <2>1, <2>3, <2>4 DEF Sockets
<1>9. ASSUME NEW a \in Clients, Alone(a), ClientMoves(a)
      PROVE  Sockets'
  <2>1. CASE Takes(a) \/ Deleted(a)
    BY <1>7, <1>9, <2>1 DEF Takes, Deleted, Still
  <2>2. CASE Settled(a) \/ Killed(a)
    BY <1>6, <1>9, <2>2 DEF Settled, Killed, Still
  <2>3. CASE Accepted(a)
    <3>1. Transmits(a) \/ (sock'[a] = sock[a] /\ UNCHANGED <<rx, net, heard>>)
      BY <2>3 DEF Accepted, Still
    <3> QED
      BY <1>7, <1>8, <1>9, <2>3, <3>1
  <2>4. CASE Goes(a)
    <3>1. UNCHANGED <<rx, heard>> /\ (Closes(a) \/ (sock'[a] = sock[a] /\ UNCHANGED net))
      BY <2>4 DEF Goes, Still
    <3> QED
      BY <1>6, <1>7, <1>9, <3>1
  <2> QED
    BY <1>5, <1>9, <2>1, <2>2, <2>3, <2>4 DEF ClientMoves
<1> QED
  BY <1>1, <1>3, <1>4, <1>9, TelemetryKinds

-----------------------------------------------------------------------------
(* The calls, the tables and what was handed over.                          *)

\* The call a client makes next tells what it has.
LEMMA TurnsStep ==
  ASSUME ClientInv, [TelemetryNext]_telemetryVars
  PROVE  Turns'
<1>1. TelemetryTypeOK /\ Turns
  BY DEF ClientInv
<1>2. CASE Learns \/ ServerMoves
  BY <1>1, <1>2 DEF Learns, ServerMoves, Beside, local, Turns
<1>3. ASSUME NEW a \in Clients, Alone(a), ClientMoves(a)
      PROVE  Turns'
  <2>1. boots[a] \in Nat /\ sock[a] \in Conns \cup {NoConn} /\ NoConn \notin Conns
    BY <1>1, ServerAssumption DEF TelemetryTypeOK
  <2>2. Accepted(a) /\ at[a] = "row" => spool[a] # <<>>
    BY <1>1, SendingIs DEF Accepted
  <2>3. /\ hand'[a] # 0 => at'[a] \in {"connect", "live"}
        /\ at'[a] = "live" => hand'[a] # 0
        /\ at'[a] \in {"live", "row"} => sock'[a] # NoConn
        /\ at'[a] = "delete" => spool'[a] # <<>>
        /\ at'[a] = "off" => sock'[a] = NoConn
        /\ at'[a] # "off" => boots'[a] > 0
    <3>1. CASE Takes(a)
      BY <1>1, <3>1 DEF Takes, Turns
    <3>2. CASE Dials(a)
      BY <1>1, <2>1, <3>2 DEF Dials, SameData, Turns
    <3>3. CASE Settled(a)
      BY <1>1, <3>3 DEF Settled, Turns
    <3>4. CASE Accepted(a)
      BY <1>1, <2>2, <3>4 DEF Accepted, Turns
    <3>5. CASE Deleted(a)
      BY <1>1, <3>5 DEF Deleted, Turns
    <3>6. CASE Killed(a)
      BY <1>1, <3>6 DEF Killed, Closes, Turns
    <3>7. CASE Goes(a)
      BY <1>1, <2>1, <3>7 DEF Goes, SameData, Closes, Turns
    <3> QED
      BY <1>3, <3>1, <3>2, <3>3, <3>4, <3>5, <3>6, <3>7 DEF ClientMoves
  <2> QED
    BY <1>1, <1>3, <2>3 DEF Alone, Same, SameData, Turns
<1> QED
  BY <1>1, <1>2, <1>3, TelemetryKinds

\* What a step does to the table and the hand of a client.
DataMoves(b) ==
  \/ SameData(b)
  \/ hand[b] = 0 /\ hand'[b] = taken[b] + 1 /\ taken'[b] = taken[b] + 1 /\ spool'[b] = spool[b]
  \/ hand'[b] = 0 /\ taken'[b] = taken[b] /\ spool'[b] = spool[b]
  \/ /\ hand[b] \in Samples /\ hand'[b] = 0 /\ taken'[b] = taken[b]
     /\ spool'[b] = Append(spool[b], hand[b])
  \/ /\ hand'[b] = hand[b] /\ taken'[b] = taken[b]
     /\ spool[b] # <<>> /\ spool'[b] = Tail(spool[b])

\* Every step does one of these to every client.
LEMMA DataKinds ==
  ASSUME TelemetryTypeOK, Turns, [TelemetryNext]_telemetryVars
  PROVE  \A b \in Clients : DataMoves(b)
<1>1. CASE Learns \/ ServerMoves
  BY <1>1 DEF Learns, ServerMoves, Beside, local, DataMoves, SameData
<1>2. ASSUME NEW a \in Clients, Alone(a), ClientMoves(a)
      PROVE  DataMoves(a)
  BY <1>2 DEF ClientMoves, Takes, Dials, Settled, Accepted, Deleted, Killed, Goes, Turns,
              DataMoves, SameData
<1> QED
  BY <1>1, <1>2, TelemetryKinds DEF Alone, Same, DataMoves

\* The table stays a queue.
LEMMA QueuesStep ==
  ASSUME ClientInv, [TelemetryNext]_telemetryVars
  PROVE  Queues'
<1> SUFFICES ASSUME NEW a \in Clients
             PROVE  /\ Ascends(spool'[a])
                    /\ \A n \in Range(spool'[a]) : n <= taken'[a]
                    /\ hand'[a] # 0 => hand'[a] = taken'[a] /\ hand'[a] \notin Range(spool'[a])
  BY DEF Queues, Ascends, Spooled
<1>1. /\ TelemetryTypeOK /\ Turns
      /\ spool[a] \in Seq(Samples) /\ taken[a] \in Nat /\ hand[a] \in Nat
  BY DEF ClientInv, TelemetryTypeOK
<1>2. /\ Ascends(spool[a])
      /\ \A n \in Range(spool[a]) : n <= taken[a]
      /\ hand[a] # 0 => hand[a] = taken[a] /\ hand[a] \notin Range(spool[a])
  BY DEF ClientInv, Queues, Ascends, Spooled
<1>3. \A n \in Range(spool[a]) : n \in Nat
  <2>1. \A i \in DOMAIN spool[a] : spool[a][i] \in Samples
    BY <1>1, ElementOfSeq, LenProperties
  <2> QED
    BY <2>1 DEF Range, Samples
<1>4. CASE SameData(a)
  BY <1>2, <1>4 DEF SameData
<1>5. CASE /\ hand[a] = 0 /\ hand'[a] = taken[a] + 1 /\ taken'[a] = taken[a] + 1
           /\ spool'[a] = spool[a]
  BY <1>1, <1>2, <1>3, <1>5
<1>6. CASE hand'[a] = 0 /\ taken'[a] = taken[a] /\ spool'[a] = spool[a]
  BY <1>2, <1>6
<1>7. CASE /\ hand[a] \in Samples /\ hand'[a] = 0 /\ taken'[a] = taken[a]
           /\ spool'[a] = Append(spool[a], hand[a])
  <2>1. hand[a] # 0 /\ hand[a] = taken[a]
    BY <1>2, <1>7 DEF Samples
  <2>2. \A m \in Range(spool[a]) : m < hand[a]
    BY <1>1, <1>2, <1>3, <2>1
  <2>3. Range(spool'[a]) = Range(spool[a]) \cup {hand[a]} /\ Ascends(spool'[a])
    BY <1>1, <1>2, <1>7, <2>2, SpoolLonger
  <2> QED
    BY <1>1, <1>2, <1>7, <2>1, <2>3
<1>8. CASE /\ hand'[a] = hand[a] /\ taken'[a] = taken[a]
           /\ spool[a] # <<>> /\ spool'[a] = Tail(spool[a])
  <2>1. Ascends(spool'[a]) /\ Range(spool'[a]) \subseteq Range(spool[a])
    BY <1>1, <1>2, <1>8, SpoolShorter
  <2> QED
    BY <1>2, <1>8, <2>1
<1> QED
  BY <1>1, <1>4, <1>5, <1>6, <1>7, <1>8, DataKinds DEF DataMoves

\* What the histories of samples gain in a step.
LEMMA PastKinds ==
  ASSUME ClientInv, [TelemetryNext]_telemetryVars
  PROVE  /\ handed \subseteq handed' /\ dropped \subseteq dropped'
         /\ vanished \subseteq vanished' /\ undeleted \subseteq undeleted'
         /\ \A a \in Clients, n \in Samples :
              <<a, n>> \in (handed' \cup dropped') \ (handed \cup dropped) =>
                n = hand[a] \/ n \in Spooled(a)
<1>1. TelemetryTypeOK /\ Turns
  BY DEF ClientInv
<1>2. CASE Learns \/ ServerMoves
  BY <1>2 DEF Learns, ServerMoves, Beside, trace
<1>3. ASSUME NEW a \in Clients, ClientMoves(a)
      PROVE  /\ handed \subseteq handed' /\ dropped \subseteq dropped'
             /\ vanished \subseteq vanished' /\ undeleted \subseteq undeleted'
             /\ \A b \in Clients, n \in Samples :
                  <<b, n>> \in (handed' \cup dropped') \ (handed \cup dropped) =>
                    n = hand[b] \/ n \in Spooled(b)
  <2>1. CASE Takes(a) \/ Dials(a) \/ Goes(a) \/ Deleted(a)
    BY <2>1 DEF Takes, Dials, Goes, Deleted, trace
  <2>2. CASE Settled(a) \/ Killed(a)
    BY <2>2 DEF Settled, Killed
  <2>3. CASE Accepted(a)
    <3>1. Sending(a) = hand[a] \/ Sending(a) \in Spooled(a)
      BY <1>1, <2>3, SendingIs DEF Accepted
    <3>2. /\ handed' = handed \cup {<<a, Sending(a)>>} /\ UNCHANGED <<dropped, undeleted>>
          /\ vanished' = vanished \/ vanished' = vanished \cup {<<a, Sending(a)>>}
      BY <2>3 DEF Accepted, Transmits
    <3> QED
      BY <3>1, <3>2
  <2> QED
    BY <1>3, <2>1, <2>2, <2>3 DEF ClientMoves
<1> QED
  BY <1>1, <1>2, <1>3, TelemetryKinds

\* A client that is about to delete a row.
LEMMA AboutToDelete ==
  ASSUME TelemetryTypeOK, Turns, [TelemetryNext]_telemetryVars, NEW a \in Clients,
         at'[a] = "delete"
  PROVE  /\ spool'[a] = spool[a]
         /\ \/ at[a] = "delete"
            \/ at[a] = "row" /\ Alone(a) /\ Accepted(a) /\ Sending(a) = Head(spool[a])
<1>1. CASE Learns \/ ServerMoves
  BY <1>1 DEF Learns, ServerMoves, Beside, local
<1>2. ASSUME NEW b \in Clients, b # a, Alone(b)
      PROVE  at[a] = "delete" /\ spool'[a] = spool[a]
  BY <1>2 DEF Alone, Same, SameData
<1>3. CASE Alone(a) /\ ClientMoves(a)
  <2>1. (Accepted(a) /\ at[a] = "row") \/ (Goes(a) /\ at[a] = "delete")
    BY <1>3 DEF ClientMoves, Takes, Dials, Settled, Accepted, Deleted, Killed, Goes
  <2>2. Accepted(a) /\ at[a] = "row" => Sending(a) = Head(spool[a]) /\ spool'[a] = spool[a]
    BY SendingIs DEF Accepted
  <2> QED
    BY <1>3, <2>1, <2>2 DEF Goes, SameData
<1> QED
  BY <1>1, <1>2, <1>3, TelemetryKinds

\* What was handed over or dropped was sampled, and a row that is deleted was handed over.
LEMMA PastStep ==
  ASSUME ClientInv, [TelemetryNext]_telemetryVars
  PROVE  Past'
<1>1. TelemetryTypeOK /\ Turns /\ Queues /\ Past
  BY DEF ClientInv
<1>2. ASSUME NEW a \in Clients, NEW n \in Samples, <<a, n>> \in handed' \cup dropped'
      PROVE  n <= taken'[a]
  <2>1. taken[a] \in Nat /\ n \in Nat /\ n # 0
    BY <1>1 DEF TelemetryTypeOK, Samples
  <2>2. n <= taken[a]
    <3>1. CASE <<a, n>> \in handed \cup dropped
      BY <1>1, <3>1 DEF Past
    <3>2. CASE n = hand[a] \/ n \in Spooled(a)
      BY <1>1, <2>1, <3>2 DEF Queues
    <3> QED
      BY <1>2, <3>1, <3>2, PastKinds
  <2>3. taken'[a] = taken[a] \/ taken'[a] = taken[a] + 1
    BY <1>1, DataKinds DEF DataMoves, SameData
  <2> QED
    BY <2>1, <2>2, <2>3
<1>3. ASSUME NEW a \in Clients, at'[a] = "delete"
      PROVE  <<a, Head(spool'[a])>> \in handed'
  <2>1. CASE at[a] = "delete"
    BY <1>1, <1>3, <2>1, AboutToDelete, PastKinds DEF Past
  <2>2. CASE Accepted(a) /\ Sending(a) = Head(spool[a])
    BY <1>1, <1>3, <2>2, AboutToDelete DEF Accepted
  <2> QED
    BY <1>1, <1>3, <2>1, <2>2, AboutToDelete
<1> QED
  BY <1>2, <1>3 DEF Past

\* The invariant of the clients is kept.
LEMMA ClientInvStep == TypeInv /\ ClientInv /\ [TelemetryNext]_telemetryVars => ClientInv'
<1> SUFFICES ASSUME TypeInv, ClientInv, [TelemetryNext]_telemetryVars
             PROVE  ClientInv'
  OBVIOUS
<1>1. TelemetryTypeOK /\ Turns
  BY DEF ClientInv
<1>2. [Next]_vars
  BY <1>1, IsServerStep
<1>3. TypeOK'
  BY <1>2, TypeInvStep DEF TypeInv, Consistent
<1>4. TelemetryTypeOK'
  BY <1>1, <1>3, ClientTypesStep DEF ClientTypes, TelemetryTypeOK
<1> QED
  BY <1>4, TurnsStep, SocketsStep, QueuesStep, PastStep DEF ClientInv

\* No client runs at the start.
LEMMA ClientInvInit == TelemetryInit => ClientInv
<1> SUFFICES ASSUME TelemetryInit
             PROVE  ClientInv
  OBVIOUS
<1>1. TypeOK
  BY TypeInit DEF TelemetryInit
<1>2. \A a \in Clients : spool[a] = <<>> /\ DOMAIN spool[a] = {} /\ Spooled(a) = {}
  BY EmptySeq DEF TelemetryInit, Spooled, Range
<1>3. ClientTypes
  <2>1. /\ <<>> \in Seq(Samples) /\ 0 \in 0 .. MaxSamples
        /\ 0 \in 0 .. MaxDbFaults /\ 0 \in 0 .. MaxBoots
    BY TelemetryAssumption, EmptySeq
  <2> QED
    BY <2>1 DEF TelemetryInit, ClientTypes
<1>4. TelemetryTypeOK
  BY <1>1, <1>3 DEF ClientTypes, TelemetryTypeOK
<1>5. Turns /\ Queues /\ Past
  BY <1>2 DEF TelemetryInit, Turns, Queues, Past
<1>6. Sockets
  BY DEF TelemetryInit, Init, Sockets
<1> QED
  BY <1>4, <1>5, <1>6 DEF ClientInv

\* It holds in every state, beside the server's own.
LEMMA ClientInvariance == TelemetrySpec => [](TypeInv /\ ClientInv)
<1>1. TelemetryInit => TypeInv /\ ClientInv
  BY TypeInvInit, ClientInvInit DEF TelemetryInit
<1>2. TypeInv /\ ClientInv /\ [TelemetryNext]_telemetryVars => (TypeInv /\ ClientInv)'
  <2>1. ClientInv /\ [TelemetryNext]_telemetryVars => [Next]_vars
    BY IsServerStep DEF ClientInv
  <2> QED
    BY <2>1, TypeInvStep, ClientInvStep
<1> QED
  BY <1>1, <1>2, PTL DEF TelemetrySpec

\* The clients are an environment that Server allows: whatever is proved of the server
\* holds of it among them (client/main.c:100-192, sock.c:78-211).
THEOREM TelemetryImplementsServer == TelemetrySpec => Spec
<1>1. TelemetryInit => Init
  BY DEF TelemetryInit
<1>2. ClientInv /\ [TelemetryNext]_telemetryVars => [Next]_vars
  BY IsServerStep DEF ClientInv
<1> QED
  BY <1>1, <1>2, ClientInvariance, PTL DEF TelemetrySpec, Spec

-----------------------------------------------------------------------------
(* Each client keeps the promise of StoreForward.                           *)

\* What a client does is a step of StoreForward for it, and none for the others.
LEMMA StoreForwardStep ==
  ASSUME ClientInv, [TelemetryNext]_telemetryVars, NEW b \in Clients
  PROVE  [SF(b)!Next]_(SF(b)!vars)
<1> DEFINE Delivered == {n \in Samples : <<b, n>> \in handed}
           Lost == {n \in Samples : <<b, n>> \in dropped}
<1>1. /\ TelemetryTypeOK /\ Turns /\ Queues /\ Past
      /\ spool[b] \in Seq(Samples) /\ taken[b] \in Nat /\ hand[b] \in 0 .. MaxSamples
  <2>1. TelemetryTypeOK /\ Turns /\ Queues /\ Past
    BY DEF ClientInv
  <2> QED
    BY <2>1 DEF TelemetryTypeOK
<1>2. Ascends(spool[b]) /\ Spooled(b) = Range(spool[b])
  BY <1>1 DEF Queues, Ascends, Spooled
<1>3. ASSUME SameData(b), Delivered' = Delivered, Lost' = Lost
      PROVE  UNCHANGED SF(b)!vars
  BY <1>3 DEF SameData, SF!vars, Spooled
<1>4. CASE Learns \/ ServerMoves
  <2>1. SameData(b) /\ UNCHANGED <<handed, dropped>>
    BY <1>4 DEF Learns, ServerMoves, Beside, local, trace, SameData
  <2> QED
    BY <1>3, <2>1
<1>5. ASSUME NEW a \in Clients, a # b, Alone(a), ClientMoves(a)
      PROVE  UNCHANGED SF(b)!vars
  <2>1. SameData(b)
    BY <1>5 DEF Alone, Same
  <2>2. Delivered' = Delivered
    <3>1. CASE Accepted(a)
      <4>1. handed' = handed \cup {<<a, Sending(a)>>} /\ Sending(a) \in Samples
        BY <1>1, <3>1, SendingIs DEF Accepted
      <4> QED
        BY <1>5, <4>1
    <3>2. CASE ~Accepted(a)
      BY <1>5, <3>2 DEF ClientMoves, Takes, Dials, Settled, Deleted, Killed, Goes, trace
    <3> QED
      BY <3>1, <3>2
  <2>3. Lost' = Lost
    <3>1. \A n \in Samples : <<b, n>> \in dropped' <=> <<b, n>> \in dropped
      BY <1>5 DEF ClientMoves, Takes, Dials, Settled, Accepted, Deleted, Killed, Goes, trace
    <3> QED
      BY <3>1
  <2> QED
    BY <1>3, <2>1, <2>2, <2>3
<1>6. CASE Takes(b)
  <2>1. UNCHANGED <<handed, dropped>> /\ Spooled(b)' = Spooled(b) /\ hand[b] = 0
    BY <1>1, <1>6 DEF Takes, trace, Spooled, Turns
  <2>2. CASE hand'[b] = 0
    BY <2>1, <2>2 DEF SF!vars
  <2>3. CASE hand'[b] = taken[b] + 1 /\ hand'[b] \in Samples
    <3>1. PICK n \in Samples : n = taken[b] + 1 /\ hand'[b] = n /\ n # 0
      BY <2>3 DEF Samples
    <3>2. \A m \in Spooled(b) \cup Delivered \cup Lost : m < n
      <4>1. \A m \in Spooled(b) : m \in Samples
        BY <1>1, ElementOfSeq, LenProperties DEF Spooled, Range
      <4>2. \A m \in Spooled(b) \cup Delivered \cup Lost : m \in Samples /\ m <= taken[b]
        BY <1>1, <4>1 DEF Queues, Past
      <4> QED
        BY <1>1, <3>1, <4>2 DEF Samples
    <3>3. SF(b)!Take(n)
      BY <2>1, <3>1, <3>2 DEF SF!Take, SF!Taken
    <3> QED
      BY <3>3 DEF SF!Next
  <2> QED
    BY <1>6, <2>2, <2>3 DEF Takes
<1>7. CASE Dials(b) \/ Goes(b)
  BY <1>3, <1>7 DEF Dials, Goes, trace
<1>8. CASE Settled(b)
  <2>1. UNCHANGED handed /\ hand'[b] = 0
    BY <1>8 DEF Settled
  <2>2. CASE hand[b] = 0 /\ spool'[b] = spool[b] /\ dropped' = dropped
    BY <2>1, <2>2 DEF SF!vars, Spooled
  <2>3. CASE hand[b] \in Samples /\ spool'[b] = Append(spool[b], hand[b]) /\ dropped' = dropped
    <3>1. PICK n \in Samples : n = hand[b] /\ n # 0
      BY <2>3 DEF Samples
    <3>2. Spooled(b)' = Spooled(b) \cup {n}
      BY <1>1, <2>3, <3>1, SpoolLonger DEF Spooled
    <3>3. SF(b)!Persist(n)
      BY <2>1, <2>3, <3>1, <3>2 DEF SF!Persist
    <3> QED
      BY <3>3 DEF SF!Next
  <2>4. CASE /\ hand[b] \in Samples /\ spool'[b] = spool[b]
             /\ dropped' = dropped \cup {<<b, hand[b]>>}
    <3>1. PICK n \in Samples : n = hand[b] /\ n # 0
      BY <2>4 DEF Samples
    <3>2. Lost' = Lost \cup {n} /\ Spooled(b)' = Spooled(b)
      BY <2>4, <3>1 DEF Spooled
    <3>3. SF(b)!Lose(n)
      BY <2>1, <3>1, <3>2 DEF SF!Lose
    <3> QED
      BY <3>3 DEF SF!Next
  <2> QED
    BY <1>8, <2>2, <2>3, <2>4 DEF Settled
<1>9. CASE Accepted(b)
  <2>1. PICK n \in Samples : n = Sending(b) /\ n # 0
    BY <1>1, <1>9, SendingIs DEF Accepted
  <2>2. /\ Delivered' = Delivered \cup {n} /\ UNCHANGED dropped
        /\ Spooled(b)' = Spooled(b)
    BY <1>9, <2>1 DEF Accepted, Spooled
  <2>3. CASE at[b] = "live"
    <3>1. n = hand[b] /\ hand'[b] = 0
      BY <1>1, <1>9, <2>1, <2>3, SendingIs DEF Accepted
    <3>2. SF(b)!HandOverFresh(n)
      BY <2>1, <2>2, <3>1 DEF SF!HandOverFresh
    <3> QED
      BY <3>2 DEF SF!Next
  <2>4. CASE at[b] = "row"
    <3>1. /\ n = Head(spool[b]) /\ spool[b] # <<>> /\ n \in Spooled(b)
          /\ hand'[b] = hand[b]
      BY <1>1, <1>9, <2>1, <2>4, SendingIs DEF Accepted
    <3>2. \A m \in Spooled(b) : n <= m
      BY <1>1, <1>2, <3>1, SpoolShorter
    <3>3. SF(b)!HandOverOldest(n)
      BY <2>2, <3>1, <3>2 DEF SF!HandOverOldest, SF!Oldest
    <3> QED
      BY <3>3 DEF SF!Next
  <2> QED
    BY <1>9, <2>3, <2>4 DEF Accepted
<1>10. CASE Deleted(b)
  <2>1. /\ UNCHANGED <<handed, dropped>> /\ hand'[b] = hand[b]
        /\ spool[b] # <<>> /\ <<b, Head(spool[b])>> \in handed
    BY <1>1, <1>10 DEF Deleted, Turns, Past
  <2>2. CASE spool'[b] = spool[b]
    BY <2>1, <2>2 DEF SF!vars, Spooled
  <2>3. CASE spool'[b] = Tail(spool[b])
    <3>1. PICK n \in Samples : n = Head(spool[b])
      BY <1>1, <2>1, SpoolShorter
    <3>2. /\ n \in Spooled(b) /\ \A m \in Spooled(b) : n <= m
          /\ Spooled(b)' = Spooled(b) \ {n}
      BY <1>1, <1>2, <2>1, <2>3, <3>1, SpoolShorter DEF Spooled
    <3>3. SF(b)!Release(n)
      BY <2>1, <3>1, <3>2 DEF SF!Release, SF!Oldest
    <3> QED
      BY <3>3 DEF SF!Next
  <2> QED
    BY <1>10, <2>2, <2>3 DEF Deleted
<1>11. CASE Killed(b)
  <2>1. UNCHANGED handed /\ hand'[b] = 0 /\ Spooled(b)' = Spooled(b)
        /\ dropped' = dropped \cup {<<b, n>> : n \in {hand[b]} \ {0}}
    BY <1>11 DEF Killed, Spooled
  <2>2. CASE hand[b] = 0
    BY <2>1, <2>2 DEF SF!vars
  <2>3. CASE hand[b] # 0
    <3>1. PICK n \in Samples : n = hand[b] /\ n # 0
      BY <1>1, <2>3 DEF Samples
    <3>2. Lost' = Lost \cup {n}
      BY <2>1, <3>1
    <3>3. SF(b)!Lose(n)
      BY <2>1, <3>1, <3>2 DEF SF!Lose
    <3> QED
      BY <3>3 DEF SF!Next
  <2> QED
    BY <2>2, <2>3
<1>12. ASSUME NEW a \in Clients, Alone(a), ClientMoves(a)
       PROVE  [SF(b)!Next]_(SF(b)!vars)
  BY <1>5, <1>6, <1>7, <1>8, <1>9, <1>10, <1>11, <1>12 DEF ClientMoves
<1> QED
  BY <1>1, <1>4, <1>12, TelemetryKinds

\* Each client keeps what StoreForward promises, with the server and its connections in
\* place of the network that Client assumes (client/main.c:100-192).
THEOREM ClientsKeepPromise == TelemetrySpec => ClientsImplement
<1>1. TelemetryInit => \A a \in Clients : SF(a)!Init
  <2> SUFFICES ASSUME TelemetryInit, NEW a \in Clients
               PROVE  SF(a)!Init
    OBVIOUS
  <2>1. hand[a] = 0 /\ Spooled(a) = {} /\ handed = {} /\ dropped = {}
    BY EmptySeq DEF TelemetryInit, Spooled, Range
  <2> QED
    BY <2>1 DEF SF!Init
<1>2. ClientInv /\ [TelemetryNext]_telemetryVars =>
        [\A a \in Clients : [SF(a)!Next]_(SF(a)!vars)]_telemetryVars
  BY StoreForwardStep
<1> QED
  BY <1>1, <1>2, ClientInvariance, PTL DEF TelemetrySpec, ClientsImplement

-----------------------------------------------------------------------------
(* What the messages carry.                                                 *)

\* Nothing a read or a write() says about messages changes.
SameMsgs ==
  /\ \A k \in Msgs : WasSent(k)' <=> WasSent(k)
  /\ UNCHANGED carries

\* Messages are sent by one kind of step.
LEMMA MessageKinds ==
  ASSUME TelemetryTypeOK, Turns, [TelemetryNext]_telemetryVars
  PROVE  \/ SameMsgs
         \/ \E a \in Clients : Alone(a) /\ Accepted(a) /\ Transmits(a)
<1>1. CASE UNCHANGED <<sent, carries>>
  BY <1>1 DEF SameMsgs, WasSent
<1>2. CASE Learns \/ ServerMoves
  BY <1>1, <1>2 DEF Learns, ServerMoves, Beside, trace, Still
<1>3. ASSUME NEW a \in Clients, Alone(a), ClientMoves(a)
      PROVE  UNCHANGED <<sent, carries>> \/ (Accepted(a) /\ Transmits(a))
  BY <1>3 DEF ClientMoves, Takes, Dials, Settled, Accepted, Deleted, Killed, Goes, Still
<1> QED
  BY <1>1, <1>2, <1>3, TelemetryKinds

\* A message that is sent, and what it is sent for.
LEMMA NewMsgIs ==
  ASSUME ClientInv, NEW a \in Clients, Accepted(a), Transmits(a)
  PROVE  LET m == NewMsg(a) IN
         /\ m \in Msgs /\ ~WasSent(m)
         /\ \A k \in Msgs : WasSent(k)' <=> WasSent(k) \/ k = m
         /\ \A k \in Msgs : k # m => carries'[k] = carries[k]
         /\ carries'[m] \in Load /\ carries'[m].client = a /\ carries'[m].n = Sending(a)
         /\ carries'[m].row <=> at[a] = "row"
         /\ carries'[m].boot = boots[a] /\ boots'[a] = boots[a]
<1>1. at[a] \in {"live", "row"} /\ Sending(a) \in Samples /\ sock[a] # NoConn /\ boots[a] > 0
  BY SendingIs DEF Accepted, ClientInv
<1>2. boots'[a] = boots[a]
  BY DEF Accepted
<1> QED
  BY <1>1, <1>2, TransmitsIs DEF ClientInv

\* A row that was sent is deleted, or stays and is known to.
LEMMA DeleteKinds ==
  ASSUME ClientInv, [TelemetryNext]_telemetryVars, NEW b \in Clients, at[b] = "delete"
  PROVE  \/ SameData(b) /\ at'[b] = "delete"
         \/ <<b, Head(spool[b])>> \in undeleted'
         \/ spool'[b] = Tail(spool[b])
<1>1. CASE Learns \/ ServerMoves
  BY <1>1 DEF Learns, ServerMoves, Beside, local, SameData
<1>2. CASE ClientMoves(b)
  BY <1>2 DEF ClientMoves, Takes, Dials, Settled, Accepted, Deleted, Killed, Goes
<1> QED
  BY <1>1, <1>2, TelemetryKinds DEF ClientInv, Alone, Same

\* Starts are only counted up.
LEMMA BootsGrow ==
  ASSUME ClientInv, [TelemetryNext]_telemetryVars, NEW b \in Clients
  PROVE  boots[b] \in Nat /\ boots'[b] \in Nat /\ boots[b] <= boots'[b]
<1>1. TelemetryTypeOK /\ Turns /\ boots[b] \in Nat
  BY DEF ClientInv, TelemetryTypeOK
<1>2. CASE Learns \/ ServerMoves
  BY <1>1, <1>2 DEF Learns, ServerMoves, Beside, local
<1>3. CASE ClientMoves(b)
  BY <1>1, <1>3 DEF ClientMoves, Takes, Dials, Settled, Accepted, Deleted, Killed, Goes
<1> QED
  BY <1>1, <1>2, <1>3, TelemetryKinds DEF Alone, Same

\* What is known of a message stays known.
LEMMA KnowsStep ==
  ASSUME ClientInv, [TelemetryNext]_telemetryVars, NEW b \in Clients, NEW m \in Msgs,
         carries[m] \in Load, carries'[m] = carries[m], Knows(b, m)
  PROVE  Knows(b, m)'
<1> DEFINE n == carries[m].n
<1>1. /\ TelemetryTypeOK /\ Turns /\ Queues
      /\ spool[b] \in Seq(Samples) /\ taken[b] \in Nat
  <2>1. TelemetryTypeOK /\ Turns /\ Queues
    BY DEF ClientInv
  <2> QED
    BY <2>1 DEF TelemetryTypeOK
<1>2. n \in Samples /\ n \in Nat /\ n # 0 /\ carries[m].boot \in Nat
  BY DEF Load, Samples
<1>3. /\ Ascends(spool[b]) /\ \A k \in Spooled(b) : k \in Nat /\ k <= taken[b]
      /\ hand[b] # 0 => hand[b] = taken[b]
  <2>1. \A k \in Spooled(b) : k \in Samples
    BY <1>1, ElementOfSeq, LenProperties DEF Spooled, Range
  <2> QED
    BY <1>1, <2>1 DEF Queues, Ascends, Samples
<1>4. DataMoves(b)
  BY <1>1, DataKinds
<1>5. n <= taken'[b] /\ n # hand'[b]
  BY <1>1, <1>2, <1>4 DEF DataMoves, SameData, Knows
<1>6. \A k \in Spooled(b)' : k \in Spooled(b) \/ (k = hand[b] /\ hand[b] # 0)
  <2>1. hand[b] \in Samples /\ spool'[b] = Append(spool[b], hand[b]) =>
          Range(spool'[b]) = Range(spool[b]) \cup {hand[b]} /\ hand[b] # 0
    BY <1>1, SpoolLonger DEF Samples
  <2>2. spool[b] # <<>> /\ spool'[b] = Tail(spool[b]) => Range(spool'[b]) \subseteq Range(spool[b])
    BY <1>1, SpoolShorter
  <2> QED
    BY <1>4, <2>1, <2>2 DEF DataMoves, SameData, Spooled
<1>7. carries[m].row => \A k \in Spooled(b)' : n <= k
  BY <1>1, <1>2, <1>3, <1>6 DEF Knows
<1>8. ASSUME n \in Spooled(b)'
      PROVE  \/ <<b, n>> \in undeleted'
             \/ at'[b] = "delete" /\ n = Head(spool'[b])
  <2>1. n \in Spooled(b)
    BY <1>6, <1>8 DEF Knows
  <2>2. CASE <<b, n>> \in undeleted
    BY <2>2, PastKinds
  <2>3. CASE at[b] = "delete" /\ n = Head(spool[b])
    <3>1. spool[b] # <<>>
      BY <1>1, <2>3 DEF Turns
    <3>2. n \notin Range(Tail(spool[b]))
      BY <1>1, <1>3, <2>3, <3>1, SpoolShorter
    <3>3. spool'[b] # Tail(spool[b])
      BY <1>8, <3>2 DEF Spooled
    <3> QED
      BY <2>3, <3>3, DeleteKinds DEF SameData
  <2> QED
    BY <2>1, <2>2, <2>3 DEF Knows
<1>9. carries[m].boot <= boots'[b]
  BY <1>2, BootsGrow DEF Knows
<1> QED
  BY <1>5, <1>7, <1>8, <1>9 DEF Knows

\* What is known of a new message.
LEMMA KnowsNew ==
  ASSUME ClientInv, NEW a \in Clients, Accepted(a), Transmits(a), NEW m \in Msgs, m = NewMsg(a)
  PROVE  Knows(a, m)'
<1> DEFINE n == Sending(a)
<1>1. /\ TelemetryTypeOK /\ Turns /\ Queues
      /\ spool[a] \in Seq(Samples) /\ taken[a] \in Nat /\ boots[a] \in Nat
  <2>1. TelemetryTypeOK /\ Turns /\ Queues
    BY DEF ClientInv
  <2> QED
    BY <2>1 DEF TelemetryTypeOK
<1>2. /\ n \in Samples /\ n # 0
      /\ at[a] = "live" => n = hand[a]
      /\ at[a] = "row" => spool[a] # <<>> /\ n = Head(spool[a]) /\ n \in Spooled(a)
      /\ at[a] \in {"live", "row"}
  BY <1>1, SendingIs DEF Accepted
<1>3. /\ carries'[m].n = n /\ carries'[m].boot = boots[a] /\ boots'[a] = boots[a]
      /\ carries'[m].row <=> at[a] = "row"
  BY NewMsgIs
<1>4. /\ spool'[a] = spool[a] /\ taken'[a] = taken[a]
      /\ \/ at[a] = "live" /\ at'[a] = "row" /\ hand'[a] = 0
         \/ at[a] = "row" /\ at'[a] = "delete" /\ hand'[a] = hand[a]
  BY DEF Accepted
<1>5. n <= taken'[a] /\ n # hand'[a]
  BY <1>1, <1>2, <1>4 DEF Queues, Turns
<1>6. at[a] = "row" => \A k \in Spooled(a)' : n <= k
  <2>1. Ascends(spool[a])
    BY <1>1 DEF Queues, Ascends
  <2> QED
    BY <1>1, <1>2, <1>4, <2>1, SpoolShorter DEF Spooled
<1>7. n \in Spooled(a)' => at'[a] = "delete" /\ n = Head(spool'[a])
  BY <1>1, <1>2, <1>4 DEF Queues, Spooled
<1>8. boots[a] <= boots'[a]
  BY <1>1, <1>3
<1> HIDE DEF n
<1> QED
  BY <1>3, <1>5, <1>6, <1>7, <1>8 DEF Knows

\* Every message is known.
LEMMA LoadsStep ==
  ASSUME ClientInv, Loads, [TelemetryNext]_telemetryVars
  PROVE  Loads'
<1>1. TelemetryTypeOK /\ Turns
  BY DEF ClientInv
<1>2. ASSUME NEW m \in Msgs, WasSent(m), carries'[m] = carries[m]
      PROVE  carries'[m] \in Load /\ Knows(carries[m].client, m)'
  <2>1. carries[m] \in Load /\ carries[m].client \in Clients /\ Knows(carries[m].client, m)
    BY <1>2 DEF Loads, Load
  <2> QED
    BY <1>2, <2>1, KnowsStep
<1>3. CASE SameMsgs
  BY <1>2, <1>3 DEF SameMsgs, Loads
<1>4. ASSUME NEW a \in Clients, Accepted(a), Transmits(a)
      PROVE  Loads'
  <2> SUFFICES ASSUME NEW k \in Msgs, WasSent(k)'
               PROVE  carries'[k] \in Load /\ Knows(carries[k].client, k)'
    BY DEF Loads
  <2>1. CASE k = NewMsg(a)
    <3>1. carries'[k] \in Load /\ carries'[k].client = a /\ Knows(a, k)'
      BY <1>4, <2>1, NewMsgIs, KnowsNew
    <3> QED
      BY <3>1 DEF Knows
  <2>2. CASE k # NewMsg(a)
    BY <1>2, <1>4, <2>2, NewMsgIs
  <2> QED
    BY <2>1, <2>2
<1> QED
  BY <1>1, <1>3, <1>4, MessageKinds

-----------------------------------------------------------------------------
(* No sample is gone without a reason, and none is sent twice without one.  *)

\* A sample that is away stays away.
LEMMA AwayStays ==
  ASSUME ClientInv, [TelemetryNext]_telemetryVars, NEW b \in Clients, NEW n, Away(b, n)
  PROVE  Away(b, n)'
<1>1. TelemetryTypeOK /\ Turns
  BY DEF ClientInv
<1>2. CASE <<b, n>> \in dropped \cup vanished
  BY <1>2, PastKinds DEF Away
<1>3. ASSUME NEW m \in Msgs, WasSent(m), LoadOf(m) = <<b, n>>
      PROVE  Away(b, n)'
  <2>1. CASE SameMsgs
    BY <1>3, <2>1 DEF SameMsgs, LoadOf, Away
  <2>2. ASSUME NEW a \in Clients, Accepted(a), Transmits(a)
        PROVE  Away(b, n)'
    <3>1. WasSent(m)' /\ carries'[m] = carries[m]
      BY <1>3, <2>2, NewMsgIs
    <3> QED
      BY <1>3, <3>1 DEF LoadOf, Away
  <2> QED
    BY <1>1, <2>1, <2>2, MessageKinds
<1> QED
  BY <1>2, <1>3 DEF Away

\* A sample that a write() has taken is away.
LEMMA AwaySent ==
  ASSUME ClientInv, NEW a \in Clients, Accepted(a), NEW n \in Samples, n = Sending(a)
  PROVE  Away(a, n)'
<1>1. CASE Transmits(a)
  <2>1. PICK m \in Msgs : /\ WasSent(m)'
                          /\ carries'[m].client = a /\ carries'[m].n = n
    BY <1>1, NewMsgIs
  <2> QED
    BY <2>1 DEF LoadOf, Away
<1>2. CASE vanished' = vanished \cup {<<a, Sending(a)>>}
  BY <1>2 DEF Away
<1> QED
  BY <1>1, <1>2 DEF Accepted

\* Samples are kept, or away.
LEMMA KeptStep ==
  ASSUME ClientInv, Kept, [TelemetryNext]_telemetryVars
  PROVE  Kept'
<1>1. /\ TelemetryTypeOK /\ Turns /\ ClientTypes'
      /\ \A b \in Clients : /\ taken[b] \in Nat /\ taken'[b] \in 0 .. MaxSamples
                            /\ spool[b] \in Seq(Samples) /\ hand[b] \in 0 .. MaxSamples
  <2>1. TelemetryTypeOK /\ Turns
    BY DEF ClientInv
  <2>2. ClientTypes'
    BY <2>1, ClientTypesStep
  <2> QED
    BY <2>1, <2>2 DEF ClientTypes, TelemetryTypeOK
<1>2. ASSUME NEW b \in Clients, NEW n \in 1 .. taken'[b]
      PROVE  n = hand'[b] \/ n \in Spooled(b)' \/ Away(b, n)'
  <2>1. n \in Samples /\ n # 0
    BY <1>1, TelemetryAssumption DEF Samples
  <2>2. n \in 1 .. taken[b] => n = hand[b] \/ n \in Spooled(b) \/ Away(b, n)'
    BY AwayStays DEF Kept
  <2>3. CASE SameData(b)
    BY <2>2, <2>3 DEF SameData, Spooled
  <2>4. CASE Takes(b)
    <3>1. hand[b] = 0 /\ Spooled(b)' = Spooled(b)
      BY <1>1, <2>4 DEF Takes, Turns, Spooled
    <3>2. CASE n \in 1 .. taken[b]
      BY <2>1, <2>2, <3>1, <3>2
    <3>3. CASE n = taken[b] + 1 /\ n = hand'[b]
      BY <3>3
    <3> QED
      BY <1>1, <2>4, <3>2, <3>3 DEF Takes
  <2>5. CASE Settled(b)
    <3>1. n \in 1 .. taken[b]
      BY <2>5 DEF Settled
    <3>2. CASE hand[b] = 0 /\ spool'[b] = spool[b]
      BY <2>1, <2>2, <3>1, <3>2 DEF Spooled
    <3>3. CASE hand[b] \in Samples /\ spool'[b] = Append(spool[b], hand[b])
      <4>1. Spooled(b)' = Spooled(b) \cup {hand[b]}
        BY <1>1, <3>3, SpoolLonger DEF Spooled
      <4> QED
        BY <2>2, <3>1, <4>1
    <3>4. CASE spool'[b] = spool[b] /\ dropped' = dropped \cup {<<b, hand[b]>>}
      <4>1. n = hand[b] => Away(b, n)'
        BY <3>4 DEF Away
      <4> QED
        BY <2>2, <3>1, <3>4, <4>1 DEF Spooled
    <3> QED
      BY <2>5, <3>2, <3>3, <3>4 DEF Settled
  <2>6. CASE Accepted(b)
    <3>1. n \in 1 .. taken[b] /\ Spooled(b)' = Spooled(b)
      BY <2>6 DEF Accepted, Spooled
    <3>2. n = hand[b] => n = hand'[b] \/ Away(b, n)'
      BY <1>1, <2>1, <2>6, SendingIs, AwaySent DEF Accepted
    <3> QED
      BY <2>2, <3>1, <3>2
  <2>7. CASE Deleted(b)
    <3>1. n \in 1 .. taken[b] /\ hand'[b] = hand[b] /\ spool[b] # <<>>
      BY <1>1, <2>7 DEF Deleted, Turns
    <3>2. n = Head(spool[b]) => Away(b, n)
      BY <2>7 DEF Deleted, Kept
    <3>3. n \in Spooled(b) => n \in Spooled(b)' \/ n = Head(spool[b])
      BY <1>1, <2>7, <3>1, SpoolShorter DEF Deleted, Spooled
    <3> QED
      BY <2>2, <3>1, <3>2, <3>3, AwayStays
  <2>8. CASE Killed(b)
    <3>1. n \in 1 .. taken[b] /\ Spooled(b)' = Spooled(b)
      BY <2>8 DEF Killed, Spooled
    <3>2. n = hand[b] => Away(b, n)'
      BY <2>1, <2>8 DEF Killed, Away
    <3> QED
      BY <2>2, <3>1, <3>2
  <2>9. CASE Learns \/ ServerMoves
    BY <2>3, <2>9 DEF Learns, ServerMoves, Beside, local, SameData
  <2>10. ASSUME NEW a \in Clients, Alone(a), ClientMoves(a)
         PROVE  n = hand'[b] \/ n \in Spooled(b)' \/ Away(b, n)'
    <3>1. CASE b # a
      BY <2>3, <2>10, <3>1 DEF Alone, Same
    <3>2. CASE b = a
      BY <2>3, <2>4, <2>5, <2>6, <2>7, <2>8, <2>10, <3>2 DEF ClientMoves, Dials, Goes
    <3> QED
      BY <3>1, <3>2
  <2> QED
    BY <1>1, <2>9, <2>10, TelemetryKinds
<1>3. ASSUME NEW a \in Clients, at'[a] = "delete"
      PROVE  Away(a, Head(spool[a]))'
  <2>1. /\ spool'[a] = spool[a]
        /\ at[a] = "delete" \/ (at[a] = "row" /\ Accepted(a) /\ Sending(a) = Head(spool[a]))
    BY <1>1, <1>3, AboutToDelete
  <2>2. PICK n \in Samples : n = Head(spool[a])
    <3>1. spool[a] # <<>>
      BY <1>1, <2>1, SendingIs DEF Turns, Accepted
    <3> QED
      BY <1>1, <3>1, SpoolShorter
  <2>3. Away(a, n)'
    BY <2>1, <2>2, AwayStays, AwaySent DEF Kept
  <2> QED
    BY <2>1, <2>2, <2>3 DEF Away
<1> QED
  BY <1>2, <1>3 DEF Kept

\* A row that is sent again was not deleted after it was sent before.
LEMMA SentAgain ==
  ASSUME ClientInv, Loads, NEW a \in Clients, Accepted(a),
         NEW k \in Msgs, WasSent(k), LoadOf(k) = <<a, Sending(a)>>
  PROVE  LoadOf(k) \in undeleted
<1>1. carries[k] \in Load /\ carries[k].client = a /\ carries[k].n = Sending(a)
  BY DEF Loads, LoadOf
<1>2. Knows(a, k)
  BY <1>1 DEF Loads
<1>3. Sending(a) \in Spooled(a) /\ at[a] = "row"
  BY <1>1, <1>2, SendingIs DEF Knows, Accepted, ClientInv
<1> QED
  BY <1>1, <1>2, <1>3 DEF Knows, LoadOf

\* Two messages for one sample are of a row that was not deleted.
LEMMA SentTwiceStep ==
  ASSUME ClientInv, Loads, SentTwice, [TelemetryNext]_telemetryVars
  PROVE  SentTwice'
<1>1. TelemetryTypeOK /\ Turns /\ undeleted \subseteq undeleted'
  BY PastKinds DEF ClientInv
<1>2. CASE SameMsgs
  BY <1>1, <1>2 DEF SameMsgs, SentTwice, LoadOf
<1>3. ASSUME NEW a \in Clients, Accepted(a), Transmits(a)
      PROVE  SentTwice'
  <2>1. ASSUME NEW k \in Msgs, WasSent(k), LoadOf(k) = <<a, Sending(a)>>
        PROVE  LoadOf(k) \in undeleted'
    BY <1>1, <1>3, <2>1, SentAgain
  <2>2. PICK new \in Msgs :
          /\ \A k \in Msgs : WasSent(k)' <=> WasSent(k) \/ k = new
          /\ \A k \in Msgs : k # new => carries'[k] = carries[k]
          /\ carries'[new].client = a /\ carries'[new].n = Sending(a)
    BY <1>3, NewMsgIs
  <2>3. \A k \in Msgs : k # new => LoadOf(k)' = LoadOf(k)
    BY <2>2 DEF LoadOf
  <2>4. LoadOf(new)' = <<a, Sending(a)>>
    BY <2>2 DEF LoadOf
  <2> SUFFICES ASSUME NEW k \in Msgs, NEW m \in Msgs, WasSent(k)', WasSent(m)', k # m,
                      LoadOf(k)' = LoadOf(m)'
               PROVE  LoadOf(k)' \in undeleted'
    BY DEF SentTwice
  <2>5. CASE k # new /\ m # new
    BY <1>1, <2>2, <2>3, <2>5 DEF SentTwice
  <2>6. CASE k # new /\ m = new
    BY <2>1, <2>2, <2>3, <2>4, <2>6
  <2>7. CASE k = new /\ m # new
    BY <2>1, <2>2, <2>3, <2>4, <2>7
  <2> QED
    BY <2>5, <2>6, <2>7
<1> QED
  BY <1>1, <1>2, <1>3, MessageKinds

\* What the messages carry stays as it should be, and is at the start.
LEMMA LoadInvStep == ClientInv /\ LoadInv /\ [TelemetryNext]_telemetryVars => LoadInv'
BY LoadsStep, KeptStep, SentTwiceStep DEF LoadInv

\* No message, no sample.
LEMMA LoadInvInit == TelemetryInit => LoadInv
<1> SUFFICES ASSUME TelemetryInit PROVE LoadInv
  OBVIOUS
<1>1. \A m \in Msgs : ~WasSent(m)
  BY ServerAssumption DEF TelemetryInit, Init, WasSent, Msgs
<1>2. \A a \in Clients : at[a] = "off" /\ taken[a] = 0
  BY DEF TelemetryInit
<1>3. Kept
  BY <1>2 DEF Kept
<1> QED
  BY <1>1, <1>3 DEF LoadInv, Loads, SentTwice

-----------------------------------------------------------------------------
(* From the sensor to the server's table.                                   *)

\* All that is proved of a state but for the order of the rows.
LEMMA TransportInvariance ==
  WholeReads => (TelemetrySpec => [](TypeInv /\ DataInv /\ ClientInv /\ LoadInv))
<1> SUFFICES ASSUME WholeReads
             PROVE  TelemetrySpec => [](TypeInv /\ DataInv /\ ClientInv /\ LoadInv)
  OBVIOUS
<1>1. Spec => [](TypeInv /\ DataInv)
  BY DataInvariance
<1>2. ClientInv /\ LoadInv /\ [TelemetryNext]_telemetryVars => LoadInv'
  BY LoadInvStep
<1> QED
  BY <1>1, <1>2, LoadInvInit, ClientInvariance, TelemetryImplementsServer, PTL DEF TelemetrySpec

\* What was sampled and is not in the client any more was sent, and what was sent is in
\* the socket, in the server, in its table, or lost.
LEMMA SamplesAreKept ==
  ASSUME TypeInv, DataInv, LoadInv
  PROVE  SamplesKept
<1> SUFFICES ASSUME NEW a \in Clients, NEW n \in 1 .. taken[a],
                    n # hand[a], n \notin Spooled(a), <<a, n>> \notin dropped \cup vanished
             PROVE  <<a, n>> \in
                      LoadsOf((UNION {Unread(c) : c \in Conns}) \cup Held \cup StoredMsgs)
                        \cup LoadsOf(lost)
  BY DEF SamplesKept
<1>1. PICK m \in Msgs : WasSent(m) /\ LoadOf(m) = <<a, n>>
  BY DEF LoadInv, Kept, Away
<1>2. m \in Unread(m[1]) \cup Held \cup StoredMsgs \cup lost /\ m[1] \in Conns
  BY <1>1 DEF DataInv, Accounted, WasSent, Msgs
<1>3. CASE m \in lost
  BY <1>1, <1>3 DEF LoadsOf
<1>4. CASE m \in (UNION {Unread(c) : c \in Conns}) \cup Held \cup StoredMsgs
  BY <1>1, <1>4 DEF LoadsOf
<1> QED
  BY <1>2, <1>3, <1>4

\* No sample vanishes without a known failure, with every variable in its range and the
\* server consistent beside its clients (client/main.c:100-192, server/main.c:95-171).
THEOREM NothingVanishes == WholeReads => (TelemetrySpec => []EndToEnd)
<1> SUFFICES ASSUME WholeReads PROVE TelemetrySpec => []EndToEnd
  OBVIOUS
<1>1. TypeInv /\ DataInv /\ ClientInv /\ LoadInv => EndToEnd
  BY SamplesAreKept DEF TypeInv, ClientInv, EndToEnd
<1> QED
  BY <1>1, TransportInvariance, PTL

\* A reading is in the server's table twice only if its row was not deleted after it was
\* sent (client/main.c:157-187).
THEOREM TwiceOnlyIfUndeleted == WholeReads => (TelemetrySpec => []TwiceExplained)
<1> SUFFICES ASSUME WholeReads PROVE TelemetrySpec => []TwiceExplained
  OBVIOUS
<1>1. ASSUME TypeInv, DataInv, LoadInv
      PROVE  TwiceExplained
  <2> SUFFICES ASSUME NEW i \in DOMAIN rows, NEW j \in DOMAIN rows, i # j,
                      LoadOf(rows[i].time.of) = LoadOf(rows[j].time.of)
               PROVE  LoadOf(rows[i].time.of) \in undeleted
    BY DEF TwiceExplained
  <2>1. i \in Nat /\ j \in Nat
    BY <1>1, LenProperties DEF TypeInv, Consistent, TypeOK
  <2>2. PICK k \in Msgs : k = rows[i].time.of /\ WasSent(k)
    BY <1>1 DEF DataInv, RowsSent, WasSent
  <2>3. PICK m \in Msgs : m = rows[j].time.of /\ WasSent(m)
    BY <1>1 DEF DataInv, RowsSent, WasSent
  <2>4. k[2] \in Nat /\ m[2] \in Nat
    BY DEF Msgs
  <2>5. k # m
    <3>1. i < j /\ k[1] = m[1] => k[2] < m[2]
      BY <1>1, <2>2, <2>3 DEF DataInv, Sequence, StoredInOrder
    <3>2. j < i /\ k[1] = m[1] => m[2] < k[2]
      BY <1>1, <2>2, <2>3 DEF DataInv, Sequence, StoredInOrder
    <3> QED
      BY <2>1, <2>4, <3>1, <3>2
  <2> QED
    BY <1>1, <2>2, <2>3, <2>5 DEF LoadInv, SentTwice
<1> QED
  BY <1>1, TransportInvariance, PTL

-----------------------------------------------------------------------------
(* The order in which the server stores what the clients send.              *)

\* Where a message is, and that a client sent it.
LEMMA PendingIs ==
  ASSUME WholeReads, TypeInv, NEW m \in Pending
  PROVE  m \in Msgs /\ WasSent(m) /\ m[1] \in Conns /\ m \in Unread(m[1])
<1>1. PICK c \in Conns : m \in Unread(c)
  BY DEF Pending
<1>2. PICK i \in DOMAIN rx[c] : rx[c][i].of = m /\ m # NoMsg
  BY <1>1, UnreadIs
<1>3. rx[c][i] # Nul
  BY <1>2 DEF Nul, Word
<1>4. m \in Msgs /\ m[1] = c /\ m[2] <= sent[c]
  BY <1>2, <1>3 DEF TypeInv, Streams, SentOn
<1> QED
  BY <1>1, <1>4 DEF WasSent

\* What is stored or in buf was sent.
LEMMA StoredIs ==
  ASSUME DataInv
  PROVE  /\ \A k \in StoredMsgs : k \in Msgs /\ WasSent(k)
         /\ \A k \in Held : k \in Msgs /\ WasSent(k)
<1>1. \A k \in StoredMsgs : k \in Msgs /\ WasSent(k)
  BY DEF DataInv, RowsSent, StoredMsgs, WasSent
<1>2. \A k \in Held : k = HeldMsg /\ Handling
  BY HeldIs DEF DataInv
<1> QED
  BY <1>1, <1>2 DEF DataInv, HeldWhole, WasSent

\* What is unread when a socket is left alone or closed.
LEMMA PendingShrinks ==
  ASSUME \A c \in Conns : rx'[c] \in {rx[c], <<>>}
  PROVE  Pending' \subseteq Pending
<1>1. ASSUME NEW c \in Conns
      PROVE  Unread(c)' \subseteq Unread(c)
  <2>1. CASE rx'[c] = rx[c]
    BY <2>1 DEF Unread
  <2>2. CASE rx'[c] = <<>>
    BY <2>2, EmptySeq DEF Unread, Range
  <2> QED
    BY <2>1, <2>2
<1> QED
  BY <1>1 DEF Pending

\* A message goes from a socket to buf and from there to the table, or nowhere.
Stays == UNCHANGED rows /\ Held' \subseteq Held /\ Pending' \subseteq Pending
IsRead == UNCHANGED rows /\ Held' \subseteq Pending /\ Pending' \subseteq Pending
IsStored ==
  /\ Held' = {} /\ Pending' \subseteq Pending
  /\ \E h \in Held :
       /\ StoredMsgs' \subseteq StoredMsgs \cup {h}
       /\ \A i \in DOMAIN rows : Before(rows[i].time.of, h)
       /\ \A i, j \in DOMAIN rows' : i < j =>
            /\ i \in DOMAIN rows /\ rows'[i] = rows[i]
            /\ \/ j \in DOMAIN rows /\ rows'[j] = rows[j]
               \/ rows'[j].time.of = h

\* A read() takes one message out of a socket.
LEMMA ReadFlows ==
  ASSUME WholeReads, TypeInv, NEW e \in batch, Read(e), UNCHANGED rows
  PROVE  IsRead
<1>1. PICK c \in Conns : c = e.conn
  BY ReadMoves
<1>2. PICK m \in Msgs : m = rx[c][1].of
  BY <1>1, ReadMoves
<1>3. /\ \A d \in Conns \ {c} : rx'[d] = rx[d]
      /\ MessageAt(rx[c], 1) /\ 1 \in DOMAIN rx[c]
      /\ \A i \in 1 .. 3 : buf'[i] = rx[c][i]
      /\ \A i \in DOMAIN rx'[c] : \E j \in DOMAIN rx[c] : rx'[c][i] = rx[c][j]
  BY <1>1, ReadMoves
<1>4. buf'[1].of = m /\ buf'[2].of = m /\ buf'[3].of = m
  <2>1. rx[c][1].of = m /\ rx[c][2].of = m /\ rx[c][3].of = m
    BY <1>2, <1>3 DEF MessageAt, Word
  <2> QED
    BY <1>3, <2>1
<1>5. Held' \subseteq {m}
  <2>1. {buf'[i].of : i \in 1 .. 3} = {m}
    BY <1>4
  <2> QED
    BY <2>1 DEF Held
<1>6. m # NoMsg
  BY ServerAssumption DEF Msgs, NoMsg
<1>7. m \in Unread(c)
  BY <1>2, <1>3, <1>6, UnreadIs
<1>8. Unread(c)' \subseteq Unread(c)
  <2>1. \A d \in Conns : Unread(d) = {rx[d][i].of : i \in DOMAIN rx[d]} \ {NoMsg}
    BY UnreadIs
  <2>2. Unread(c)' = {rx'[c][i].of : i \in DOMAIN rx'[c]} \ {NoMsg}
    BY DEF Unread, Range
  <2> QED
    BY <1>3, <2>1, <2>2
<1>9. \A d \in Conns \ {c} : Unread(d)' = Unread(d)
  BY <1>3 DEF Unread
<1> QED
  BY <1>5, <1>7, <1>8, <1>9 DEF IsRead, Pending

\* The message in buf becomes the last row.
LEMMA StoreFlows ==
  ASSUME WholeReads, TypeInv, DataInv, Store
  PROVE  IsStored
<1> DEFINE m == HeldMsg
<1>1. /\ Handling /\ ~Handling' /\ rows' = Append(rows, Split) /\ UNCHANGED rx
  BY DEF Store, StoreRow, MessageDone, Handling, network
<1>2. Split.time.of = m /\ Held = {m}
  BY <1>1, SplitIsRow, HeldIs DEF DataInv
<1>3. /\ DOMAIN rows = 1 .. Len(rows) /\ Len(rows) \in Nat
      /\ DOMAIN rows' = 1 .. Len(rows) + 1
      /\ \A i \in 1 .. Len(rows) : rows'[i] = rows[i]
      /\ rows'[Len(rows) + 1] = Split
  BY <1>1, AppendAt, SplitTypes, LenProperties DEF TypeInv, Consistent, TypeOK
<1>4. \A i \in DOMAIN rows' :
        \/ i \in DOMAIN rows /\ rows'[i] = rows[i]
        \/ i = Len(rows) + 1 /\ rows'[i].time.of = m
  BY <1>2, <1>3
<1>5. \A i, j \in DOMAIN rows' : i < j => i \in DOMAIN rows /\ rows'[i] = rows[i]
  BY <1>3
<1>6. \A i \in DOMAIN rows : Before(rows[i].time.of, m)
  BY <1>1 DEF DataInv, Sequence
<1>7. Held' = {} /\ Pending' = Pending
  BY <1>1 DEF Held, Handling, Pending, Unread
<1> HIDE DEF m
<1>8. StoredMsgs' \subseteq StoredMsgs \cup {m}
  BY <1>4 DEF StoredMsgs
<1> QED
  BY <1>2, <1>4, <1>5, <1>6, <1>7, <1>8 DEF IsStored

\* The server does nothing else with messages.
LEMMA ServerFlows ==
  ASSUME WholeReads, TypeInv, DataInv, ServerMoves
  PROVE  Stays \/ IsRead \/ IsStored
<1>1. [Next]_vars /\ UNCHANGED sent
  BY DEF ServerMoves
<1>2. CASE Handle /\ \E e \in batch : Read(e)
  BY <1>2, ReadFlows DEF Handle
<1>3. ~(Environment /\ \E c \in Conns : ClientSend(c))
  <2> SUFFICES ASSUME NEW c \in Conns, ClientSend(c) PROVE FALSE
    OBVIOUS
  <2>1. sent'[c] = sent[c] + 1 /\ sent[c] \in Nat
    BY SendMoves
  <2> QED
    BY <1>1, <2>1
<1>4. CASE Store
  BY <1>4, StoreFlows
<1>5. CASE StoreFails
  <2>1. UNCHANGED <<rows, rx>> /\ ~Handling'
    BY <1>5 DEF StoreFails, MessageDone, Handling, network
  <2> QED
    BY <2>1 DEF Stays, Held, Handling, Pending, Unread
<1>6. CASE Quiet
  <2>1. Held' \subseteq Held
    BY <1>6 DEF Quiet, Held, Handling
  <2>2. Pending' \subseteq Pending
    BY <1>6, PendingShrinks DEF Quiet
  <2> QED
    BY <1>6, <2>1, <2>2 DEF Quiet, Stays
<1> QED
  BY <1>1, <1>2, <1>3, <1>4, <1>5, <1>6, StepKinds

\* The messages of one run that are unread are on the connection it sends on, and a step
\* of the server reads some.
LEMMA OneConnBesideServer ==
  ASSUME OneConn, UNCHANGED <<at, stop, sock, boots, carries>>, Pending' \subseteq Pending
  PROVE  OneConn'
<1>1. \A k, m \in Pending' : SameRun(k, m)' => k[1] = m[1]
  BY DEF OneConn, SameRun
<1>2. ASSUME NEW m \in Pending', carries'[m].boot = boots'[carries'[m].client]
      PROVE  m[1] = sock'[carries'[m].client] \/ Finished(carries[m].client)'
  BY <1>2 DEF OneConn, Finished
<1> QED
  BY <1>1, <1>2 DEF OneConn

\* The order of the rows follows from that of the messages.
LEMMA OrderBesideServer ==
  ASSUME WholeReads, TypeInv, DataInv, OrderInv, ServerMoves
  PROVE  OrderInv'
<1>1. UNCHANGED <<at, stop, sock, boots, carries, sent>>
  BY DEF ServerMoves, Beside, local, trace
<1>2. Pending' \subseteq Pending /\ OneConn /\ InTurn /\ LateExplained
  BY ServerFlows DEF Stays, IsRead, IsStored, OrderInv
<1>3. OneConn'
  BY <1>1, <1>2, OneConnBesideServer
<1>4. \A k, m \in Msgs :
        WasSent(k)' /\ WasSent(m)' /\ k[1] = m[1] /\ k[2] < m[2] => MayFollow(k, m)'
  BY <1>1, <1>2 DEF InTurn, WasSent, MayFollow, SameRun
<1>5. ASSUME NEW k, NEW m, MayFollow(k, m)
      PROVE  MayFollow(k, m)'
  BY <1>1, <1>5 DEF MayFollow, SameRun
<1>6. ASSUME NEW k \in Pending, NEW m \in Pending, k[1] # m[1]
      PROVE  MayFollow(k, m)
  BY <1>2, <1>6 DEF OneConn, MayFollow
<1>7. CASE Stays
  <2>1. StoredMsgs' = StoredMsgs /\ Held' \subseteq Held /\ LateExplained'
    BY <1>1, <1>2, <1>7 DEF Stays, StoredMsgs, LateExplained
  <2>2. \A k \in StoredMsgs' \cup Held', m \in Pending' : k[1] # m[1] => MayFollow(k, m)'
    BY <1>2, <1>5, <2>1 DEF InTurn
  <2>3. \A k \in StoredMsgs', m \in Held' : k[1] # m[1] => MayFollow(k, m)'
    BY <1>2, <1>5, <2>1 DEF InTurn
  <2> QED
    BY <1>3, <1>4, <2>1, <2>2, <2>3 DEF OrderInv, InTurn
<1>8. CASE IsRead
  <2>1. StoredMsgs' = StoredMsgs /\ Held' \subseteq Pending /\ LateExplained'
    BY <1>1, <1>2, <1>8 DEF IsRead, StoredMsgs, LateExplained
  <2>2. \A k \in StoredMsgs' \cup Held', m \in Pending' : k[1] # m[1] => MayFollow(k, m)'
    BY <1>2, <1>5, <1>6, <2>1 DEF InTurn
  <2>3. \A k \in StoredMsgs', m \in Held' : k[1] # m[1] => MayFollow(k, m)'
    BY <1>2, <1>5, <2>1 DEF InTurn
  <2> QED
    BY <1>3, <1>4, <2>1, <2>2, <2>3 DEF OrderInv, InTurn
<1>9. CASE IsStored
  <2>1. PICK h \in Held :
          /\ StoredMsgs' \subseteq StoredMsgs \cup {h}
          /\ \A i \in DOMAIN rows : Before(rows[i].time.of, h)
          /\ \A i, j \in DOMAIN rows' : i < j =>
               /\ i \in DOMAIN rows /\ rows'[i] = rows[i]
               /\ \/ j \in DOMAIN rows /\ rows'[j] = rows[j]
                  \/ rows'[j].time.of = h
    BY <1>9 DEF IsStored
  <2>2. \A k \in StoredMsgs' \cup Held', m \in Pending' : k[1] # m[1] => MayFollow(k, m)'
    BY <1>2, <1>5, <1>9, <2>1 DEF InTurn, IsStored
  <2>3. \A k \in StoredMsgs', m \in Held' : k[1] # m[1] => MayFollow(k, m)'
    BY <1>9 DEF IsStored
  <2>4. ASSUME NEW i \in DOMAIN rows
        PROVE  MayFollow(rows[i].time.of, h)
    <3>1. PICK k \in Msgs : k = rows[i].time.of /\ WasSent(k)
      BY DEF DataInv, RowsSent, WasSent
    <3>2. k \in StoredMsgs /\ h \in Msgs /\ WasSent(h) /\ Before(k, h)
      BY <2>1, <3>1, StoredIs DEF StoredMsgs
    <3>3. MayFollow(k, h)
      BY <1>2, <3>1, <3>2 DEF InTurn, Before
    <3> QED
      BY <3>1, <3>3
  <2>5. LateExplained'
    <3> SUFFICES ASSUME NEW i \in DOMAIN rows', NEW j \in DOMAIN rows', i < j,
                        carries[rows'[i].time.of].client = carries[rows'[j].time.of].client,
                        carries[rows'[i].time.of].boot = carries[rows'[j].time.of].boot,
                        carries[rows'[i].time.of].n > carries[rows'[j].time.of].n
                 PROVE  carries[rows'[j].time.of].row /\ ~carries[rows'[i].time.of].row
      BY <1>1 DEF LateExplained
    <3>1. i \in DOMAIN rows /\ rows'[i] = rows[i]
      BY <2>1
    <3>2. CASE j \in DOMAIN rows /\ rows'[j] = rows[j]
      BY <1>2, <3>1, <3>2 DEF LateExplained
    <3>3. CASE rows'[j].time.of = h
      BY <2>4, <3>1, <3>3 DEF MayFollow, SameRun
    <3> QED
      BY <2>1, <3>2, <3>3
  <2> QED
    BY <1>3, <1>4, <2>2, <2>3, <2>5 DEF OrderInv, InTurn
<1> QED
  BY <1>7, <1>8, <1>9, ServerFlows

\* A message of a client may be stored behind all that it sent before.
LEMMA NewMayFollow ==
  ASSUME ClientInv, Loads, NEW a \in Clients, Accepted(a), Transmits(a),
         NEW m \in Msgs, m = NewMsg(a), NEW k \in Msgs, WasSent(k)
  PROVE  MayFollow(k, m)'
<1>1. /\ carries'[k] = carries[k] /\ carries'[m].client = a /\ carries'[m].n = Sending(a)
      /\ carries'[m].row <=> at[a] = "row"
  BY NewMsgIs
<1>2. at[a] \in {"live", "row"} /\ Sending(a) \in Samples
  BY SendingIs DEF Accepted, ClientInv
<1>3. Sending(a) \in Nat /\ taken[a] \in Nat
  BY <1>2 DEF Samples, ClientInv, TelemetryTypeOK
<1> SUFFICES ASSUME carries[k].client = a, carries[k].n > Sending(a)
             PROVE  at[a] = "row" /\ ~carries[k].row
  BY <1>1 DEF MayFollow, SameRun
<1>4. carries[k] \in Load /\ Knows(a, k) /\ carries[k].n \in Nat
  BY DEF Loads, Load, Samples
<1>5. at[a] # "live"
  <2>1. at[a] = "live" => Sending(a) = hand[a] /\ hand[a] = taken[a]
    BY <1>2, SendingIs DEF Accepted, ClientInv, Turns, Queues
  <2> QED
    BY <1>3, <1>4, <2>1 DEF Knows
<1>6. Sending(a) \in Spooled(a)
  BY <1>2, <1>5, SendingIs DEF Accepted, ClientInv
<1> QED
  BY <1>2, <1>3, <1>4, <1>5, <1>6 DEF Knows

\* A message is sent: it comes last on the connection its run sends on.
LEMMA OrderTransmits ==
  ASSUME WholeReads, TypeInv, DataInv, ClientInv, Loads, OrderInv,
         NEW a \in Clients, Alone(a), Accepted(a), Transmits(a)
  PROVE  OrderInv'
<1>1. TelemetryTypeOK /\ Turns /\ OneConn /\ InTurn /\ LateExplained
  BY DEF ClientInv, OrderInv
<1>2. /\ at[a] \in {"live", "row"} /\ at'[a] \in {"row", "delete"} /\ sock[a] # NoConn
      /\ Sending(a) \in Samples /\ boots[a] > 0
      /\ \A b \in Clients : sock'[b] = sock[b] /\ boots'[b] = boots[b]
      /\ \A b \in Clients \ {a} : at'[b] = at[b] /\ stop'[b] = stop[b]
  BY <1>1, SendingIs DEF Accepted, Alone, Same
<1>3. PICK new \in Msgs :
        /\ new = NewMsg(a) /\ ~WasSent(new) /\ new[1] = sock[a]
        /\ \A k \in Msgs : WasSent(k)' <=> WasSent(k) \/ k = new
        /\ \A k \in Msgs : k[1] = new[1] => (WasSent(k) <=> k[2] < new[2])
        /\ \A k \in Msgs : k # new => carries'[k] = carries[k]
        /\ carries'[new] \in Load /\ carries'[new].client = a /\ carries'[new].boot = boots[a]
        /\ UNCHANGED <<rows, pc, buf>>
        /\ \A c \in Conns : Unread(c)' \subseteq Unread(c) \cup {new}
  BY <1>1, <1>2, TransmitsIs
<1>4. StoredMsgs' = StoredMsgs /\ Held' = Held
  BY <1>3 DEF StoredMsgs, Held
<1>5. Pending' \subseteq Pending \cup {new}
  BY <1>3 DEF Pending
<1>6. \A k \in Pending : k \in Msgs /\ WasSent(k) /\ carries'[k] = carries[k] /\ k # new
  BY <1>3, PendingIs
<1>7. \A k \in StoredMsgs \cup Held : k \in Msgs /\ WasSent(k) /\ carries'[k] = carries[k]
  BY <1>3, StoredIs
<1>8. \A k \in Msgs : WasSent(k) => MayFollow(k, new)'
  BY <1>3, NewMayFollow
<1>9. ASSUME NEW k \in Msgs, NEW m \in Msgs, WasSent(k), WasSent(m), MayFollow(k, m)
      PROVE  MayFollow(k, m)'
  BY <1>3, <1>9 DEF MayFollow, SameRun
<1>10. ASSUME NEW k \in Pending, carries[k].client = a, carries[k].boot = boots[a]
       PROVE  k[1] = new[1]
  BY <1>1, <1>2, <1>3, <1>10 DEF OneConn, Finished
<1>11. OneConn'
  <2>1. ASSUME NEW k \in Pending', NEW m \in Pending', SameRun(k, m)'
        PROVE  k[1] = m[1]
    <3>1. CASE k = new /\ m = new
      BY <3>1
    <3>2. CASE k \in Pending /\ m \in Pending
      BY <1>1, <1>6, <2>1, <3>2 DEF OneConn, SameRun
    <3>3. CASE k \in Pending /\ m = new
      BY <1>3, <1>6, <1>10, <2>1, <3>3 DEF SameRun
    <3>4. CASE k = new /\ m \in Pending
      BY <1>3, <1>6, <1>10, <2>1, <3>4 DEF SameRun
    <3> QED
      BY <1>5, <3>1, <3>2, <3>3, <3>4
  <2>2. ASSUME NEW m \in Pending', carries'[m].boot = boots'[carries'[m].client]
        PROVE  m[1] = sock'[carries'[m].client] \/ Finished(carries[m].client)'
    <3>1. CASE m = new
      BY <1>2, <1>3, <3>1
    <3>2. CASE m \in Pending
      <4>1. PICK b \in Clients : b = carries[m].client
        BY <1>6, <3>2 DEF Loads, Load
      <4>2. carries'[m] = carries[m] /\ boots'[b] = boots[b] /\ sock'[b] = sock[b]
        BY <1>2, <1>6, <3>2
      <4>3. m[1] = sock[b] \/ Finished(b)
        BY <1>1, <2>2, <3>2, <4>1, <4>2 DEF OneConn
      <4>4. Finished(b) => Finished(b)'
        BY <1>2 DEF Finished
      <4> QED
        BY <4>1, <4>2, <4>3, <4>4 DEF Finished
    <3> QED
      BY <1>5, <3>1, <3>2
  <2> QED
    BY <2>1, <2>2 DEF OneConn
<1>12. InTurn'
  <2>1. ASSUME NEW k \in Msgs, NEW m \in Msgs, WasSent(k)', WasSent(m)',
               k[1] = m[1], k[2] < m[2]
        PROVE  MayFollow(k, m)'
    <3>1. CASE WasSent(k) /\ WasSent(m)
      BY <1>1, <1>9, <2>1, <3>1 DEF InTurn
    <3>2. CASE WasSent(k) /\ m = new
      BY <1>8, <3>2
    <3>3. k # new
      <4>1. k[2] \in Nat /\ m[2] \in Nat
        BY DEF Msgs
      <4> QED
        BY <1>3, <2>1, <4>1
    <3> QED
      BY <1>3, <2>1, <3>1, <3>2, <3>3
  <2>2. ASSUME NEW k \in StoredMsgs \cup Held, NEW m \in Pending', k[1] # m[1]
        PROVE  MayFollow(k, m)'
    <3>1. CASE m = new
      BY <1>7, <1>8, <3>1
    <3>2. CASE m \in Pending
      BY <1>1, <1>6, <1>7, <1>9, <2>2, <3>2 DEF InTurn
    <3> QED
      BY <1>5, <3>1, <3>2
  <2>3. ASSUME NEW k \in StoredMsgs, NEW m \in Held, k[1] # m[1]
        PROVE  MayFollow(k, m)'
    BY <1>1, <1>7, <1>9, <2>3 DEF InTurn
  <2> QED
    BY <1>4, <2>1, <2>2, <2>3 DEF InTurn
<1>13. LateExplained'
  <2>1. \A i \in DOMAIN rows : carries'[rows[i].time.of] = carries[rows[i].time.of]
    BY <1>7 DEF StoredMsgs
  <2> QED
    BY <1>1, <1>3, <2>1 DEF LateExplained
<1> QED
  BY <1>11, <1>12, <1>13 DEF OrderInv

\* A client leaves its connection only when the server has left it, or for good.
LEMMA LeavesEmpty ==
  ASSUME WholeReads, TypeInv, ClientInv, Loads, NEW a \in Clients, ClientMoves(a), Still,
         NEW m \in Pending, carries[m].client = a,
         carries[m].boot = boots[a] => m[1] = sock[a] \/ Finished(a),
         carries[m].boot = boots'[a]
  PROVE  m[1] = sock'[a] \/ Finished(a)'
<1>1. m \in Msgs /\ WasSent(m) /\ m[1] \in Conns /\ m \in Unread(m[1])
  BY PendingIs
<1>2. m[1] # NoConn /\ m[1] \notin heard
  <2>1. m[1] \in heard => rx[m[1]] = <<>>
    BY <1>1 DEF ClientInv, Sockets
  <2> QED
    BY <1>1, <2>1, UnreadNone, ServerAssumption
<1>3. carries[m].boot <= boots[a] /\ carries[m].boot \in Nat /\ boots[a] \in Nat
  <2>1. carries[m] \in Load /\ Knows(a, m)
    BY <1>1 DEF Loads
  <2> QED
    BY <2>1, TelemetryAssumption DEF Load, Knows, ClientInv, TelemetryTypeOK
<1>4. CASE Goes(a)
  BY <1>3, <1>4 DEF Goes, Finished
<1>5. CASE Settled(a)
  BY <1>2, <1>5 DEF Settled, Finished
<1>6. CASE Takes(a) \/ Dials(a) \/ Accepted(a) \/ Deleted(a) \/ Killed(a)
  BY <1>2, <1>6 DEF Takes, Dials, Accepted, Deleted, Killed, Finished
<1> QED
  BY <1>4, <1>5, <1>6 DEF ClientMoves

\* No message moves.
LEMMA OrderStill ==
  ASSUME WholeReads, TypeInv, ClientInv, Loads, OrderInv, Still,
         Learns \/ \E a \in Clients : Alone(a) /\ ClientMoves(a)
  PROVE  OrderInv'
<1>1. /\ UNCHANGED <<rows, carries>>
      /\ Pending' = Pending /\ Held' = Held /\ StoredMsgs' = StoredMsgs
      /\ \A k \in Msgs : WasSent(k)' <=> WasSent(k)
  BY DEF Still, Pending, Unread, Held, StoredMsgs, WasSent
<1>2. OneConn /\ InTurn /\ LateExplained
  BY DEF OrderInv
<1>3. InTurn' /\ LateExplained'
  BY <1>1, <1>2 DEF InTurn, LateExplained, MayFollow, SameRun
<1>4. \A k, m \in Pending' : SameRun(k, m)' => k[1] = m[1]
  BY <1>1, <1>2 DEF OneConn, SameRun
<1>5. ASSUME NEW m \in Pending, carries[m].boot = boots'[carries[m].client]
      PROVE  m[1] = sock'[carries[m].client] \/ Finished(carries[m].client)'
  <2>1. PICK b \in Clients : b = carries[m].client
    BY PendingIs DEF Loads, Load
  <2>2. carries[m].boot = boots[b] => m[1] = sock[b] \/ Finished(b)
    BY <1>2, <2>1 DEF OneConn
  <2>3. CASE Same(b)
    <3>1. m[1] = sock'[b] \/ Finished(b)'
      BY <1>5, <2>1, <2>2, <2>3 DEF Same, Finished
    <3> QED
      BY <1>1, <2>1, <3>1 DEF Finished
  <2>4. CASE Learns
    BY <2>1, <2>3, <2>4 DEF Learns, local, Same, SameData
  <2>5. CASE ClientMoves(b)
    <3>1. m[1] = sock'[b] \/ Finished(b)'
      BY <1>5, <2>1, <2>2, <2>5, LeavesEmpty
    <3> QED
      BY <1>1, <2>1, <3>1 DEF Finished
  <2> QED
    BY <2>3, <2>4, <2>5 DEF Alone
<1> QED
  BY <1>1, <1>3, <1>4, <1>5 DEF OrderInv, OneConn, Finished

\* The order is kept by every step.
LEMMA OrderStep ==
  WholeReads /\ TypeInv /\ DataInv /\ ClientInv /\ LoadInv /\ OrderInv
    /\ [TelemetryNext]_telemetryVars => OrderInv'
<1> SUFFICES ASSUME WholeReads, TypeInv, DataInv, ClientInv, LoadInv, OrderInv,
                    [TelemetryNext]_telemetryVars
             PROVE  OrderInv'
  OBVIOUS
<1>1. TelemetryTypeOK /\ Turns /\ Loads
  BY DEF ClientInv, LoadInv
<1>2. CASE ServerMoves
  BY <1>2, OrderBesideServer
<1>3. CASE Learns
  BY <1>1, <1>3, OrderStill DEF Learns
<1>4. ASSUME NEW a \in Clients, Alone(a), ClientMoves(a)
      PROVE  OrderInv'
  <2>1. CASE Accepted(a) /\ Transmits(a)
    BY <1>1, <1>4, <2>1, OrderTransmits
  <2>2. CASE ~(Accepted(a) /\ Transmits(a))
    <3>1. Still
      BY <1>4, <2>2 DEF ClientMoves, Takes, Dials, Settled, Accepted, Deleted, Killed, Goes
    <3> QED
      BY <1>1, <1>4, <3>1, OrderStill
  <2> QED
    BY <2>1, <2>2
<1> QED
  BY <1>1, <1>2, <1>3, <1>4, TelemetryKinds

\* Nothing was sent, nothing is stored.
LEMMA OrderInit == TelemetryInit => OrderInv
<1> SUFFICES ASSUME TelemetryInit PROVE OrderInv
  OBVIOUS
<1>1. rows = <<>> /\ pc = "off" /\ \A c \in Conns : rx[c] = <<>>
  BY DEF TelemetryInit, Init
<1>2. StoredMsgs = {} /\ Held = {} /\ Pending = {}
  <2>1. \A c \in Conns : Unread(c) = {}
    BY <1>1, UnreadNone
  <2> QED
    BY <1>1, <2>1, EmptySeq DEF StoredMsgs, Held, Pending
<1>3. \A m \in Msgs : ~WasSent(m)
  BY ServerAssumption DEF TelemetryInit, Init, WasSent, Msgs
<1>4. LateExplained
  BY <1>1, EmptySeq DEF LateExplained
<1> QED
  BY <1>2, <1>3, <1>4 DEF OrderInv, OneConn, InTurn

\* The server's table follows the order of sampling within a run of a client, but for
\* rows of the backlog, which come behind newer live readings and never behind a newer
\* row (client/main.c:125-189, server/main.c:95-168).
THEOREM LateOnlyBehindLive == WholeReads => (TelemetrySpec => []LateExplained)
<1> SUFFICES ASSUME WholeReads PROVE TelemetrySpec => []LateExplained
  OBVIOUS
<1>1. TypeInv /\ DataInv /\ ClientInv /\ LoadInv /\ OrderInv /\ [TelemetryNext]_telemetryVars
        => OrderInv'
  BY OrderStep
<1>2. OrderInv => LateExplained
  BY DEF OrderInv
<1> QED
  BY <1>1, <1>2, OrderInit, TransportInvariance, PTL DEF TelemetrySpec

=============================================================================
