------------------------------- MODULE Server -------------------------------
(***************************************************************************)
(* The collecting server (server/main.c with par_data.c, database.c and    *)
(* sock_func.c): one thread around epoll that accepts connections, reads   *)
(* what has arrived, echoes it, splits it into id, temperature and time,   *)
(* and stores them as one row.  One step is one system call, so that       *)
(* segments, closes and resets can arrive between any two of them.         *)
(* The clients are the environment: they connect, send messages, close,    *)
(* and never read what the server echoes, as client/main.c does.           *)
(***************************************************************************)
EXTENDS Naturals, Sequences, FiniteSets, Functions

CONSTANTS
  Conns,        \* connections the clients make, each one once
  NoConn,       \* a descriptor that is not open
  Fds,          \* descriptors accept() can return
  WholeReads,   \* TRUE: every read() returns one message and all of it
  EchoCap,      \* echoes the socket buffers of a connection hold
  MaxMsgs,      \* bound: messages sent on one connection
  MaxFaults,    \* bound: messages whose open, CREATE or INSERT fails
  MaxAddFaults, \* bound: connections epoll_ctl(ADD) refuses
  MaxRuns       \* bound: starts of the server

ASSUME ServerAssumption ==
  /\ NoConn \notin Conns
  /\ WholeReads \in BOOLEAN
  /\ EchoCap \in Nat /\ MaxMsgs \in Nat /\ MaxFaults \in Nat
  /\ MaxAddFaults \in Nat /\ MaxRuns \in Nat

VARIABLES
  pc,         \* the call the server makes next
  batch,      \* events of event_array not handled yet
  current,    \* the event whose message is being handled
  buf,        \* the first three words of buf, which is never cleared
  fields,     \* id, temp and local_t, shared by all connections
  listening,  \* listenfd is open and in the epoll set
  owner,      \* the connection each descriptor belongs to
  watched,    \* the descriptors in the epoll set
  backlog,    \* connections the kernel completed and nobody accepted yet
  net,        \* the server's end of each connection
  rx,         \* words received on a connection and not read
  echoes,     \* echoes a client has not read
  rows,       \* table ser_user
  faults, addFaults, runs,  \* what the bounds count
  sent,       \* history: messages sent on each connection
  lost        \* history: messages dropped unread, or read and not stored

program == <<batch, current, buf, fields>>
epoll   == <<listening, owner, watched>>
network == <<backlog, net, rx, echoes>>
bounds  == <<faults, addFaults, runs>>
vars == <<pc, program, epoll, network, rows, bounds, sent, lost>>

\* A message is known by its connection and its number on it.
Msgs == Conns \X (1 .. MaxMsgs)
NoMsg == <<NoConn, 0>>

\* The words of a message; a backlog row of the client is padded with NULs.
Words == [of : Msgs \cup {NoMsg}, field : {"id", "temp", "time", "nul", "junk"}]
Word(m, field) == [of |-> m, field |-> field]
Nul  == Word(NoMsg, "nul")
Junk == Word(NoMsg, "junk")

Text(m) == <<Word(m, "id"), Word(m, "temp"), Word(m, "time")>>
Padded(m) == Append(Text(m), Nul)

Events == [fd : Fds, conn : Conns, hup : BOOLEAN]
NoEvent == [fd |-> NoConn, conn |-> NoConn, hup |-> FALSE]
Listen == [fd |-> NoConn, conn |-> NoConn, hup |-> TRUE]

\* net: "open"; "fin", the client has closed; "doomed", the server wrote after
\* that; "broken" and "reset", a reset arrived after or without a FIN.
TypeOK ==
  /\ pc \in {"off", "wait", "events", "write", "store"}
  /\ batch \subseteq Events \cup {Listen}
  /\ current \in Events \cup {NoEvent}
  /\ buf \in [1 .. 3 -> Words]
  /\ fields \in [{"id", "temp", "time"} -> Words]
  /\ listening \in BOOLEAN
  /\ owner \in [Fds -> Conns \cup {NoConn}]
  /\ watched \subseteq Fds
  /\ backlog \in Seq(Conns)
  /\ net \in [Conns -> {"idle", "open", "fin", "doomed", "broken", "reset", "gone"}]
  /\ rx \in [Conns -> Seq(Words)]
  /\ echoes \in [Conns -> 0 .. EchoCap]
  /\ rows \in Seq([{"id", "temp", "time"} -> Words])
  /\ faults \in 0 .. MaxFaults
  /\ addFaults \in 0 .. MaxAddFaults
  /\ runs \in 0 .. MaxRuns
  /\ sent \in [Conns -> 0 .. MaxMsgs]
  /\ lost \subseteq Msgs

NoFields == [f \in {"id", "temp", "time"} |-> Junk]

Init ==
  /\ pc = "off"
  /\ batch = {} /\ current = NoEvent
  /\ buf = [i \in 1 .. 3 |-> Junk] /\ fields = NoFields
  /\ listening = FALSE /\ owner = [f \in Fds |-> NoConn] /\ watched = {}
  /\ backlog = <<>> /\ net = [c \in Conns |-> "idle"]
  /\ rx = [c \in Conns |-> <<>>] /\ echoes = [c \in Conns |-> 0]
  /\ rows = <<>>
  /\ faults = 0 /\ addFaults = 0 /\ runs = 0
  /\ sent = [c \in Conns |-> 0] /\ lost = {}

-----------------------------------------------------------------------------
(* Starting and ending.                                                     *)

Unread(c) == {w.of : w \in Range(rx[c])} \ {NoMsg}

\* The message that was read and is not stored yet.
Held ==
  IF pc \in {"write", "store"} THEN {buf[i].of : i \in 1 .. 3} \ {NoMsg} ELSE {}

\* The process is gone: the kernel closes its sockets with what they hold.
Ends ==
  /\ pc' = "off"
  /\ batch' = {} /\ current' = NoEvent
  /\ buf' = [i \in 1 .. 3 |-> Junk] /\ fields' = NoFields
  /\ listening' = FALSE /\ owner' = [f \in Fds |-> NoConn] /\ watched' = {}
  /\ backlog' = <<>>
  /\ net' = [c \in Conns |-> IF net[c] = "idle" THEN "idle" ELSE "gone"]
  /\ rx' = [c \in Conns |-> <<>>]
  /\ echoes' = [c \in Conns |-> 0]

\* socket_server_init and the epoll set with listenfd in it.
Start ==
  /\ pc = "off" /\ runs < MaxRuns
  /\ pc' = "wait" /\ listening' = TRUE
  /\ runs' = runs + 1
  /\ UNCHANGED <<program, owner, watched, network, rows, faults, addFaults,
                 sent, lost>>

-----------------------------------------------------------------------------
(* epoll_wait and the loop over event_array.                                *)

HangsUp(c) == net[c] \in {"broken", "reset"}
Readable(c) == rx[c] # <<>> \/ net[c] \in {"fin", "doomed", "broken", "reset"}

Ready ==
  {[fd |-> f, conn |-> owner[f], hup |-> HangsUp(owner[f])] :
     f \in {g \in watched : Readable(owner[g])}}
  \cup (IF listening /\ backlog # <<>> THEN {Listen} ELSE {})

Wait ==
  /\ pc = "wait" /\ Ready # {}
  /\ batch' = Ready
  /\ pc' = "events"
  /\ UNCHANGED <<current, buf, fields, epoll, network, rows, bounds, sent, lost>>

\* The loop over the events goes on, or ends with the last one.
NextEvent(e) ==
  /\ batch' = batch \ {e}
  /\ pc' = IF batch = {e} THEN "wait" ELSE "events"

\* close(fd): out of the epoll set, and what was not read is gone.
Close(f, dropped) ==
  /\ owner' = [owner EXCEPT ![f] = NoConn]
  /\ watched' = watched \ {f}
  /\ net' = [net EXCEPT ![owner[f]] = "gone"]
  /\ rx' = [rx EXCEPT ![owner[f]] = <<>>]
  /\ echoes' = [echoes EXCEPT ![owner[f]] = 0]
  /\ lost' = lost \cup dropped
  /\ UNCHANGED <<listening, backlog>>

\* EPOLLERR or EPOLLHUP: DEL and close; the read() that follows on the closed
\* descriptor fails, and so do the DEL and the close after it.
HangUp(e) ==
  /\ e # Listen /\ e.hup
  /\ Close(e.fd, Unread(e.conn))
  /\ NextEvent(e)
  /\ UNCHANGED <<current, buf, fields>>

\* Mutant: the descriptor is closed, but its event handled once more.
ReadEndsTwice(e) ==
  /\ e # Listen /\ ~e.hup
  /\ rx[e.conn] = <<>>
  /\ Close(e.fd, {})
  /\ UNCHANGED <<pc, batch, current, buf, fields>>

\* A read() of 0 bytes or an error: nothing is left to read.
ReadEnds(e) ==
  /\ e # Listen /\ ~e.hup
  /\ rx[e.conn] = <<>>
  /\ Close(e.fd, {})
  /\ NextEvent(e)
  /\ UNCHANGED <<current, buf, fields>>

\* How much of what has arrived one read() returns.
MessageLen(words) == IF Len(words) > 3 /\ words[4] = Nul THEN 4 ELSE 3
ReadLens(words) ==
  IF WholeReads THEN {MessageLen(words)} ELSE 1 .. Len(words)

\* The bytes read are laid over those that buf held before.
Overlaid(n, words) == [i \in 1 .. 3 |-> IF i <= n THEN words[i] ELSE buf[i]]

\* Mutant: the bytes that were read stay in the socket.
Whole(words, n) == words

\* What a read() of the first n words leaves for the next one.
After(words, n) == SubSeq(words, n + 1, Len(words))

Read(e) ==
  /\ e # Listen /\ ~e.hup
  /\ rx[e.conn] # <<>>
  /\ \E n \in ReadLens(rx[e.conn]) :
       /\ buf' = Overlaid(n, rx[e.conn])
       /\ rx' = [rx EXCEPT ![e.conn] = After(@, n)]
  /\ batch' = batch \ {e} /\ current' = e
  /\ pc' = "write"
  /\ UNCHANGED <<fields, epoll, backlog, net, echoes, lost>>

Accept ==
  /\ Listen \in batch /\ backlog # <<>>
  /\ \E f \in Fds :
       /\ owner[f] = NoConn
       /\ owner' = [owner EXCEPT ![f] = Head(backlog)]
       /\ watched' = watched \cup {f}
  /\ backlog' = Tail(backlog)
  /\ NextEvent(Listen)
  /\ UNCHANGED <<current, buf, fields, listening, net, rx, echoes, lost>>

\* No descriptor is left; the connection stays in the kernel's queue.
AcceptFails ==
  /\ Listen \in batch
  /\ \A f \in Fds : owner[f] # NoConn
  /\ NextEvent(Listen)
  /\ UNCHANGED <<current, buf, fields, epoll, network, lost>>

\* epoll_ctl(ADD) fails: the descriptor that main() closes is the event's,
\* listenfd, and the new connection stays open and unwatched.
AddFails ==
  /\ Listen \in batch /\ backlog # <<>> /\ addFaults < MaxAddFaults
  /\ \E f \in Fds :
       /\ owner[f] = NoConn
       /\ owner' = [owner EXCEPT ![f] = Head(backlog)]
  /\ listening' = FALSE
  /\ backlog' = <<>>
  /\ net' = [c \in Conns |->
               IF c \in Range(Tail(backlog)) THEN "gone" ELSE net[c]]
  /\ rx' = [c \in Conns |->
              IF c \in Range(Tail(backlog)) THEN <<>> ELSE rx[c]]
  /\ lost' = lost \cup UNION {Unread(c) : c \in Range(Tail(backlog))}
  /\ NextEvent(Listen)
  /\ UNCHANGED <<current, buf, fields, watched, echoes>>

\* The events of one batch are independent, so their order is left open.
Handle ==
  /\ pc = "events"
  /\ \/ \E e \in batch : HangUp(e) \/ ReadEnds(e) \/ Read(e)
     \/ Accept \/ AcceptFails
  /\ UNCHANGED <<rows, bounds, sent>>

HandleAddFails ==
  /\ pc = "events" /\ AddFails
  /\ addFaults' = addFaults + 1
  /\ UNCHANGED <<rows, faults, runs, sent>>

-----------------------------------------------------------------------------
(* The message: echo, split, store.                                         *)

\* The write() waits while the buffers of an open connection are full.
Echo ==
  /\ pc = "write"
  /\ LET c == current.conn IN
       \/ /\ net[c] = "open" /\ echoes[c] < EchoCap
          /\ echoes' = [echoes EXCEPT ![c] = @ + 1]
          /\ UNCHANGED net
       \/ /\ net[c] \in {"fin", "doomed"}
          /\ net' = [net EXCEPT ![c] = "doomed"]
          /\ UNCHANGED echoes
  /\ pc' = "store"
  /\ UNCHANGED <<program, epoll, backlog, rx, rows, bounds, sent, lost>>

EchoFailsThen(call) ==
  /\ pc = "write" /\ net[current.conn] = "reset"
  /\ Close(current.fd, Unread(current.conn) \ Held)
  /\ pc' = call
  /\ UNCHANGED <<program, rows, bounds, sent>>

\* Mutant: the message is given up with the connection.
EchoFailsGivesUp == EchoFailsThen(IF batch = {} THEN "wait" ELSE "events")

\* ECONNRESET: the connection is closed, and the message handled all the same.
EchoFails == EchoFailsThen("store")

\* EPIPE comes with a SIGPIPE, which the server neither handles nor ignores.
EchoKills ==
  /\ pc = "write" /\ net[current.conn] = "broken"
  /\ Ends
  /\ lost' = lost \cup Held \cup UNION {Unread(c) : c \in Conns}
  /\ UNCHANGED <<rows, bounds, sent>>

\* str_sscanf: stops at the first NUL; the temperature it did not find is an
\* uninitialized float, the id and the time are those of the message before.
Split ==
  LET n == CHOOSE k \in 0 .. 3 :
             /\ \A i \in 1 .. k : buf[i] # Nul
             /\ k < 3 => buf[k + 1] = Nul
  IN [id   |-> IF n >= 1 THEN buf[1] ELSE fields.id,
      temp |-> IF n >= 2 THEN buf[2] ELSE Junk,
      time |-> IF n >= 3 THEN buf[3] ELSE fields.time]

MessageDone ==
  /\ pc' = IF batch = {} THEN "wait" ELSE "events"
  /\ current' = NoEvent
  /\ fields' = Split
  /\ UNCHANGED <<batch, buf, epoll, network, addFaults, runs, sent>>

StoreRow(row) ==
  /\ pc = "store"
  /\ rows' = Append(rows, row)
  /\ MessageDone
  /\ UNCHANGED <<faults, lost>>

\* Mutant: the row gets the time of the message before.
StoreLate == StoreRow([Split EXCEPT !.time = fields.time])

\* sqlite3_create_table and sqlite3_insert, whatever str_sscanf returned.
Store == StoreRow(Split)

\* sqlite3_open, CREATE TABLE or INSERT fails; the server goes on.
StoreFails ==
  /\ pc = "store" /\ faults < MaxFaults
  /\ faults' = faults + 1
  /\ lost' = lost \cup Held
  /\ MessageDone
  /\ UNCHANGED rows

\* A signal: epoll_wait returns EINTR and main() returns, or it kills.
Interrupt ==
  /\ pc # "off" /\ runs < MaxRuns
  /\ Ends
  /\ lost' = lost \cup Held \cup UNION {Unread(c) : c \in Conns}
  /\ UNCHANGED <<rows, bounds, sent>>

-----------------------------------------------------------------------------
(* The clients and the network.                                             *)

ClientConnect(c) ==
  /\ net[c] = "idle" /\ listening
  /\ net' = [net EXCEPT ![c] = "open"]
  /\ backlog' = Append(backlog, c)
  /\ UNCHANGED <<rx, echoes, sent>>

\* A live packet or a row of the backlog, which may be padded with NULs.
ClientSend(c) ==
  /\ net[c] = "open" /\ sent[c] < MaxMsgs
  /\ sent' = [sent EXCEPT ![c] = @ + 1]
  /\ LET m == <<c, sent[c] + 1>> IN
       \E words \in {Text(m), Padded(m)} : rx' = [rx EXCEPT ![c] = @ \o words]
  /\ UNCHANGED <<backlog, net, echoes>>

\* close() sends a FIN, or a reset when echoes were left unread.
ClientClose(c) ==
  /\ net[c] = "open"
  /\ net' = [net EXCEPT ![c] = IF echoes[c] = 0 THEN "fin" ELSE "reset"]
  /\ UNCHANGED <<backlog, rx, echoes, sent>>

\* The answer to an echo that the closed client did not expect.
ResetArrives(c) ==
  /\ net[c] = "doomed"
  /\ net' = [net EXCEPT ![c] = "broken"]
  /\ UNCHANGED <<backlog, rx, echoes, sent>>

Environment ==
  /\ \E c \in Conns :
       ClientConnect(c) \/ ClientSend(c) \/ ClientClose(c) \/ ResetArrives(c)
  /\ UNCHANGED <<pc, program, epoll, rows, bounds, lost>>

ServerStep ==
  \/ Wait \/ Handle \/ HandleAddFails
  \/ Echo \/ EchoFails \/ EchoKills \/ Store \/ StoreFails

Next == Start \/ ServerStep \/ Interrupt \/ Environment

Spec == Init /\ [][Next]_vars

-----------------------------------------------------------------------------
(* What makes the server correct.                                           *)

RowOf(m) ==
  [id |-> Word(m, "id"), temp |-> Word(m, "temp"), time |-> Word(m, "time")]

StoredMsgs == {rows[i].time.of : i \in DOMAIN rows}

\* An event is handled for the connection it was reported for: no handler of a
\* batch closes a descriptor that a later event of the batch, or the message
\* being handled, still names, although descriptors are reused (main.c:108-170).
EventsCurrent ==
  /\ \A e \in batch \ {Listen} : owner[e.fd] = e.conn
  /\ pc = "write" => owner[current.fd] = current.conn

\* The descriptors the server holds are those it waits for, one for each
\* connection: none is forgotten open, but for the one connection whose ADD
\* failed (main.c:110-143,148-153).
OpenIsWatched ==
  /\ Cardinality({f \in Fds : owner[f] # NoConn} \ watched) <= addFaults
  /\ \A f \in watched : owner[f] # NoConn
  /\ \A f, g \in watched : owner[f] = owner[g] => f = g

\* Every variable is in its range, events name the connection they were reported
\* for, and descriptors are waited for (main.c:95-171).
Consistent == TypeOK /\ EventsCurrent /\ OpenIsWatched

\* A row is a message some client sent: the reading and the time of one
\* measurement, never mixed from two, nor from what an earlier message left
\* in buf, id or local_t (main.c:137-162, par_data.c:17-24).
StoredWasSent ==
  \A i \in DOMAIN rows :
    \E m \in Msgs : m[2] <= sent[m[1]] /\ rows[i] = RowOf(m)

\* The messages of a connection are stored in the order they were sent, each
\* at most once (main.c:108-170).
StoredInOrder ==
  \A i, j \in DOMAIN rows :
    LET m == rows[i].time.of
        n == rows[j].time.of
    IN i < j /\ m[1] = n[1] => m[2] < n[2]

\* Every message sent waits in the socket, is being handled, is a row, or was
\* dropped by a reset, a failing database or the end of the server.
Accounted ==
  \A m \in Msgs :
    m[2] <= sent[m[1]] => m \in Unread(m[1]) \cup Held \cup StoredMsgs \cup lost

\* A client that goes away does not take the server with it.  The code does not
\* keep it: a write() after a reset raises SIGPIPE before its failure can be
\* answered by closing that connection (main.c:148-153).
ServerSurvives == pc = "write" => net[current.conn] # "broken"

=============================================================================
