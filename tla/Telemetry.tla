----------------------------- MODULE Telemetry ------------------------------
(***************************************************************************)
(* Clients, TCP and the collecting server together: Server with the        *)
(* sampling clients of client/main.c in place of its environment.  A       *)
(* client's turn is divided where the server can come between: the         *)
(* connection, the write of the live packet, the write of a row, its       *)
(* DELETE.  A write() waits while the connection is full.  Rows are taken  *)
(* to fit the count they are sent with (Client!RowsFit).                   *)
(***************************************************************************)
EXTENDS Server

CONSTANTS
  Clients,
  SockCap,      \* messages a connection holds that the server has not read
  MaxSamples,   \* bound: samples of each client
  MaxDbFaults,  \* bound: INSERTs and DELETEs of the clients that fail
  MaxBoots      \* bound: starts of a client

ASSUME TelemetryAssumption ==
  /\ SockCap \in Nat \ {0} /\ MaxSamples \in Nat
  /\ MaxDbFaults \in Nat /\ MaxBoots \in Nat

VARIABLES
  at,         \* the call each client makes next
  stop,       \* g_signal.stop
  sock,       \* sock.connfd
  hand,       \* the sample of this turn, 0 when there is none
  spool,      \* table cli_user
  heard,      \* connections whose end the client's kernel has learnt of
  taken, dbFaults, boots,   \* what the bounds count
  handed,     \* history: samples a write() accepted
  carries,    \* history: what each message was sent for
  dropped,    \* history: samples that died in memory or in a failed INSERT
  vanished,   \* history: samples accepted on a connection without a server
  undeleted   \* history: rows sent and not deleted

local == <<stop, sock, hand, spool, taken, dbFaults, boots>>
trace == <<handed, carries, dropped, vanished, undeleted>>
telemetryVars == <<vars, at, heard, local, trace>>

Samples == 1 .. MaxSamples
Load == [client : Clients, n : Samples, row : BOOLEAN, boot : 1 .. MaxBoots]
NoLoad == [n |-> 0]

TelemetryTypeOK ==
  /\ TypeOK
  /\ at \in [Clients -> {"turn", "connect", "live", "row", "delete", "off"}]
  /\ stop \in [Clients -> BOOLEAN]
  /\ sock \in [Clients -> Conns \cup {NoConn}]
  /\ hand \in [Clients -> 0 .. MaxSamples]
  /\ spool \in [Clients -> Seq(Samples)]
  /\ heard \subseteq Conns
  /\ taken \in [Clients -> 0 .. MaxSamples]
  /\ dbFaults \in 0 .. MaxDbFaults /\ boots \in [Clients -> 0 .. MaxBoots]
  /\ carries \in [Msgs -> Load \cup {NoLoad}]
  /\ handed \cup dropped \cup vanished \cup undeleted \subseteq Clients \X Samples

TelemetryInit ==
  /\ Init
  /\ at = [a \in Clients |-> "off"] /\ stop = [a \in Clients |-> FALSE]
  /\ sock = [a \in Clients |-> NoConn] /\ hand = [a \in Clients |-> 0]
  /\ spool = [a \in Clients |-> <<>>] /\ heard = {}
  /\ taken = [a \in Clients |-> 0] /\ dbFaults = 0
  /\ boots = [a \in Clients |-> 0]
  /\ handed = {} /\ carries = [m \in Msgs |-> NoLoad]
  /\ dropped = {} /\ vanished = {} /\ undeleted = {}

-----------------------------------------------------------------------------
(* The pieces of a turn.                                                     *)

GoesTo(a, call) == at' = [at EXCEPT ![a] = call]

\* What a client leaves of the server's state when it touches no connection.
ServerRests == UNCHANGED vars
OnlyNet == UNCHANGED <<pc, program, epoll, rows, bounds, lost>>

\* sock_close: the server hears of it, unless it has left itself.
CloseSock(a) ==
  /\ sock' = [sock EXCEPT ![a] = NoConn]
  /\ IF sock[a] # NoConn /\ net[sock[a]] = "open"
       THEN ClientClose(sock[a]) /\ OnlyNet
       ELSE ServerRests

\* A call into SQLite that fails.
DbFault == dbFaults < MaxDbFaults /\ dbFaults' = dbFaults + 1

InsertAs(a, n, inserted) ==
  \/ n = 0 /\ UNCHANGED <<spool, dbFaults, dropped>>
  \/ /\ n # 0 /\ spool' = [spool EXCEPT ![a] = inserted]
     /\ UNCHANGED <<dbFaults, dropped>>
  \/ /\ n # 0 /\ DbFault /\ dropped' = dropped \cup {<<a, n>>}
     /\ UNCHANGED spool

\* Mutant: the new row comes before the others.
InsertsFirst(a, n) == InsertAs(a, n, <<n>> \o spool[a])

\* database_data_insert of a sample n, if there is one.
Insert(a, n) == InsertAs(a, n, Append(spool[a], n))

\* The samples a turn can begin with: none when the interval has not passed.
Due(a) == {0} \cup {n \in Samples : n = taken[a] + 1}

Idle == {c \in Conns : net[c] = "idle"}

\* The turn begins, with a sample when the interval has passed.
BeginTurn(a) ==
  /\ at[a] = "turn"
  /\ \E n \in Due(a) :
       /\ taken' = [taken EXCEPT ![a] = IF n = 0 THEN @ ELSE n]
       /\ hand' = [hand EXCEPT ![a] = n]
  /\ GoesTo(a, "connect")
  /\ ServerRests
  /\ UNCHANGED <<heard, stop, sock, spool, dbFaults, boots, trace>>

\* Mutant: the loop does not look at the stop flag.
BeginUnstoppable(a) == BeginTurn(a)

Begin(a) == ~stop[a] /\ BeginTurn(a)

Connect(a) ==
  /\ at[a] = "connect" /\ sock[a] = NoConn
  /\ \E c \in Idle : /\ ClientConnect(c) /\ OnlyNet
                     /\ sock' = [sock EXCEPT ![a] = c]
  /\ GoesTo(a, IF hand[a] = 0 THEN "row" ELSE "live")
  /\ UNCHANGED <<heard, stop, hand, spool, taken, dbFaults, boots, trace>>

StillConnected(a) ==
  /\ at[a] = "connect" /\ sock[a] \notin {NoConn} \cup heard
  /\ GoesTo(a, IF hand[a] = 0 THEN "row" ELSE "live")
  /\ ServerRests
  /\ UNCHANGED <<heard, local, trace>>

\* No connection, and none to be had; or one that is found dead.
Offline(a) ==
  \/ sock[a] = NoConn /\ (~listening \/ Idle = {})
  \/ sock[a] \in heard

\* Mutant: the sample of the turn is not put in the table.
SpoolsNothing(a) ==
  /\ at[a] = "connect" /\ Offline(a)
  /\ hand' = [hand EXCEPT ![a] = 0]
  /\ CloseSock(a) /\ GoesTo(a, "turn")
  /\ UNCHANGED <<heard, stop, spool, taken, dbFaults, boots, trace>>

Spools(a) ==
  /\ at[a] = "connect" /\ Offline(a)
  /\ Insert(a, hand[a])
  /\ hand' = [hand EXCEPT ![a] = 0]
  /\ CloseSock(a) /\ GoesTo(a, "turn")
  /\ UNCHANGED <<heard, stop, taken, boots, handed, carries, vanished, undeleted>>

\* What the write that comes next is for.
Sending(a) ==
  CASE at[a] = "live" -> hand[a]
    [] at[a] = "row" /\ spool[a] # <<>> -> Head(spool[a])
    [] OTHER -> 0

Room(c) == Cardinality(Unread(c)) < SockCap

\* A write() the kernel accepts; a row is padded to the count it is sent with.
Transmits(a) ==
  LET c == sock[a]
      m == <<c, sent[c] + 1>>
  IN /\ ClientSend(c) /\ Room(c) /\ OnlyNet
     /\ rx'[c] = rx[c] \o (IF at[a] = "live" THEN Text(m) ELSE Padded(m))
     /\ carries' = [carries EXCEPT ![m] =
          [client |-> a, n |-> Sending(a), row |-> at[a] = "row", boot |-> boots[a]]]
     /\ UNCHANGED vanished

\* It accepts it also when the server has left, and the bytes go nowhere.
Vanishes(a) ==
  /\ net[sock[a]] = "gone"
  /\ vanished' = vanished \cup {<<a, Sending(a)>>}
  /\ ServerRests /\ UNCHANGED carries

Written(a) ==
  /\ Sending(a) # 0
  /\ Transmits(a) \/ Vanishes(a)
  /\ handed' = handed \cup {<<a, Sending(a)>>}

SendLive(a) ==
  /\ at[a] = "live" /\ Written(a)
  /\ hand' = [hand EXCEPT ![a] = 0]
  /\ GoesTo(a, "row")
  /\ UNCHANGED <<heard, stop, sock, spool, taken, dbFaults, boots, dropped, undeleted>>

SendRowThen(a, call) ==
  /\ at[a] = "row" /\ Written(a)
  /\ GoesTo(a, call)
  /\ UNCHANGED <<heard, local, dropped, undeleted>>

\* Mutant: the row that was sent stays.
SendRowKeeps(a) == SendRowThen(a, "turn")

SendRow(a) == SendRowThen(a, "delete")

\* The table is empty, or the SELECT fails.
NoRow(a) ==
  /\ at[a] = "row"
  /\ \/ spool[a] = <<>> /\ UNCHANGED dbFaults
     \/ DbFault
  /\ GoesTo(a, "turn")
  /\ ServerRests
  /\ UNCHANGED <<heard, stop, sock, hand, spool, taken, boots, trace>>

\* A write() that fails: the live sample is spooled, a row stays where it is.
GivesUpThen(a, call) ==
  /\ Sending(a) # 0
  /\ Insert(a, hand[a])
  /\ hand' = [hand EXCEPT ![a] = 0]
  /\ CloseSock(a)
  /\ GoesTo(a, call)
  /\ UNCHANGED <<heard, taken, boots, handed, carries, vanished, undeleted>>

\* Mutant: the row is deleted although it could not be sent.
GivesUpDeletes(a) == GivesUpThen(a, IF at[a] = "row" THEN "delete" ELSE "turn")

GivesUp(a) == GivesUpThen(a, "turn")

SendFails(a) == sock[a] \in heard /\ GivesUp(a) /\ UNCHANGED stop

DeleteLeaving(a, rest) ==
  /\ at[a] = "delete"
  /\ \/ spool' = [spool EXCEPT ![a] = rest] /\ UNCHANGED <<dbFaults, undeleted>>
     \/ /\ DbFault /\ undeleted' = undeleted \cup {<<a, Head(spool[a])>>}
        /\ UNCHANGED spool
  /\ GoesTo(a, "turn")
  /\ ServerRests
  /\ UNCHANGED <<heard, stop, sock, hand, taken, boots, handed, carries, dropped, vanished>>

\* Mutant: the newest row is deleted.
DeleteNewest(a) == DeleteLeaving(a, SubSeq(spool[a], 1, Len(spool[a]) - 1))

Delete(a) == DeleteLeaving(a, Tail(spool[a]))

Exit(a) ==
  /\ at[a] = "turn" /\ stop[a]
  /\ CloseSock(a) /\ GoesTo(a, "off")
  /\ UNCHANGED <<heard, stop, hand, spool, taken, dbFaults, boots, trace>>

ClientStep(a) ==
  \/ Begin(a) \/ Connect(a) \/ StillConnected(a) \/ Spools(a) \/ SendLive(a) \/ SendRow(a)
  \/ NoRow(a) \/ SendFails(a) \/ Delete(a) \/ Exit(a)

-----------------------------------------------------------------------------
(* What happens to the clients.                                              *)

\* The write() waits: the connection is full and the server has not left.
Blocked(a) == Sending(a) # 0 /\ net[sock[a]] = "open" /\ ~Room(sock[a])

\* SIGINT or SIGTERM before a call, which then does not see it.
Signal(a) ==
  /\ at[a] # "off" /\ ~stop[a]
  /\ stop' = [stop EXCEPT ![a] = TRUE]
  /\ ServerRests
  /\ UNCHANGED <<at, heard, sock, hand, spool, taken, dbFaults, boots, trace>>

\* The same in a write() that waits, which fails with EINTR.
SignalInWrite(a) ==
  /\ Blocked(a) /\ GivesUp(a)
  /\ stop' = [stop EXCEPT ![a] = TRUE]

\* SIGKILL or a power cut.
Kill(a) ==
  /\ at[a] # "off"
  /\ dropped' = dropped \cup {<<a, n>> : n \in {hand[a]} \ {0}}
  /\ undeleted' = undeleted \cup
       (IF at[a] = "delete" THEN {<<a, Head(spool[a])>>} ELSE {})
  /\ hand' = [hand EXCEPT ![a] = 0]
  /\ CloseSock(a) /\ GoesTo(a, "off")
  /\ UNCHANGED <<heard, stop, spool, taken, dbFaults, boots, handed, carries, vanished>>

Boot(a) ==
  /\ at[a] = "off" /\ boots[a] < MaxBoots
  /\ boots' = [boots EXCEPT ![a] = @ + 1]
  /\ stop' = [stop EXCEPT ![a] = FALSE]
  /\ ServerRests /\ GoesTo(a, "turn")
  /\ UNCHANGED <<heard, sock, hand, spool, taken, dbFaults, trace>>

\* The FIN or the reset of a server that has left arrives.
Hear ==
  /\ \E c \in Conns \ heard : net[c] = "gone" /\ heard' = heard \cup {c}
  /\ ServerRests /\ UNCHANGED <<at, local, trace>>

ServerSide(A) == A /\ UNCHANGED <<at, heard, local, trace>>
Resets == (\E c \in Conns : ResetArrives(c)) /\ OnlyNet

TelemetryNext ==
  \/ ServerSide(Start) \/ ServerSide(ServerStep)
  \/ ServerSide(Interrupt) \/ ServerSide(Resets)
  \/ Hear
  \/ \E a \in Clients :
       ClientStep(a) \/ Signal(a) \/ SignalInWrite(a) \/ Kill(a) \/ Boot(a)

TelemetrySpec == TelemetryInit /\ [][TelemetryNext]_telemetryVars

\* The processes are scheduled and what the kernels know reaches the other side.
TelemetryFairSpec ==
  /\ TelemetrySpec
  /\ WF_telemetryVars(ServerSide(ServerStep))
  /\ WF_telemetryVars(Hear)
  /\ \A a \in Clients : WF_telemetryVars(ClientStep(a))

-----------------------------------------------------------------------------
(* What holds from the sensor to the server's table.                         *)

LoadOf(m) == <<carries[m].client, carries[m].n>>
LoadsOf(msgs) == {LoadOf(m) : m \in msgs}
Spooled(a) == Range(spool[a])

\* Every sample is in the client, in its table, in a socket, in the server or in
\* the server's table, or some failure is known that took it: a row leaves the
\* client's table only for one of these (client/main.c:137-189, server/main.c:137-168).
SamplesKept ==
  \A a \in Clients : \A n \in 1 .. taken[a] :
    \/ n = hand[a] \/ n \in Spooled(a)
    \/ <<a, n>> \in LoadsOf((UNION {Unread(c) : c \in Conns}) \cup Held \cup StoredMsgs)
    \/ <<a, n>> \in LoadsOf(lost) \cup dropped \cup vanished

\* No sample vanishes without a known failure, with every variable in its range and the
\* server consistent beside its clients (client/main.c:100-192, server/main.c:95-171).
EndToEnd == TelemetryTypeOK /\ Consistent /\ SamplesKept

\* A reading is in the server's table twice only if the client did not delete its row
\* after sending it, by a failed DELETE or by a kill between the two: a connection that
\* dies never makes the client repeat what the server has (client/main.c:157-187).
TwiceExplained ==
  \A i, j \in DOMAIN rows :
    LET s == LoadOf(rows[i].time.of)
    IN i # j /\ s = LoadOf(rows[j].time.of) => s \in undeleted

\* The server's table follows the order of sampling, over every connection a run of the
\* client makes, but for rows of the backlog, which come behind newer live readings: no
\* row comes behind a newer row, although rows are sent again that were not deleted
\* (client/main.c:125-189, server/main.c:95-168).
LateExplained ==
  \A i, j \in DOMAIN rows :
    LET early == carries[rows[i].time.of]
        late  == carries[rows[j].time.of]
    IN /\ i < j
       /\ early.client = late.client /\ early.boot = late.boot /\ early.n > late.n
       => late.row /\ ~early.row

\* Each client keeps what StoreForward promises, with the server and its connections in
\* place of the network that Client assumes (client/main.c:100-192).
SF(a) == INSTANCE StoreForward WITH
           Sample <- Samples, volatile <- {hand[a]} \ {0}, durable <- Spooled(a),
           delivered <- {n \in Samples : <<a, n>> \in handed},
           lost <- {n \in Samples : <<a, n>> \in dropped}
ClientsImplement ==
  /\ \A a \in Clients : SF(a)!Init
  /\ [][\A a \in Clients : [SF(a)!Next]_(SF(a)!vars)]_telemetryVars

\* The server waits in a write() for a client that never reads.
ServerStuck ==
  pc = "write" /\ net[current.conn] = "open" /\ echoes[current.conn] >= EchoCap

\* A connection the server holds and does not wait for.
Forgotten(c) == \E f \in Fds \ watched : owner[f] = c

\* Once the server stays up and does not wait for its echoes to be read, everything that
\* was sampled is stored or counted as lost, backlog included (client/main.c:125-189).
Arrives ==
  \A a \in Clients, n \in Samples :
    <>[](listening /\ ~ServerStuck /\ at[a] # "off")
      => (taken[a] >= n ~>
            <<a, n>> \in LoadsOf(StoredMsgs \cup lost) \cup dropped \cup vanished)

\* SIGINT and SIGTERM end a client, but for one: a client that was about to write() when
\* the signal came, on a full connection the server does not read because it waits for
\* its echoes to be read or has forgotten the connection (client/main.c:100, proc.c:64-70,
\* sock.c:189-197, server/main.c:122-126, 148).
StopEnds ==
  \A a \in Clients :
    stop[a] ~> \/ at[a] = "off"
               \/ Blocked(a) /\ (ServerStuck \/ Forgotten(sock[a]))

\* A connection the client has left is closed by the server too, read to its end or not,
\* accepted or still waiting for a descriptor, unless the server waits in a write() or has
\* forgotten it (server/main.c:110-115, 137-153).
LeftIsClosed ==
  \A c \in Conns :
    net[c] \in {"fin", "doomed", "broken", "reset"} ~>
      net[c] = "gone" \/ ServerStuck \/ Forgotten(c)

\* A client that is told to stop ends, and the server gives up what it held for it
\* (client/main.c:100-200, server/main.c:110-153).
LeavesNothing == StopEnds /\ LeftIsClosed

=============================================================================
