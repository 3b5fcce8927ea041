------------------------------- MODULE Client -------------------------------
(***************************************************************************)
(* The sampling client (client/main.c with sock.c, database.c, data_pack.c *)
(* and proc.c): one process that reads the sensor every interval, sends    *)
(* the packet to the server, spools it in a SQLite table when the server   *)
(* cannot be reached, and drains the table one row per turn of its loop.   *)
(* One step is one call of the loop that touches the socket, the database  *)
(* or the signal flag, so that signals, disconnections, database errors    *)
(* and a kill can fall between any two of them.                            *)
(***************************************************************************)
EXTENDS Naturals, Sequences, Functions

CONSTANTS
  Fds,            \* the descriptors socket() can return
  NoFd,           \* the -1 of sock.connfd
  Widths,         \* sizes of a sample's variable text: integer digits + time
  IntervalGiven,  \* TRUE: -t was given, so the first turn of a run samples
  MaxSamples,     \* bound: samples taken over all runs
  MaxFaults,      \* bound: database calls that fail
  MaxDrops,       \* bound: connections the server or the network takes down
  MaxRuns         \* bound: starts of the process

ASSUME ClientAssumption ==
  /\ NoFd \notin Fds
  /\ Widths \subseteq Nat
  /\ IntervalGiven \in BOOLEAN
  /\ MaxSamples \in Nat
  /\ MaxFaults \in Nat
  /\ MaxDrops \in Nat
  /\ MaxRuns \in Nat

VARIABLES
  pc,           \* the call the process makes next
  stop,         \* g_signal.stop
  first,        \* last_time is still 0
  flag,         \* sample_flag
  pack,         \* pack_data, and buf, which is printed from it
  packBytes,    \* pack_bytes
  dataBuf,      \* data_buf: the row database_data_take copied out
  connfd,       \* sock.connfd
  tcp,          \* the kernel's state of each descriptor
  file,         \* cli_dtbase.db: absent, without the table, with the table
  handle,       \* static sqlite3 *db
  table,        \* the rows of cli_user in rowid order
  reachable,    \* a connect() of the client would succeed
  taken, faults, drops, runs,   \* what the bounds count
  accepted,     \* history: samples whose whole text a write() accepted
  resent,       \* history: samples accepted more than once
  undeleted,    \* history: rows that were sent but not deleted
  dropped       \* history: samples that died in memory or in a failed INSERT

sockVars == <<connfd, tcp>>
dbVars   == <<file, handle, table>>
memVars  == <<first, flag, pack, packBytes, dataBuf>>
envVars  == <<reachable, taken, drops, runs>>
history  == <<accepted, resent, undeleted, dropped>>
vars == <<pc, stop, memVars, sockVars, dbVars, envVars, faults, history>>

Calls == {"init", "create", "loop", "connect", "alive", "send", "spool",
          "select", "take", "sendrow", "delete", "down"}

\* A sample is known by its number; all else its size matters for is in width.
Samples == [seq : 1 .. MaxSamples, width : Widths]

NoSample == [seq |-> 0, width |-> 0]

\* "%s %f %s" with the five digit ID, six decimals and the time with its \n.
LiveLen(s) == s.width + 15

\* "%s %.2f %s\n" of the same sample, without the two newlines at its end.
TextLen(s) == s.width + 10

TypeOK ==
  /\ pc \in Calls
  /\ stop \in BOOLEAN /\ first \in BOOLEAN /\ flag \in BOOLEAN
  /\ pack \in Samples \cup {NoSample} /\ dataBuf \in Samples \cup {NoSample}
  /\ packBytes \in Nat
  /\ connfd \in Fds \cup {NoFd}
  /\ tcp \in [Fds -> {"closed", "established", "down"}]
  /\ file \in {"absent", "empty", "table"}
  /\ handle \in {"null", "open", "bad"}
  /\ table \in Seq(Samples)
  /\ reachable \in BOOLEAN
  /\ taken \in 0 .. MaxSamples /\ faults \in 0 .. MaxFaults
  /\ drops \in 0 .. MaxDrops /\ runs \in 0 .. MaxRuns
  /\ accepted \subseteq 1 .. MaxSamples
  /\ resent \subseteq 1 .. MaxSamples
  /\ undeleted \subseteq 1 .. MaxSamples
  /\ dropped \subseteq 1 .. MaxSamples

\* Every run starts in main() with an empty memory; the first one finds no file.
Init ==
  /\ pc = "init" /\ stop = FALSE
  /\ first = TRUE /\ flag = FALSE
  /\ pack = NoSample /\ packBytes = 0 /\ dataBuf = NoSample
  /\ connfd = NoFd /\ tcp = [f \in Fds |-> "closed"]
  /\ file = "absent" /\ handle = "null" /\ table = <<>>
  /\ reachable \in BOOLEAN
  /\ taken = 0 /\ faults = 0 /\ drops = 0 /\ runs = 0
  /\ accepted = {} /\ resent = {} /\ undeleted = {} /\ dropped = {}

-----------------------------------------------------------------------------
(* database_table_init: an existing file is only opened; a new one gets the *)
(* table, and is unlinked when that fails.  main() goes on in every case.   *)

\* A call into SQLite fails: the handle or the table is not there, or the
\* engine reports an error (disk full, locked, I/O).
DbUp == handle = "open" /\ file = "table"
DbFails ==
  \/ ~DbUp /\ UNCHANGED faults
  \/ faults < MaxFaults /\ faults' = faults + 1

OpenExisting ==
  /\ pc = "init" /\ file # "absent"
  /\ \/ handle' = "open" /\ UNCHANGED faults
     \/ handle' = "bad" /\ faults < MaxFaults /\ faults' = faults + 1
  /\ pc' = "loop"
  /\ UNCHANGED <<stop, memVars, sockVars, file, table, envVars, history>>

OpenNew ==
  /\ pc = "init" /\ file = "absent"
  /\ \/ /\ handle' = "open" /\ file' = "empty" /\ pc' = "create"
        /\ UNCHANGED faults
     \/ /\ handle' = "bad" /\ pc' = "loop" /\ UNCHANGED file
        /\ faults < MaxFaults /\ faults' = faults + 1
  /\ UNCHANGED <<stop, memVars, sockVars, table, envVars, history>>

CreateTable ==
  /\ pc = "create"
  /\ \/ file' = "table" /\ UNCHANGED <<handle, faults>>
     \/ /\ handle' = "bad" /\ file' = "absent"
        /\ faults < MaxFaults /\ faults' = faults + 1
  /\ pc' = "loop"
  /\ UNCHANGED <<stop, memVars, sockVars, table, envVars, history>>

-----------------------------------------------------------------------------
(* The head of the loop: stop, or sample when the interval has passed.      *)

\* Mutant: the descriptor is forgotten without close().
ForgetSock ==
  /\ connfd' = NoFd
  /\ UNCHANGED tcp

\* sock_close: closes whatever sock.connfd names and forgets it.
CloseSock ==
  /\ tcp' = [f \in Fds |-> IF f = connfd THEN "closed" ELSE tcp[f]]
  /\ connfd' = NoFd

\* The sample that is neither handed to the kernel nor spooled yet.
InHand ==
  IF flag /\ pc \in {"connect", "alive", "send", "spool"} THEN {pack.seq} ELSE {}

\* The three readings are packed even when one of them failed, so that every
\* due turn makes a packet; its length depends on the reading and the time.
Sample ==
  /\ pc = "loop" /\ ~stop
  /\ taken < MaxSamples
  /\ taken' = taken + 1
  /\ \E w \in Widths :
       /\ pack' = [seq |-> taken + 1, width |-> w]
       /\ packBytes' = LiveLen([seq |-> taken + 1, width |-> w])
  /\ flag' = TRUE /\ first' = FALSE
  /\ pc' = "connect"
  /\ UNCHANGED <<stop, dataBuf, sockVars, dbVars, reachable, drops, runs,
                 faults, history>>

\* last_time is 0 at first, so that the first turn is due for every interval
\* given on the command line; an interval never set can be any integer.
TurnWithoutSample ==
  /\ pc = "loop"
  /\ ~(first /\ IntervalGiven)
  /\ flag' = FALSE
  /\ pc' = "connect"
  /\ UNCHANGED <<stop, first, pack, packBytes, dataBuf, sockVars, dbVars,
                 envVars, faults, history>>

\* Mutant: the loop does not look at the stop flag.
NotDueUnstoppable == TurnWithoutSample

NotDue == ~stop /\ TurnWithoutSample

\* The process is gone: its memory and its descriptors with it.
ForgetMemory ==
  /\ pc' = "down"
  /\ first' = TRUE /\ flag' = FALSE
  /\ pack' = NoSample /\ packBytes' = 0 /\ dataBuf' = NoSample
  /\ connfd' = NoFd /\ tcp' = [f \in Fds |-> "closed"]
  /\ handle' = "null"

Exit ==
  /\ pc = "loop" /\ stop
  /\ ForgetMemory
  /\ UNCHANGED <<stop, file, table, envVars, faults, history>>

-----------------------------------------------------------------------------
(* The connection: reconnect when there is none, then ask the kernel.       *)

StillConnected ==
  /\ pc = "connect" /\ connfd # NoFd
  /\ pc' = "alive"
  /\ UNCHANGED <<stop, memVars, sockVars, dbVars, envVars, faults, history>>

Connect ==
  /\ pc = "connect" /\ connfd = NoFd /\ reachable
  /\ \E f \in Fds :
       /\ tcp[f] = "closed"
       /\ tcp' = [tcp EXCEPT ![f] = "established"]
       /\ connfd' = f
  /\ pc' = "alive"
  /\ UNCHANGED <<stop, memVars, dbVars, envVars, faults, history>>

\* socket_connect closes its own descriptor; main() closes sock.connfd, -1.
ConnectFails ==
  /\ pc = "connect" /\ connfd = NoFd
  /\ ~reachable \/ stop \/ \A f \in Fds : tcp[f] # "closed"
  /\ CloseSock
  /\ pc' = "alive"
  /\ UNCHANGED <<stop, memVars, dbVars, envVars, faults, history>>

\* getsockopt fails on -1 and leaves its result uninitialised: any answer.
SeenAlive ==
  /\ pc = "alive"
  /\ connfd \in Fds => tcp[connfd] = "established"
  /\ pc' = IF flag THEN "send" ELSE "select"
  /\ UNCHANGED <<stop, memVars, sockVars, dbVars, envVars, faults, history>>

DeadThen(call) ==
  /\ pc = "alive"
  /\ connfd \in Fds => tcp[connfd] # "established"
  /\ pc' = call
  /\ UNCHANGED <<stop, memVars, dbVars, envVars, faults, history>>

\* Mutants: a dead connection is kept, the sample in hand is not spooled, or
\* the last packet is spooled again on every turn without a sample.
SeenDeadKept    == DeadThen(IF flag THEN "spool" ELSE "loop") /\ UNCHANGED sockVars
SeenDeadForgets == DeadThen("loop") /\ CloseSock
SeenDeadSpools  == DeadThen("spool") /\ CloseSock

SeenDead == DeadThen(IF flag THEN "spool" ELSE "loop") /\ CloseSock

-----------------------------------------------------------------------------
(* sock_send_data: write() until all bytes are accepted or one call fails.  *)
(* A write() to a connection the peer has left may still be accepted once.  *)

CanWrite   == connfd \in Fds
WriteFails == stop \/ (connfd \in Fds => tcp[connfd] = "down")

HandOver(s) ==
  /\ accepted' = accepted \cup {s.seq}
  /\ resent' = resent \cup (accepted \cap {s.seq})

SendLive ==
  /\ pc = "send" /\ CanWrite
  /\ HandOver(pack)
  /\ pc' = "select"
  /\ UNCHANGED <<stop, memVars, sockVars, dbVars, envVars, faults,
                 undeleted, dropped>>

SendLiveFails ==
  /\ pc = "send" /\ WriteFails
  /\ CloseSock
  /\ pc' = "spool"
  /\ UNCHANGED <<stop, memVars, dbVars, envVars, faults, history>>

\* database_data_insert, then continue.
Insert ==
  /\ pc = "spool"
  /\ \/ /\ DbUp /\ table' = Append(table, pack)
        /\ UNCHANGED <<dropped, faults>>
     \/ /\ DbFails /\ dropped' = dropped \cup {pack.seq}
        /\ UNCHANGED table
  /\ pc' = "loop"
  /\ UNCHANGED <<stop, memVars, sockVars, file, handle, envVars, accepted,
                 resent, undeleted>>

-----------------------------------------------------------------------------
(* The backlog: count, take the first row, send pack_bytes of it, delete.   *)

SelectThen(call) ==
  /\ pc = "select"
  /\ \/ DbUp /\ table # <<>> /\ pc' = call /\ UNCHANGED faults
     \/ DbUp /\ table = <<>> /\ pc' = "loop" /\ UNCHANGED faults
     \/ DbFails /\ pc' = "loop"
  /\ UNCHANGED <<stop, memVars, sockVars, dbVars, envVars, history>>

\* Mutant: the row is not taken into data_buf before it is sent.
SelectSends == SelectThen("sendrow")

Select == SelectThen("take")

TakeRow(row) ==
  /\ pc = "take"
  /\ \/ DbUp /\ dataBuf' = row /\ pc' = "sendrow" /\ UNCHANGED faults
     \/ DbFails /\ pc' = "loop" /\ UNCHANGED dataBuf
  /\ UNCHANGED <<stop, first, flag, pack, packBytes, sockVars, dbVars,
                 envVars, history>>

\* Mutant: the newest row is taken.
TakeNewest == TakeRow(table[Len(table)])

Take == TakeRow(Head(table))

\* The byte count is that of the last packet, not of the row; with 0 bytes
\* sock_send_data makes no call and reports success.
RowSentThen(call) ==
  /\ pc = "sendrow"
  /\ packBytes = 0 \/ CanWrite
  /\ IF packBytes >= TextLen(dataBuf)
       THEN HandOver(dataBuf)
       ELSE UNCHANGED <<accepted, resent>>
  /\ pc' = call
  /\ UNCHANGED <<stop, memVars, sockVars, dbVars, envVars, faults,
                 undeleted, dropped>>

RowFailsThen(call) ==
  /\ pc = "sendrow"
  /\ packBytes # 0 /\ WriteFails
  /\ CloseSock
  /\ pc' = call
  /\ UNCHANGED <<stop, memVars, dbVars, envVars, faults, history>>

\* Mutants: the row stays in the table, or goes although its send failed.
SendRowKeeps        == RowSentThen("loop")
SendRowFailsDeletes == RowFailsThen("delete")

SendRow      == RowSentThen("delete")
SendRowFails == RowFailsThen("loop")

\* database_data_delete removes the row of the smallest rowid; main() does
\* not look at its result.
DeleteLeaving(rows) ==
  /\ pc = "delete"
  /\ \/ DbUp /\ table' = rows /\ UNCHANGED <<undeleted, faults>>
     \/ /\ DbFails /\ undeleted' = undeleted \cup {dataBuf.seq}
        /\ UNCHANGED table
  /\ pc' = "loop"
  /\ UNCHANGED <<stop, memVars, sockVars, file, handle, envVars, accepted,
                 resent, dropped>>

\* Mutant: MAX(rowid) for MIN(rowid).
DeleteNewest == DeleteLeaving(SubSeq(table, 1, Len(table) - 1))

Delete == DeleteLeaving(Tail(table))

-----------------------------------------------------------------------------
(* What happens around the process.                                         *)

\* SIGINT or SIGTERM: the handler sets the flag the loop reads.
Signal ==
  /\ pc # "down" /\ ~stop
  /\ stop' = TRUE
  /\ UNCHANGED <<pc, memVars, sockVars, dbVars, envVars, faults, history>>

\* SIGKILL, a power cut, or undefined behaviour that ends the process.
Kill ==
  /\ pc # "down"
  /\ ForgetMemory
  /\ dropped' = dropped \cup InHand
  /\ undeleted' = undeleted \cup (IF pc = "delete" THEN {dataBuf.seq} ELSE {})
  /\ UNCHANGED <<stop, file, table, envVars, faults, accepted, resent>>

Restart ==
  /\ pc = "down" /\ runs < MaxRuns /\ taken < MaxSamples
  /\ pc' = "init" /\ stop' = FALSE
  /\ runs' = runs + 1
  /\ UNCHANGED <<memVars, sockVars, dbVars, reachable, taken, drops, faults,
                 history>>

\* The server closes, crashes or becomes unreachable on a live connection.
Disconnect ==
  /\ drops < MaxDrops
  /\ \E f \in Fds : /\ tcp[f] = "established"
                    /\ tcp' = [tcp EXCEPT ![f] = "down"]
  /\ drops' = drops + 1
  /\ UNCHANGED <<pc, stop, memVars, connfd, dbVars, reachable, taken, runs,
                 faults, history>>

Reachability ==
  /\ reachable' = ~reachable
  /\ UNCHANGED <<pc, stop, memVars, sockVars, dbVars, taken, drops, runs,
                 faults, history>>

Step ==
  \/ OpenExisting \/ OpenNew \/ CreateTable
  \/ Sample \/ NotDue \/ Exit
  \/ StillConnected \/ Connect \/ ConnectFails \/ SeenAlive \/ SeenDead
  \/ SendLive \/ SendLiveFails \/ Insert
  \/ Select \/ Take \/ SendRow \/ SendRowFails \/ Delete

Environment == Signal \/ Kill \/ Restart \/ Disconnect \/ Reachability

Next == Step \/ Environment

Spec == Init /\ [][Next]_vars

\* The loop never sleeps and no call of it waits for ever here, so the
\* scheduler alone makes the process go on.  Nothing obliges the environment.
FairSpec == Spec /\ WF_vars(Step)

-----------------------------------------------------------------------------
(* What makes the client correct.                                           *)

\* The numbers of the samples in the table, and their order.
SeqsOf(rows) == {rows[i].seq : i \in DOMAIN rows}

Increasing(rows) ==
  \A i, j \in DOMAIN rows : i < j => rows[i].seq < rows[j].seq

Spooled == SeqsOf(table)

\* No sample is forgotten: whatever was taken was handed over in full, waits
\* in the table, is on its way to one of the two, or was counted as dropped,
\* in memory by a kill or by an INSERT that failed (main.c:137-172).
Conserved == 1 .. taken \subseteq accepted \cup Spooled \cup dropped \cup InHand

\* The table is a queue: rowids grow in the order the samples were taken, and
\* the sample in hand is newer than all of them, so that MIN(rowid) of the
\* DELETE and the first row of the SELECT are the same, oldest sample, across
\* kills, restarts and failed calls (database.c:108-167).
SpoolOrder ==
  /\ Increasing(table)
  /\ \A m \in Spooled : m <= taken /\ \A n \in InHand : m < n

\* The count that found a row still holds when the row is taken, so that
\* results[3..5] are there to read, and what is sent from data_buf is the row
\* the DELETE removes (main.c:175-189, database.c:128-205).
ServesHead ==
  /\ pc \in {"take", "sendrow", "delete"} => table # <<>>
  /\ pc \in {"sendrow", "delete"} => dataBuf = Head(table)

\* Every descriptor the kernel holds open for the process is the one sock
\* names: no path of failing sends, dead peers and reconnections loses one
\* (main.c:125-139,157-184 and sock.c:78-156).
NoDescriptorLeak == \A f \in Fds : tcp[f] # "closed" => f = connfd

\* A sample reaches the server twice only when its row was sent and the DELETE
\* after it failed, or the process was killed between the two (main.c:180-187).
ResentExplained == resent \subseteq undeleted

\* A row leaves the table only when the server was sent all of its text: the
\* DELETE follows the send of that row and no other (main.c:178-188).
RowLeavesOnlySent ==
  [][\A n \in Spooled : n \notin Spooled' => n \in accepted]_vars

\* The loop never runs on an open database without a table.  The code does not
\* keep it: a process killed before CREATE TABLE leaves a file that later ones
\* only open (database.c:34-82).
InitMakesTable == pc = "loop" /\ handle = "open" => file = "table"

\* The rest of the inductive invariant: where the sample in hand comes from and
\* what is known of the samples that were sent.
PackIsNewest == pack = NoSample \/ pack.seq = taken

SampleInHand ==
  /\ pc \in {"send", "spool"} => flag
  /\ flag => pack \in Samples

SentWasTaken ==
  /\ accepted \cup dropped \subseteq 1 .. taken
  /\ InHand \cap accepted = {}

SentRowExplained ==
  \A n \in Spooled \cap accepted :
    n \in undeleted \/ (pc = "delete" /\ n = dataBuf.seq)

IInv ==
  /\ TypeOK /\ PackIsNewest /\ SampleInHand /\ SentWasTaken
  /\ SpoolOrder /\ ServesHead /\ NoDescriptorLeak
  /\ SentRowExplained /\ ResentExplained

\* The assumption on the texts under which no packet is shorter than a row, and
\* the invariant it adds: the count that is sent covers the row.
RowsFit == IntervalGiven /\ \A v, w \in Widths : w <= v + 5

RowSent ==
  /\ pc \notin {"init", "create", "loop", "down"} => ~first
  /\ ~first => \E w \in Widths : packBytes = w + 15
  /\ pc = "delete" => dataBuf.seq \in accepted

FitInv == IInv /\ RowSent /\ Conserved

\* What a user of the client relies on, whatever the calls it is made of.
SF == INSTANCE StoreForward WITH
        Sample <- 1 .. MaxSamples, volatile <- InHand, durable <- Spooled,
        delivered <- accepted, lost <- dropped
Implements == SF!Spec

\* Once the server stays reachable and the process and its database stay up,
\* the whole backlog is sent and the table stays empty (main.c:125-189).
Drains ==
  <>[](reachable /\ pc # "down" /\ DbUp) => <>[](table = <<>>)

\* A SIGINT or SIGTERM ends the process, at any call it arrives in: the loop
\* reads the flag at its head and no path of a turn avoids the head
\* (main.c:100-192, proc.c:30-42).
StopTerminates == stop ~> pc = "down"

=============================================================================
