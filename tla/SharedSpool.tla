---------------------------- MODULE SharedSpool -----------------------------
(***************************************************************************)
(* Several clients started in one directory, as client/test.sh does: every *)
(* process has a connection to SQLite of its own (database.c) and all of   *)
(* them open, fill and drain the same cli_dtbase.db.  What Client shows    *)
(* with one process between two calls happens here with many; sockets,     *)
(* sampling and the byte count of a send are abstracted to their outcomes. *)
(***************************************************************************)
EXTENDS Naturals, Sequences, FiniteSets, Functions

CONSTANTS
  Procs,      \* the client processes
  Files,      \* the files that can be created under the name of the database
  NoFile,     \* no file: the name is free, or a handle is not usable
  MaxRows,    \* bound: rows inserted
  MaxFaults,  \* bound: SQLite calls that fail (busy, I/O)
  MaxKills    \* bound: processes that die

ASSUME SharedAssumption ==
  /\ NoFile \notin Files
  /\ MaxRows \in Nat /\ MaxFaults \in Nat /\ MaxKills \in Nat

VARIABLES
  pc,         \* the call each process makes next
  handle,     \* the file each process has open
  dataBuf,    \* the row each process took; 0 stands for what is not a row
  named,      \* the file the name stands for
  hasTable,   \* the files with the table
  rows,       \* the rows of each file, by number
  inserted, faults, kills,  \* what the bounds count
  sent,       \* history: rows that were sent
  surplus,    \* history: sends of a row sent before, or of no row
  removed     \* history: rows that were deleted

bounds  == <<inserted, faults, kills>>
history == <<sent, surplus, removed>>
vars == <<pc, handle, dataBuf, named, hasTable, rows, bounds, history>>

Calls == {"init", "open", "openNew", "create", "loop", "take", "send",
          "delete", "down"}

\* A process between Select and Delete has a database with the table open.
Usable(p) == handle[p] \in hasTable
Rows(p) == rows[handle[p]]

TypeOK ==
  /\ pc \in [Procs -> Calls]
  /\ handle \in [Procs -> Files \cup {NoFile}]
  /\ dataBuf \in [Procs -> 0 .. MaxRows]
  /\ named \in Files \cup {NoFile}
  /\ hasTable \subseteq Files
  /\ rows \in [Files -> Seq(1 .. MaxRows)]
  /\ inserted \in 0 .. MaxRows
  /\ faults \in 0 .. MaxFaults /\ kills \in 0 .. MaxKills
  /\ sent \subseteq 1 .. MaxRows /\ removed \subseteq 1 .. MaxRows
  /\ surplus \in Nat
  /\ \A p \in Procs : pc[p] \in {"take", "send", "delete"} => Usable(p)

Init ==
  /\ pc = [p \in Procs |-> "init"]
  /\ handle = [p \in Procs |-> NoFile]
  /\ dataBuf = [p \in Procs |-> 0]
  /\ named = NoFile /\ hasTable = {} /\ rows = [f \in Files |-> <<>>]
  /\ inserted = 0 /\ faults = 0 /\ kills = 0
  /\ sent = {} /\ surplus = 0 /\ removed = {}

Goto(p, call) == pc' = [pc EXCEPT ![p] = call]

-----------------------------------------------------------------------------
(* database_table_init: access(), sqlite3_open() and CREATE TABLE, each a     *)
(* step in which another process may be in between.                           *)

Access(p) ==
  /\ pc[p] = "init"
  /\ Goto(p, IF named = NoFile THEN "openNew" ELSE "open")
  /\ UNCHANGED <<handle, dataBuf, named, hasTable, rows, bounds, history>>

\* sqlite3_open creates the file if the name is free again or still.
Open(p) ==
  /\ pc[p] \in {"open", "openNew"}
  /\ \/ named # NoFile /\ UNCHANGED named
     \/ named = NoFile /\ named' \in {f \in Files : rows[f] = <<>> /\ f \notin hasTable
                                         /\ \A q \in Procs : handle[q] # f}
  /\ handle' = [handle EXCEPT ![p] = named']
  /\ Goto(p, IF pc[p] = "open" THEN "loop" ELSE "create")
  /\ UNCHANGED <<dataBuf, hasTable, rows, bounds, history>>

Create(p) ==
  /\ pc[p] = "create"
  /\ hasTable' = hasTable \cup {handle[p]}
  /\ Goto(p, "loop")
  /\ UNCHANGED <<handle, dataBuf, named, rows, bounds, history>>

Fails == faults < MaxFaults /\ faults' = faults + 1

\* The handle is closed and the name unlinked, whoever else has the file open.
CreateFails(p) ==
  /\ pc[p] = "create" /\ Fails
  /\ handle' = [handle EXCEPT ![p] = NoFile]
  /\ named' = NoFile
  /\ Goto(p, "loop")
  /\ UNCHANGED <<dataBuf, hasTable, rows, inserted, kills, history>>

-----------------------------------------------------------------------------
(* The turn of the loop: spool a sample, or serve the backlog.                *)

Insert(p) ==
  /\ pc[p] = "loop" /\ Usable(p) /\ inserted < MaxRows
  /\ inserted' = inserted + 1
  /\ rows' = [rows EXCEPT ![handle[p]] = Append(@, inserted + 1)]
  /\ UNCHANGED <<pc, handle, dataBuf, named, hasTable, faults, kills, history>>

Select(p) ==
  /\ pc[p] = "loop" /\ Usable(p)
  /\ Rows(p) # <<>>
  /\ Goto(p, "take")
  /\ UNCHANGED <<handle, dataBuf, named, hasTable, rows, bounds, history>>

TakeRow(p, row) ==
  /\ pc[p] = "take"
  /\ dataBuf' = [dataBuf EXCEPT ![p] = row]
  /\ Goto(p, "send")
  /\ UNCHANGED <<handle, named, hasTable, rows, bounds, history>>

\* Mutant: the newest row is taken.
TakeNewest(p) ==
  TakeRow(p, IF Rows(p) = <<>> THEN 0 ELSE Rows(p)[Len(Rows(p))])

\* Without a row, results[3..5] lie behind the table that SQLite returned: the
\* text that is sent stands for no row.
Take(p) == TakeRow(p, IF Rows(p) = <<>> THEN 0 ELSE Head(Rows(p)))

TakeFails(p) ==
  /\ pc[p] = "take" /\ Fails
  /\ Goto(p, "loop")
  /\ UNCHANGED <<handle, dataBuf, named, hasTable, rows, inserted, kills, history>>

Send(p) ==
  /\ pc[p] = "send"
  /\ IF dataBuf[p] = 0 \/ dataBuf[p] \in sent
       THEN surplus' = surplus + 1 /\ UNCHANGED sent
       ELSE sent' = sent \cup {dataBuf[p]} /\ UNCHANGED surplus
  /\ Goto(p, "delete")
  /\ UNCHANGED <<handle, dataBuf, named, hasTable, rows, bounds, removed>>

SendFailsThen(p, call) ==
  /\ pc[p] = "send"
  /\ Goto(p, call)
  /\ UNCHANGED <<handle, dataBuf, named, hasTable, rows, bounds, history>>

\* Mutant: the row is deleted whatever the send returned.
SendFailsDeletes(p) == SendFailsThen(p, "delete")

SendFails(p) == SendFailsThen(p, "loop")

\* The row of the smallest rowid, which need not be the one that was sent.
Delete(p) ==
  /\ pc[p] = "delete"
  /\ IF Rows(p) = <<>>
       THEN UNCHANGED <<rows, removed>>
       ELSE /\ rows' = [rows EXCEPT ![handle[p]] = Tail(@)]
            /\ removed' = removed \cup {Head(Rows(p))}
  /\ Goto(p, "loop")
  /\ UNCHANGED <<handle, dataBuf, named, hasTable, bounds, sent, surplus>>

DeleteFails(p) ==
  /\ pc[p] = "delete" /\ Fails
  /\ Goto(p, "loop")
  /\ UNCHANGED <<handle, dataBuf, named, hasTable, rows, inserted, kills, history>>

\* The process ends, between two calls or by a kill, and may be started again.
Die(p) ==
  /\ pc[p] # "down" /\ kills < MaxKills
  /\ kills' = kills + 1
  /\ handle' = [handle EXCEPT ![p] = NoFile]
  /\ dataBuf' = [dataBuf EXCEPT ![p] = 0]
  /\ Goto(p, "down")
  /\ UNCHANGED <<named, hasTable, rows, inserted, faults, history>>

Begin(p) ==
  /\ pc[p] = "down"
  /\ Goto(p, "init")
  /\ UNCHANGED <<handle, dataBuf, named, hasTable, rows, bounds, history>>

Next ==
  \E p \in Procs :
    \/ Access(p) \/ Open(p) \/ Create(p) \/ CreateFails(p)
    \/ Insert(p) \/ Select(p) \/ Take(p) \/ TakeFails(p)
    \/ Send(p) \/ SendFails(p) \/ Delete(p) \/ DeleteFails(p)
    \/ Die(p) \/ Begin(p)

Spec == Init /\ [][Next]_vars

-----------------------------------------------------------------------------
(* What holds with many processes, and what does not.                       *)

\* However the processes interleave, rows are deleted unsent only as many times
\* as a send was wasted on a row sent before or on none: every DELETE was paid
\* for by a send (main.c:175-188, database.c:127-167).
LossIsPaid == Cardinality(removed \ sent) <= surplus

\* Rows are first sent in the order they were inserted: one that was sent and is
\* still there is the oldest of its file, for every process that has it open
\* (main.c:174-188, database.c:133,155).
SentIsOldest ==
  \A f \in Files : \A i \in DOMAIN rows[f] : rows[f][i] \in sent => i = 1

\* Every variable is in its range, and a file's order is that of its insertions as
\* far as rows were sent (main.c:174-188).
Consistent == TypeOK /\ SentIsOldest

\* Every row that is deleted was sent, or is about to be.  The code keeps it for
\* one client and not for two (database.c:127-133, test.sh:3-6).
NoRowVanishes == removed \subseteq sent \cup {dataBuf[p] : p \in Procs}

=============================================================================
