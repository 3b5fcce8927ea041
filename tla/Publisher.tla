----------------------------- MODULE Publisher ------------------------------
(***************************************************************************)
(* mqtt1.c: one thread connects to the broker, leaves the connection to    *)
(* mosquitto_loop_forever, publishes one reading from the connect callback *)
(* and disconnects there; five seconds later it connects again.            *)
(* libmosquitto is external: what is queued in a callback is written by    *)
(* the loop, in order; the loop reconnects unless the program disconnected. *)
(***************************************************************************)
EXTENDS Naturals, Sequences, SequencesExt

CONSTANTS
  MaxRounds,  \* bound: connect callbacks
  MaxFaults   \* bound: allocations that fail

ASSUME PublisherAssumption == MaxRounds \in Nat /\ MaxFaults \in Nat

VARIABLES
  pc,         \* the call the program is in or makes next
  configured, \* get_config filled mqtt
  conn,       \* the library's connection: "none", "waiting", "up" (answered), "down"
  link,       \* the TCP connection is there; the loop notices later if not
  leaving,    \* mosquitto_disconnect was called
  queue,      \* packets the loop has to write
  rc,         \* what the callback is told
  read,       \* temp holds a reading of this callback
  msg,        \* the JSON text, by the callback that made it
  rounds, faults,  \* what the bounds count
  broker,     \* history: readings that arrived, by callback
  accepted,   \* history: callbacks that were told the broker accepted
  cut,        \* history: callbacks whose connection was lost under them
  unsent,     \* history: callbacks whose publish returned an error
  taken       \* history: callbacks whose sensor gave a reading

library == <<conn, link, leaving, queue>>
history == <<broker, accepted, cut, unsent, taken>>
vars == <<pc, configured, library, rc, read, msg, rounds, faults, history>>

\* The packet that is no message.
Disconnect == [round |-> 0, read |-> FALSE]

TypeOK ==
  /\ pc \in {"config", "init", "connect", "loop", "sensor", "pack", "publish",
              "disconnect", "sleep", "exit", "crashed"}
  /\ configured \in BOOLEAN /\ read \in BOOLEAN
  /\ conn \in {"none", "waiting", "up", "down"}
  /\ link \in BOOLEAN /\ leaving \in BOOLEAN
  /\ queue \in Seq([round : 0 .. MaxRounds, read : BOOLEAN])
  /\ Len(queue) <= 2
  /\ rc \in {0, 1} /\ msg \in 0 .. MaxRounds
  /\ rounds \in 0 .. MaxRounds /\ faults \in 0 .. MaxFaults
  /\ \A i \in DOMAIN broker : broker[i].round \in 1 .. rounds
  /\ accepted \cup cut \cup unsent \cup taken \subseteq 1 .. rounds

Init ==
  /\ pc = "config" /\ configured = FALSE
  /\ conn = "none" /\ link = FALSE /\ leaving = FALSE /\ queue = <<>>
  /\ rc = 0 /\ read = FALSE /\ msg = 0
  /\ rounds = 0 /\ faults = 0
  /\ broker = <<>> /\ accepted = {} /\ cut = {} /\ unsent = {} /\ taken = {}

Fault == faults < MaxFaults /\ faults' = faults + 1

-----------------------------------------------------------------------------
(* main                                                                      *)

\* What get_config returns is not looked at: mqtt may be all zero.
Configure ==
  /\ pc = "config" /\ pc' = "init"
  /\ configured' \in BOOLEAN
  /\ UNCHANGED <<library, rc, read, msg, rounds, faults, history>>

\* mosquitto_lib_init, mosquitto_new, mosquitto_username_pw_set.
Create ==
  /\ pc = "init" /\ pc' = "connect"
  /\ UNCHANGED <<configured, library, rc, read, msg, rounds, faults, history>>

CreateFails ==
  /\ pc = "init" /\ Fault /\ pc' = "exit"
  /\ UNCHANGED <<configured, library, rc, read, msg, rounds, history>>

\* The library starts anew: what was queued is forgotten.
Connect ==
  /\ pc = "connect" /\ configured
  /\ conn' = "waiting" /\ link' = TRUE /\ leaving' = FALSE /\ queue' = <<>>
  /\ pc' = "loop"
  /\ UNCHANGED <<configured, rc, read, msg, rounds, faults, history>>

\* The broker is not reached, or the address and port are those of no broker.
ConnectFails ==
  /\ pc = "connect" /\ pc' = "exit"
  /\ UNCHANGED <<configured, library, rc, read, msg, rounds, faults, history>>

Sleep ==
  /\ pc = "sleep" /\ pc' = "connect"
  /\ UNCHANGED <<configured, library, rc, read, msg, rounds, faults, history>>

-----------------------------------------------------------------------------
(* mosquitto_loop_forever and the broker.                                    *)

\* The broker answers CONNECT and the callback is entered.
Answered ==
  /\ pc = "loop" /\ conn = "waiting" /\ link /\ rounds < MaxRounds
  /\ rounds' = rounds + 1
  /\ rc' \in {0, 1}
  /\ conn' = "up"
  /\ accepted' = IF rc' = 0 THEN accepted \cup {rounds'} ELSE accepted
  /\ read' = FALSE /\ msg' = 0
  /\ pc' = "sensor"
  /\ UNCHANGED <<configured, link, leaving, queue, faults, broker, cut, unsent, taken>>

\* The connection breaks while the program waits, or in its callback.
Lose ==
  /\ link /\ conn \in {"waiting", "up"}
  /\ link' = FALSE
  /\ cut' = IF rounds = 0 THEN cut ELSE cut \cup {rounds}
  /\ UNCHANGED <<pc, configured, conn, leaving, queue, rc, read, msg, rounds, faults,
                 broker, accepted, unsent, taken>>

\* The loop finds the connection broken; it ends if the program wanted that.
Notice ==
  /\ pc = "loop" /\ conn \in {"waiting", "up"} /\ ~link
  /\ queue' = <<>>
  /\ conn' = IF leaving THEN "none" ELSE "down"
  /\ pc' = IF leaving THEN "sleep" ELSE "loop"
  /\ UNCHANGED <<configured, link, leaving, rc, read, msg, rounds, faults, history>>

Reconnect ==
  /\ pc = "loop" /\ conn = "down"
  /\ conn' = "waiting" /\ link' = TRUE
  /\ UNCHANGED <<pc, configured, leaving, queue, rc, read, msg, rounds, faults, history>>

\* The head of the queue is written; after DISCONNECT the loop returns.
Write ==
  /\ pc = "loop" /\ link /\ queue # <<>>
  /\ queue' = Tail(queue)
  /\ IF Head(queue) = Disconnect
       THEN conn' = "none" /\ link' = FALSE /\ pc' = "sleep" /\ UNCHANGED broker
       ELSE broker' = Append(broker, Head(queue)) /\ UNCHANGED <<conn, link, pc>>
  /\ UNCHANGED <<configured, leaving, rc, read, msg, rounds, faults,
                 accepted, cut, unsent, taken>>

-----------------------------------------------------------------------------
(* connect_callback: nothing that fails ends it, whatever rc is.             *)

\* get_temperature: without directory or chip it returns an error, and 0 when the
\* file cannot be opened or read or holds no "t="; temp is set in neither case.
SensorOutcomes == {[ret |-> 1, read |-> FALSE], [ret |-> 0, read |-> FALSE],
                   [ret |-> 0, read |-> TRUE]}

GetTemperature ==
  /\ pc = "sensor" /\ pc' = "pack"
  /\ \E o \in SensorOutcomes : read' = o.read
  /\ taken' = IF read' THEN taken \cup {rounds} ELSE taken
  /\ UNCHANGED <<configured, library, rc, msg, rounds, faults,
                 broker, accepted, cut, unsent>>

\* The object is built, a member that cannot be made left out, and printed.
Render ==
  /\ pc = "pack" /\ pc' = "publish"
  /\ msg' = rounds
  /\ UNCHANGED <<configured, library, rc, read, rounds, faults, history>>

\* Without root, or without the memory to print it, msg is NULL.
RenderFails ==
  /\ pc = "pack" /\ Fault /\ pc' = "crashed"
  /\ UNCHANGED <<configured, library, rc, read, msg, rounds, history>>

Message == [round |-> msg, read |-> read]

\* Mutant: rc is not looked at.
PublishAlways ==
  /\ pc = "publish" /\ pc' = "disconnect"
  /\ queue' = Append(queue, Message)
  /\ UNCHANGED <<configured, conn, link, leaving, rc, read, msg, rounds, faults, history>>

Publish ==
  /\ pc = "publish" /\ pc' = "disconnect"
  /\ queue' = IF rc = 0 THEN Append(queue, Message) ELSE queue
  /\ UNCHANGED <<configured, conn, link, leaving, rc, read, msg, rounds, faults, history>>

PublishFails ==
  /\ pc = "publish" /\ rc = 0 /\ Fault /\ pc' = "disconnect"
  /\ unsent' = unsent \cup {rounds}
  /\ UNCHANGED <<configured, library, rc, read, msg, rounds, broker, accepted, cut, taken>>

\* Mutant: only a connection the broker accepted is left.
LeaveAccepted ==
  /\ pc = "disconnect" /\ pc' = "loop"
  /\ leaving' = (rc = 0)
  /\ queue' = IF rc = 0 THEN Append(queue, Disconnect) ELSE queue
  /\ UNCHANGED <<configured, conn, link, rc, read, msg, rounds, faults, history>>

\* Mutant: the connection is closed before the queue is written.
LeaveAtOnce ==
  /\ pc = "disconnect" /\ pc' = "loop"
  /\ leaving' = TRUE
  /\ queue' = <<Disconnect>>
  /\ UNCHANGED <<configured, conn, link, rc, read, msg, rounds, faults, history>>

Leave ==
  /\ pc = "disconnect" /\ pc' = "loop"
  /\ leaving' = TRUE
  /\ queue' = Append(queue, Disconnect)
  /\ UNCHANGED <<configured, conn, link, rc, read, msg, rounds, faults, history>>

Program ==
  \/ Configure \/ Create \/ CreateFails \/ Connect \/ ConnectFails \/ Sleep
  \/ GetTemperature \/ Render \/ RenderFails
  \/ Publish \/ PublishFails \/ Leave
  \/ Notice \/ Reconnect \/ Write

Next == Program \/ Answered \/ Lose

\* The thread runs on and the loop handles what it sees; the broker need not
\* answer and the connection may break at any time.
Spec == Init /\ [][Next]_vars /\ WF_vars(Program)

-----------------------------------------------------------------------------
\* mosquitto_disconnect right behind mosquitto_publish loses nothing: a callback
\* that was accepted, and whose connection held, has its reading at the broker when
\* the loop returns (mqtt1.c:256-263, 82-86).
DeliveredUnlessCut ==
  pc = "sleep" /\ rounds \in accepted \ (cut \cup unsent) =>
    \E i \in DOMAIN broker : broker[i].round = rounds

\* The broker gets messages in the order they were made, each once, with the reading
\* of their own callback if it took one, and none over a connection it refused
\* (mqtt1.c:72-86, 226-263).
InOrderOnce ==
  /\ \A i, j \in DOMAIN broker : i < j => broker[i].round < broker[j].round
  /\ \A i \in DOMAIN broker : /\ broker[i].round \in accepted
                              /\ broker[i].read <=> broker[i].round \in taken

\* The type invariant with it: between callbacks the queue never holds more than one
\* message and the packet that ends the connection (mqtt1.c:82-86, 256-264).
Consistent == TypeOK /\ InOrderOnce

\* Once a callback has begun the loop returns to main, whether the broker accepted,
\* the connection broke or nothing was published: the library does not keep the
\* program in a connection that is never used again (mqtt1.c:82, 256-264).
CallbackLeavesLoop == pc = "sensor" ~> pc \in {"sleep", "crashed"}

=============================================================================
