------------------------------- MODULE Logger -------------------------------
(***************************************************************************)
(* logger.c in the processes of client/test.sh, which share one log file:  *)
(* every process appends through a stream of its own, rolls the file back  *)
(* when its stream is at the limit, and logs from inside the rollback and  *)
(* from signal handlers.  A process is a stack of _log_write calls, the    *)
(* top one running; a line is a number, the blank lines are left out.      *)
(***************************************************************************)
EXTENDS Integers, Sequences, FiniteSets, SequencesExt

CONSTANTS
  Procs,
  Level,      \* L.level of each process
  Locked,     \* the processes that opened the log with a lock
  Limit,      \* L.size, in lines
  MaxCalls,   \* bound: messages of the program
  MaxSignals, \* bound: signals
  MaxFaults   \* bound: calls that fail

WARN == 1
INFO == 2

ASSUME LoggerAssumption ==
  /\ Level \in [Procs -> Nat] /\ Locked \subseteq Procs /\ Limit \in Nat /\ Limit >= 2
  /\ MaxCalls \in Nat /\ MaxSignals \in Nat /\ MaxFaults \in Nat

VARIABLES
  state,      \* each process: "new", "open", "closed"
  stack,      \* each process: its calls of _log_write, the last one running
  pos,        \* each process: what ftell returns
  mutex,      \* the processes whose lock is held
  file, bak,  \* the lines of the log file and of its backup
  calls, signals, faults,  \* what the bounds count
  written,    \* history: who wrote each line
  copied,     \* history: lines that were in a backup
  lost,       \* history: lines truncated and never in a backup
  window,     \* history: lines written between a copy and its truncate
  uncopied,   \* history: lines in the file when a copy failed
  uncut,      \* history: truncates that failed, by process
  misused     \* history: processes that wrote to the stream they closed

bounds  == <<calls, signals, faults>>
history == <<copied, lost, window, uncopied, uncut, misused>>
vars == <<state, stack, pos, mutex, file, bak, bounds, written, history>>

Places == {"enter", "lock", "size", "copy", "truncate", "banner", "write", "unlock"}
Frames == [level : Nat, at : Places, handler : BOOLEAN]

TypeOK ==
  /\ state \in [Procs -> {"new", "open", "closed"}]
  /\ stack \in [Procs -> Seq(Frames)]
  /\ pos \in [Procs -> Nat] /\ mutex \subseteq Locked
  /\ written \in Seq(Procs)
  /\ \A f \in {file, bak} : f \in Seq(DOMAIN written) /\ IsInjective(f)
  /\ copied \cup lost \cup window \cup uncopied \subseteq DOMAIN written
  /\ uncut \in [Procs -> Nat] /\ misused \subseteq Procs

Init ==
  /\ state = [p \in Procs |-> "new"]
  /\ stack = [p \in Procs |-> <<>>] /\ pos = [p \in Procs |-> 0]
  /\ mutex = {} /\ file = <<>> /\ bak = <<>> /\ written = <<>>
  /\ calls = 0 /\ signals = 0 /\ faults = 0
  /\ copied = {} /\ lost = {} /\ window = {} /\ uncopied = {}
  /\ uncut = [p \in Procs |-> 0] /\ misused = {}

Fault == faults < MaxFaults /\ faults' = faults + 1

Frame(level, handler) == [level |-> level, at |-> "enter", handler |-> handler]
Push(p, frame) == stack' = [stack EXCEPT ![p] = Append(@, frame)]
Pop(p) == stack' = [stack EXCEPT ![p] = Front(@)]

Is(p, place) == stack[p] # <<>> /\ Last(stack[p]).at = place
Goto(p, place) == stack' = [stack EXCEPT ![p][Len(stack[p])].at = place]

-----------------------------------------------------------------------------
(* The program and its signal handlers.                                      *)

\* A blank line is pending in the stream when log_info is called: ftell of an
\* appending stream is then the end of the file.
Open(p) ==
  /\ state[p] = "new"
  /\ state' = [state EXCEPT ![p] = "open"]
  /\ pos' = [pos EXCEPT ![p] = Len(file)]
  /\ Push(p, Frame(INFO, FALSE))
  /\ UNCHANGED <<mutex, file, bak, bounds, written, history>>

Call(p) ==
  /\ state[p] = "open" /\ stack[p] = <<>> /\ calls < MaxCalls
  /\ calls' = calls + 1
  /\ \E level \in {WARN, INFO} : Push(p, Frame(level, FALSE))
  /\ UNCHANGED <<state, pos, mutex, file, bak, signals, faults, written, history>>

\* fclose leaves L.fp as it was.
Close(p) ==
  /\ state[p] = "open" /\ stack[p] = <<>>
  /\ state' = [state EXCEPT ![p] = "closed"]
  /\ UNCHANGED <<stack, pos, mutex, file, bak, bounds, written, history>>

\* proc_default_sighandler, wherever the process is.
Signal(p) ==
  /\ state[p] # "new" /\ signals < MaxSignals
  /\ signals' = signals + 1
  /\ Push(p, Frame(WARN, TRUE))
  /\ UNCHANGED <<state, pos, mutex, file, bak, calls, faults, written, history>>

-----------------------------------------------------------------------------
(* _log_write and, from it, log_rollback.                                    *)

\* Mutant: the lock is taken before the level is looked at.
EnterLocking(p) ==
  /\ Is(p, "enter")
  /\ Goto(p, IF p \in Locked THEN "lock" ELSE "size")
  /\ UNCHANGED <<state, pos, mutex, file, bak, bounds, written, history>>

\* Mutant: a lock is taken that nobody gives back.
EnterAlwaysLocking(p) ==
  /\ Is(p, "enter")
  /\ IF Last(stack[p]).level > Level[p] THEN Pop(p) ELSE Goto(p, "lock")
  /\ UNCHANGED <<state, pos, mutex, file, bak, bounds, written, history>>

Enter(p) ==
  /\ Is(p, "enter")
  /\ IF Last(stack[p]).level > Level[p] THEN Pop(p)
     ELSE Goto(p, IF p \in Locked THEN "lock" ELSE "size")
  /\ UNCHANGED <<state, pos, mutex, file, bak, bounds, written, history>>

Lock(p) ==
  /\ Is(p, "lock") /\ p \notin mutex
  /\ mutex' = mutex \cup {p}
  /\ Goto(p, "size")
  /\ UNCHANGED <<state, pos, file, bak, bounds, written, history>>

CheckSize(p) ==
  /\ Is(p, "size")
  /\ Goto(p, IF pos[p] >= Limit THEN "copy" ELSE "write")
  /\ UNCHANGED <<state, pos, mutex, file, bak, bounds, written, history>>

\* Mutant: the backup is made of the lines the old one lacks.
CopyNothing(p) ==
  /\ Is(p, "copy") /\ Goto(p, "truncate")
  /\ UNCHANGED <<state, pos, mutex, file, bak, bounds, written, history>>

Copy(p) ==
  /\ Is(p, "copy") /\ Goto(p, "truncate")
  /\ bak' = file /\ copied' = copied \cup Range(file)
  /\ UNCHANGED <<state, pos, mutex, file, bounds, written,
                 lost, window, uncopied, uncut, misused>>

\* What system() returns is not looked at.
CopyFails(p) ==
  /\ Is(p, "copy") /\ Fault /\ Goto(p, "truncate")
  /\ uncopied' = uncopied \cup Range(file)
  /\ UNCHANGED <<state, pos, mutex, file, bak, calls, signals, written,
                 copied, lost, window, uncut, misused>>

\* Mutant: the stream goes back, the file keeps its lines.
SeekOnly(p) ==
  /\ Is(p, "truncate") /\ Goto(p, "banner")
  /\ pos' = [pos EXCEPT ![p] = 0]
  /\ UNCHANGED <<state, mutex, file, bak, bounds, written, history>>

Truncate(p) ==
  /\ Is(p, "truncate") /\ Goto(p, "banner")
  /\ file' = <<>> /\ lost' = lost \cup (Range(file) \ copied)
  /\ pos' = [pos EXCEPT ![p] = 0]
  /\ UNCHANGED <<state, mutex, bak, bounds, written,
                 copied, window, uncopied, uncut, misused>>

TruncateFails(p) ==
  /\ Is(p, "truncate") /\ Fault /\ Goto(p, "banner")
  /\ pos' = [pos EXCEPT ![p] = 0]
  /\ uncut' = [uncut EXCEPT ![p] = @ + 1]
  /\ UNCHANGED <<state, mutex, file, bak, calls, signals, written,
                 copied, lost, window, uncopied, misused>>

\* The blank line and the log_info that reports the rollback, inside the call
\* that rolls back; with the line pending, ftell is the end of the file.
Banner(p) ==
  /\ Is(p, "banner")
  /\ pos' = [pos EXCEPT ![p] = Len(file)]
  /\ stack' = [stack EXCEPT ![p] =
                 Append([@ EXCEPT ![Len(@)].at = "write"], Frame(INFO, FALSE))]
  /\ UNCHANGED <<state, mutex, file, bak, bounds, written, history>>

InWindow == \E q \in Procs : \E i \in DOMAIN stack[q] : stack[q][i].at = "truncate"

\* The line is appended and flushed, wherever the stream was.
Write(p) ==
  LET line == Len(written) + 1 IN
  /\ Is(p, "write")
  /\ IF p \in Locked THEN Goto(p, "unlock") ELSE Pop(p)
  /\ IF state[p] = "closed"
       THEN misused' = misused \cup {p} /\ UNCHANGED <<file, pos, written, window>>
       ELSE /\ written' = Append(written, p)
            /\ file' = Append(file, line)
            /\ pos' = [pos EXCEPT ![p] = Len(file')]
            /\ window' = IF InWindow THEN window \cup {line} ELSE window
            /\ UNCHANGED misused
  /\ UNCHANGED <<state, mutex, bak, bounds, copied, lost, uncopied, uncut>>

Unlock(p) ==
  /\ Is(p, "unlock") /\ Pop(p)
  /\ mutex' = mutex \ {p}
  /\ UNCHANGED <<state, pos, file, bak, bounds, written, history>>

LogStep(p) ==
  \/ Enter(p) \/ Lock(p) \/ CheckSize(p) \/ Copy(p) \/ CopyFails(p)
  \/ Truncate(p) \/ TruncateFails(p) \/ Banner(p) \/ Write(p) \/ Unlock(p)

Next == \E p \in Procs : Open(p) \/ Call(p) \/ Close(p) \/ Signal(p) \/ LogStep(p)

\* A process that is in the logger runs on.
Spec == Init /\ [][Next]_vars /\ \A p \in Procs : WF_vars(LogStep(p))

-----------------------------------------------------------------------------
\* A line vanishes without ever being in a backup only if the copy failed, or if it
\* was written between a copy and the truncate after it, by a handler or by another
\* process (logger.c:150-156).
LostExplained == lost \subseteq window \cup uncopied

Handlers(p) == Cardinality({i \in DOMAIN stack[p] : stack[p][i].handler})
Others(p) == Cardinality({i \in DOMAIN written : written[i] \in Procs \ {p}})

\* A rollback logs and does not roll back again from there, unless its truncate
\* failed or others and handlers filled the file: the recursion ends
\* (logger.c:137-163, 177).
NestingBounded ==
  \A p \in Procs :
    Len(stack[p]) <= 2 * (1 + Handlers(p)) + uncut[p] + (Others(p) + signals) \div Limit

\* However many processes share the file and truncate it under each other, none has
\* more lines in it than the limit allows, but for the lines of handlers, for what
\* stays after a truncate that failed, and for the lines of its own rollbacks that
\* others and handlers made it nest (logger.c:137-163, 177).
ShareBounded ==
  \A p \in Procs : Cardinality({line \in Range(file) : written[line] = p})
                     <= Limit + signals + Limit * uncut[p] + (Others(p) + signals) \div Limit

\* What the limit promises (logger.c:137-177).
Bounded == NestingBounded /\ ShareBounded

\* A process that has the lock waits for it only if it logs at INFO, from its own
\* rollback, or from a handler (logger.c:165-177, 159).
SelfWaitExplained ==
  \A p \in mutex : Is(p, "lock") => Level[p] >= INFO \/ Handlers(p) > 0

\* What is written to a stream after log_close comes from a handler
\* (logger.c:128-135, main.c:194-199, proc.c:30-57).
ClosedForProgram == \A p \in misused : signals > 0

\* The type invariant with the two misuses that have a cause (logger.c:128-177).
Consistent == TypeOK /\ SelfWaitExplained /\ ClosedForProgram

\* A message of a process without lock is written and the call returns, whatever
\* rolls back under it (logger.c:165-202).
CallReturns == \A p \in Procs \ Locked : stack[p] # <<>> ~> stack[p] = <<>>

=============================================================================
