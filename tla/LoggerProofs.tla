---------------------------- MODULE LoggerProofs ----------------------------
(***************************************************************************)
(* Proofs about the logger, for every set of processes, every level, limit *)
(* and bound: what a process that waits for its own lock is doing, who     *)
(* writes to a closed log, which lines can vanish, how deep rollbacks nest *)
(* and how much of the file one process can fill.                          *)
(***************************************************************************)
EXTENDS Logger, FiniteSetTheorems, SequenceTheorems, WellFoundedInduction, TLAPS

-----------------------------------------------------------------------------
(* The inductive invariant.                                                 *)

\* What the bounds count, and no call before the log is open.
Counted ==
  /\ calls \in Nat /\ signals \in Nat /\ faults \in Nat
  /\ \A p \in Procs : state[p] = "new" => stack[p] = <<>>

\* A call that took the lock is in the stack of the process that has it.
Held ==
  \A p \in mutex : \E i \in DOMAIN stack[p] : stack[p][i].at \notin {"enter", "lock"}

\* What is called from a rollback is its banner; what has passed the level check is
\* within the level, and what waits for a lock belongs to a process that has one.
Nested ==
  \A p \in Procs : \A i \in DOMAIN stack[p] :
    /\ i > 1 /\ ~stack[p][i].handler => stack[p][i].level = INFO
    /\ stack[p][i].at # "enter" => stack[p][i].level <= Level[p]
    /\ stack[p][i].at = "lock" => p \in Locked

\* The program calls nothing after log_close.
ClosedCalls ==
  \A p \in Procs : state[p] = "closed" /\ stack[p] # <<>> => signals > 0

\* Between a copy and its truncate the file has only lines whose loss is explained.
Windowed == InWindow => Range(file) \subseteq copied \cup window \cup uncopied

TypeInv == TypeOK /\ Counted
CallInv == Held /\ Nested /\ ClosedCalls
LossInv == Windowed /\ LostExplained
IInv == TypeInv /\ CallInv /\ ClosedForProgram /\ LossInv

-----------------------------------------------------------------------------
(* A stack of calls.                                                        *)

\* The call on top of a stack.
LEMMA Top ==
  ASSUME NEW s \in Seq(Frames), s # <<>>
  PROVE  /\ Len(s) \in DOMAIN s /\ Last(s) = s[Len(s)] /\ Last(s) \in Frames
         /\ Len(s) \in Nat \ {0} /\ DOMAIN s = 1 .. Len(s)
BY DEF Last

\* A stack whose top call goes on to another place.
LEMMA Moved ==
  ASSUME NEW s \in Seq(Frames), s # <<>>, NEW place \in Places,
         NEW t, t = [s EXCEPT ![Len(s)].at = place]
  PROVE  /\ t \in Seq(Frames) /\ Len(t) = Len(s) /\ DOMAIN t = DOMAIN s
         /\ \A i \in DOMAIN s : i # Len(s) => t[i] = s[i]
         /\ t[Len(s)].at = place
         /\ t[Len(s)].level = s[Len(s)].level /\ t[Len(s)].handler = s[Len(s)].handler
<1>1. /\ Len(s) \in DOMAIN s /\ s[Len(s)] \in Frames
      /\ Len(s) \in Nat \ {0} /\ DOMAIN s = 1 .. Len(s)
  BY Top
<1>2. t = [s EXCEPT ![Len(s)] = [s[Len(s)] EXCEPT !.at = place]]
  OBVIOUS
<1>3. [s[Len(s)] EXCEPT !.at = place] \in Frames
  BY <1>1 DEF Frames
<1>4. t \in Seq(Frames) /\ Len(t) = Len(s) /\ DOMAIN t = DOMAIN s
  BY <1>1, <1>2, <1>3
<1>5. /\ \A i \in DOMAIN s : i # Len(s) => t[i] = s[i]
      /\ t[Len(s)] = [s[Len(s)] EXCEPT !.at = place]
  BY <1>1, <1>2
<1> QED
  BY <1>1, <1>4, <1>5 DEF Frames

\* A stack with one call more.
LEMMA Pushed ==
  ASSUME NEW s \in Seq(Frames), NEW f \in Frames, NEW t, t = Append(s, f)
  PROVE  /\ t \in Seq(Frames) /\ Len(t) = Len(s) + 1 /\ t # <<>>
         /\ Len(s) \in Nat /\ DOMAIN s = 1 .. Len(s) /\ DOMAIN t = 1 .. Len(s) + 1
         /\ \A i \in DOMAIN s : t[i] = s[i]
         /\ t[Len(s) + 1] = f
OBVIOUS

\* A stack whose top call has returned.
LEMMA Popped ==
  ASSUME NEW s \in Seq(Frames), s # <<>>, NEW t, t = Front(s)
  PROVE  /\ t \in Seq(Frames) /\ DOMAIN t = 1 .. Len(s) - 1
         /\ DOMAIN s = 1 .. Len(s) /\ Len(s) \in Nat \ {0}
         /\ \A i \in DOMAIN t : t[i] = s[i]
<1>1. Len(s) \in Nat \ {0} /\ DOMAIN s = 1 .. Len(s)
  BY Top
<1>2. t = SubSeq(s, 1, Len(s) - 1)
  BY DEF Front
<1>3. t = [i \in 1 .. Len(s) - 1 |-> s[i]]
  BY <1>1, <1>2
<1>4. \A i \in 1 .. Len(s) - 1 : s[i] \in Frames
  BY <1>1
<1> QED
  BY <1>1, <1>3, <1>4

-----------------------------------------------------------------------------
(* The stacks of the processes when one of them makes a step.               *)

Beside(p) == \A q \in Procs \ {p} : stack'[q] = stack[q]

\* The top call of p goes on.
LEMMA GotoIs ==
  ASSUME TypeOK, NEW p \in Procs, stack[p] # <<>>, NEW place \in Places, Goto(p, place)
  PROVE  /\ stack' \in [Procs -> Seq(Frames)] /\ Beside(p)
         /\ Len(stack'[p]) = Len(stack[p]) /\ DOMAIN stack'[p] = DOMAIN stack[p]
         /\ \A i \in DOMAIN stack[p] : i # Len(stack[p]) => stack'[p][i] = stack[p][i]
         /\ stack'[p][Len(stack[p])].at = place
         /\ stack'[p][Len(stack[p])].level = stack[p][Len(stack[p])].level
         /\ stack'[p][Len(stack[p])].handler = stack[p][Len(stack[p])].handler
<1>1. stack \in [Procs -> Seq(Frames)]
  BY DEF TypeOK
<1>2. /\ stack' = [stack EXCEPT ![p] = [stack[p] EXCEPT ![Len(stack[p])].at = place]]
      /\ stack'[p] = [stack[p] EXCEPT ![Len(stack[p])].at = place]
  BY <1>1 DEF Goto
<1>3. stack[p] \in Seq(Frames)
  BY <1>1
<1>4. /\ stack'[p] \in Seq(Frames)
      /\ Len(stack'[p]) = Len(stack[p]) /\ DOMAIN stack'[p] = DOMAIN stack[p]
      /\ \A i \in DOMAIN stack[p] : i # Len(stack[p]) => stack'[p][i] = stack[p][i]
      /\ stack'[p][Len(stack[p])].at = place
      /\ stack'[p][Len(stack[p])].level = stack[p][Len(stack[p])].level
      /\ stack'[p][Len(stack[p])].handler = stack[p][Len(stack[p])].handler
  BY ONLY place \in Places, stack[p] # <<>>, <1>2, <1>3, Moved
<1> QED
  BY <1>1, <1>2, <1>4 DEF Beside

\* p calls _log_write.
LEMMA PushIs ==
  ASSUME TypeOK, NEW p \in Procs, NEW f \in Frames, Push(p, f)
  PROVE  /\ stack' \in [Procs -> Seq(Frames)] /\ Beside(p)
         /\ Len(stack[p]) \in Nat /\ DOMAIN stack[p] = 1 .. Len(stack[p])
         /\ stack'[p] # <<>> /\ DOMAIN stack'[p] = 1 .. Len(stack[p]) + 1
         /\ \A i \in DOMAIN stack[p] : stack'[p][i] = stack[p][i]
         /\ stack'[p][Len(stack[p]) + 1] = f
<1>1. stack \in [Procs -> Seq(Frames)] /\ stack[p] \in Seq(Frames)
  BY DEF TypeOK
<1>2. stack' = [stack EXCEPT ![p] = Append(stack[p], f)] /\ stack'[p] = Append(stack[p], f)
  BY <1>1 DEF Push
<1>3. /\ stack'[p] \in Seq(Frames) /\ stack'[p] # <<>>
      /\ Len(stack[p]) \in Nat /\ DOMAIN stack[p] = 1 .. Len(stack[p])
      /\ DOMAIN stack'[p] = 1 .. Len(stack[p]) + 1
      /\ \A i \in DOMAIN stack[p] : stack'[p][i] = stack[p][i]
      /\ stack'[p][Len(stack[p]) + 1] = f
  BY <1>1, <1>2, Pushed
<1> QED
  BY <1>1, <1>2, <1>3 DEF Beside

\* The top call of p returns.
LEMMA PopIs ==
  ASSUME TypeOK, NEW p \in Procs, stack[p] # <<>>, Pop(p)
  PROVE  /\ stack' \in [Procs -> Seq(Frames)] /\ Beside(p)
         /\ Len(stack[p]) \in Nat \ {0} /\ DOMAIN stack[p] = 1 .. Len(stack[p])
         /\ DOMAIN stack'[p] = 1 .. Len(stack[p]) - 1
         /\ \A i \in DOMAIN stack'[p] : stack'[p][i] = stack[p][i]
<1>1. stack \in [Procs -> Seq(Frames)] /\ stack[p] \in Seq(Frames)
  BY DEF TypeOK
<1>2. stack' = [stack EXCEPT ![p] = Front(stack[p])] /\ stack'[p] = Front(stack[p])
  BY <1>1 DEF Pop
<1>3. /\ stack'[p] \in Seq(Frames)
      /\ Len(stack[p]) \in Nat \ {0} /\ DOMAIN stack[p] = 1 .. Len(stack[p])
      /\ DOMAIN stack'[p] = 1 .. Len(stack[p]) - 1
      /\ \A i \in DOMAIN stack'[p] : stack'[p][i] = stack[p][i]
  BY <1>1, <1>2, Popped
<1> QED
  BY <1>1, <1>2, <1>3 DEF Beside

\* The rollback of p calls _log_write: its own call goes on to write.
LEMMA BannerIs ==
  ASSUME TypeOK, NEW p \in Procs, Banner(p)
  PROVE  /\ stack' \in [Procs -> Seq(Frames)] /\ Beside(p)
         /\ Len(stack[p]) \in Nat \ {0} /\ DOMAIN stack[p] = 1 .. Len(stack[p])
         /\ stack'[p] # <<>> /\ DOMAIN stack'[p] = 1 .. Len(stack[p]) + 1
         /\ \A i \in DOMAIN stack[p] : i # Len(stack[p]) => stack'[p][i] = stack[p][i]
         /\ stack'[p][Len(stack[p])].at = "write"
         /\ stack'[p][Len(stack[p])].level = stack[p][Len(stack[p])].level
         /\ stack'[p][Len(stack[p])].handler = stack[p][Len(stack[p])].handler
         /\ stack'[p][Len(stack[p]) + 1] = Frame(INFO, FALSE)
<1>1. /\ stack \in [Procs -> Seq(Frames)] /\ stack[p] \in Seq(Frames)
      /\ stack[p] # <<>> /\ "write" \in Places
  BY DEF TypeOK, Banner, Is, Places
<1>2. PICK f \in Frames : f = Frame(INFO, FALSE)
  BY DEF Frame, Frames, Places, INFO
<1>3. PICK s : s = [stack[p] EXCEPT ![Len(stack[p])].at = "write"]
  OBVIOUS
<1>4. stack' = [stack EXCEPT ![p] = Append(s, f)] /\ stack'[p] = Append(s, f)
  BY <1>1, <1>2, <1>3 DEF Banner
<1>5. /\ s \in Seq(Frames) /\ Len(s) = Len(stack[p]) /\ DOMAIN s = DOMAIN stack[p]
      /\ \A i \in DOMAIN stack[p] : i # Len(stack[p]) => s[i] = stack[p][i]
      /\ s[Len(stack[p])].at = "write"
      /\ s[Len(stack[p])].level = stack[p][Len(stack[p])].level
      /\ s[Len(stack[p])].handler = stack[p][Len(stack[p])].handler
  <2>1. PICK place \in Places : place = "write"
    BY <1>1
  <2>2. s = [stack[p] EXCEPT ![Len(stack[p])].at = place]
    BY <1>3, <2>1
  <2>3. stack[p] \in Seq(Frames) /\ stack[p] # <<>>
    BY <1>1
  <2>4. /\ s \in Seq(Frames) /\ Len(s) = Len(stack[p]) /\ DOMAIN s = DOMAIN stack[p]
        /\ \A i \in DOMAIN stack[p] : i # Len(stack[p]) => s[i] = stack[p][i]
        /\ s[Len(stack[p])].at = place
        /\ s[Len(stack[p])].level = stack[p][Len(stack[p])].level
        /\ s[Len(stack[p])].handler = stack[p][Len(stack[p])].handler
    BY ONLY place \in Places, <2>2, <2>3, Moved
  <2> QED
    BY <2>1, <2>4
<1>6. /\ Len(stack[p]) \in Nat \ {0} /\ DOMAIN stack[p] = 1 .. Len(stack[p])
  BY <1>1, Top
<1>7. /\ stack'[p] \in Seq(Frames) /\ stack'[p] # <<>>
      /\ DOMAIN stack'[p] = 1 .. Len(s) + 1
      /\ \A i \in DOMAIN s : stack'[p][i] = s[i]
      /\ stack'[p][Len(s) + 1] = f
  <2>1. s \in Seq(Frames)
    BY <1>5
  <2>2. stack'[p] = Append(s, f)
    BY <1>4
  <2> QED
    BY ONLY f \in Frames, <2>1, <2>2, Pushed
<1>8. stack' \in [Procs -> Seq(Frames)] /\ Beside(p)
  BY <1>1, <1>4, <1>7 DEF Beside
<1>9. Len(stack[p]) \in DOMAIN s
  BY <1>5, <1>6
<1> QED
  BY <1>2, <1>5, <1>6, <1>7, <1>8, <1>9

-----------------------------------------------------------------------------
(* What the calls in the stacks are doing.                                  *)

\* A call that goes on keeps to its level and holds what it held.
LEMMA GotoKeeps ==
  ASSUME TypeInv, CallInv, NEW p \in Procs, stack[p] # <<>>,
         NEW place \in Places \ {"enter"}, Goto(p, place),
         place = "lock" => p \in Locked /\ stack[p][Len(stack[p])].at = "enter",
         stack[p][Len(stack[p])].at = "enter" => stack[p][Len(stack[p])].level <= Level[p],
         mutex' \subseteq mutex \cup {p}, p \in mutex' \ mutex => place # "lock",
         state' = state, signals' = signals
  PROVE  /\ CallInv' /\ stack' \in [Procs -> Seq(Frames)]
         /\ place # "truncate" /\ InWindow' => InWindow
<1>1. /\ Beside(p) /\ DOMAIN stack'[p] = DOMAIN stack[p]
      /\ \A i \in DOMAIN stack[p] : i # Len(stack[p]) => stack'[p][i] = stack[p][i]
      /\ stack'[p][Len(stack[p])].at = place
      /\ stack'[p][Len(stack[p])].level = stack[p][Len(stack[p])].level
      /\ stack'[p][Len(stack[p])].handler = stack[p][Len(stack[p])].handler
      /\ stack' \in [Procs -> Seq(Frames)]
  BY GotoIs DEF TypeInv
<1>2. Len(stack[p]) \in DOMAIN stack[p]
  BY Top DEF TypeInv, TypeOK
<1>3. Held'
  <2> SUFFICES ASSUME NEW q \in mutex'
               PROVE  \E i \in DOMAIN stack'[q] : stack'[q][i].at \notin {"enter", "lock"}
    BY DEF Held
  <2>1. CASE q # p
    <3>1. q \in mutex /\ stack'[q] = stack[q]
      BY <1>1, <2>1, LoggerAssumption DEF Beside, TypeInv, TypeOK
    <3> QED
      BY <3>1 DEF CallInv, Held
  <2>2. CASE q = p /\ place # "lock"
    BY <1>1, <1>2, <2>2
  <2>3. CASE q = p /\ place = "lock"
    <3>1. PICK i \in DOMAIN stack[p] : stack[p][i].at \notin {"enter", "lock"}
      BY <2>3 DEF CallInv, Held
    <3>2. i # Len(stack[p])
      BY <2>3, <3>1
    <3> QED
      BY <1>1, <2>3, <3>1, <3>2
  <2> QED
    BY <2>1, <2>2, <2>3
<1>4. Nested'
  <2> SUFFICES ASSUME NEW q \in Procs, NEW i \in DOMAIN stack'[q]
               PROVE  /\ i > 1 /\ ~stack'[q][i].handler => stack'[q][i].level = INFO
                      /\ stack'[q][i].at # "enter" => stack'[q][i].level <= Level[q]
                      /\ stack'[q][i].at = "lock" => q \in Locked
    BY DEF Nested, INFO
  <2>1. CASE q # p
    BY <1>1, <2>1 DEF Beside, CallInv, Nested
  <2>2. CASE q = p /\ i # Len(stack[p])
    BY <1>1, <2>2 DEF CallInv, Nested
  <2>3. CASE q = p /\ i = Len(stack[p])
    BY <1>1, <1>2, <2>3 DEF CallInv, Nested
  <2> QED
    BY <2>1, <2>2, <2>3
<1>5. ClosedCalls'
  BY <1>1 DEF Beside, CallInv, ClosedCalls
<1>6. ASSUME place # "truncate", InWindow' PROVE InWindow
  <2>1. PICK q \in Procs : \E i \in DOMAIN stack'[q] : stack'[q][i].at = "truncate"
    BY <1>6 DEF InWindow
  <2>2. PICK i \in DOMAIN stack'[q] : stack'[q][i].at = "truncate"
    BY <2>1
  <2>3. i \in DOMAIN stack[q] /\ stack[q][i].at = "truncate"
    BY <1>1, <1>6, <2>2 DEF Beside
  <2> QED
    BY <2>3 DEF InWindow
<1> QED
  BY <1>1, <1>3, <1>4, <1>5, <1>6 DEF CallInv

\* A call that returns holds nothing any more.
LEMMA PopKeeps ==
  ASSUME TypeInv, CallInv, NEW p \in Procs, stack[p] # <<>>, Pop(p),
         mutex' \subseteq mutex,
         p \in mutex' => stack[p][Len(stack[p])].at \in {"enter", "lock"},
         state' = state, signals' = signals
  PROVE  CallInv' /\ stack' \in [Procs -> Seq(Frames)] /\ (InWindow' => InWindow)
<1>1. /\ Beside(p) /\ stack' \in [Procs -> Seq(Frames)]
      /\ Len(stack[p]) \in Nat \ {0} /\ DOMAIN stack[p] = 1 .. Len(stack[p])
      /\ DOMAIN stack'[p] = 1 .. Len(stack[p]) - 1
      /\ \A i \in DOMAIN stack'[p] : stack'[p][i] = stack[p][i]
  BY PopIs DEF TypeInv
<1>2. Held'
  <2> SUFFICES ASSUME NEW q \in mutex'
               PROVE  \E i \in DOMAIN stack'[q] : stack'[q][i].at \notin {"enter", "lock"}
    BY DEF Held
  <2>1. PICK i \in DOMAIN stack[q] : stack[q][i].at \notin {"enter", "lock"}
    BY DEF CallInv, Held
  <2>2. CASE q # p
    <3>1. stack'[q] = stack[q]
      BY <1>1, <2>2, LoggerAssumption DEF Beside, TypeInv, TypeOK
    <3> QED
      BY <2>1, <3>1
  <2>3. CASE q = p
    <3>1. i \in DOMAIN stack'[p]
      BY <1>1, <2>1, <2>3
    <3> QED
      BY <1>1, <2>1, <2>3, <3>1
  <2> QED
    BY <2>2, <2>3
<1>3. Nested'
  <2> SUFFICES ASSUME NEW q \in Procs, NEW i \in DOMAIN stack'[q]
               PROVE  /\ i > 1 /\ ~stack'[q][i].handler => stack'[q][i].level = INFO
                      /\ stack'[q][i].at # "enter" => stack'[q][i].level <= Level[q]
                      /\ stack'[q][i].at = "lock" => q \in Locked
    BY DEF Nested, INFO
  <2>1. i \in DOMAIN stack[q] /\ stack'[q][i] = stack[q][i]
    BY <1>1 DEF Beside
  <2> QED
    BY <2>1 DEF CallInv, Nested
<1>4. ClosedCalls'
  BY <1>1 DEF Beside, CallInv, ClosedCalls
<1>5. ASSUME InWindow' PROVE InWindow
  <2>1. PICK q \in Procs : \E i \in DOMAIN stack'[q] : stack'[q][i].at = "truncate"
    BY <1>5 DEF InWindow
  <2>2. PICK i \in DOMAIN stack'[q] : stack'[q][i].at = "truncate"
    BY <2>1
  <2>3. i \in DOMAIN stack[q] /\ stack[q][i].at = "truncate"
    <3>1. CASE q = p
      BY <1>1, <2>2, <3>1
    <3>2. CASE q # p
      <4>1. stack'[q] = stack[q]
        BY <1>1, <3>2 DEF Beside
      <4> QED
        BY <2>2, <4>1
    <3> QED
      BY <3>1, <3>2
  <2> QED
    BY <2>3 DEF InWindow
<1> QED
  BY <1>1, <1>2, <1>3, <1>4, <1>5 DEF CallInv

\* A call is made by the program when none is running, or by a handler.
LEMMA PushKeeps ==
  ASSUME TypeInv, CallInv, NEW p \in Procs, NEW f \in Frames, Push(p, f),
         f.at = "enter", f.handler \/ stack[p] = <<>>, mutex' = mutex,
         \A q \in Procs \ {p} : state'[q] = state[q], state'[p] = "closed" => signals' > 0,
         signals' \in Nat, signals' >= signals
  PROVE  CallInv' /\ stack' \in [Procs -> Seq(Frames)] /\ (InWindow' => InWindow)
<1>1. /\ stack' \in [Procs -> Seq(Frames)] /\ Beside(p)
      /\ Len(stack[p]) \in Nat /\ DOMAIN stack[p] = 1 .. Len(stack[p])
      /\ DOMAIN stack'[p] = 1 .. Len(stack[p]) + 1
      /\ \A i \in DOMAIN stack[p] : stack'[p][i] = stack[p][i]
      /\ stack'[p][Len(stack[p]) + 1] = f
  BY PushIs DEF TypeInv
<1>2. Held'
  <2> SUFFICES ASSUME NEW q \in mutex
               PROVE  \E i \in DOMAIN stack'[q] : stack'[q][i].at \notin {"enter", "lock"}
    BY DEF Held
  <2>1. PICK i \in DOMAIN stack[q] : stack[q][i].at \notin {"enter", "lock"}
    BY DEF CallInv, Held
  <2>2. CASE q = p
    <3>1. i \in DOMAIN stack'[p] /\ stack'[p][i] = stack[p][i]
      BY <1>1, <2>1, <2>2
    <3> QED
      BY <2>1, <2>2, <3>1
  <2>3. CASE q # p
    <3>1. stack'[q] = stack[q]
      BY <1>1, <2>3, LoggerAssumption DEF Beside, TypeInv, TypeOK
    <3> QED
      BY <2>1, <3>1
  <2> QED
    BY <2>2, <2>3
<1>3. Nested'
  <2> SUFFICES ASSUME NEW q \in Procs, NEW i \in DOMAIN stack'[q]
               PROVE  /\ i > 1 /\ ~stack'[q][i].handler => stack'[q][i].level = INFO
                      /\ stack'[q][i].at # "enter" => stack'[q][i].level <= Level[q]
                      /\ stack'[q][i].at = "lock" => q \in Locked
    BY DEF Nested, INFO
  <2>1. CASE q = p /\ i = Len(stack[p]) + 1
    <3>1. CASE f.handler
      BY <1>1, <2>1, <3>1
    <3>2. CASE stack[p] = <<>>
      BY <1>1, <2>1, <3>2
    <3> QED
      BY <3>1, <3>2
  <2>2. CASE ~(q = p /\ i = Len(stack[p]) + 1)
    <3>1. i \in DOMAIN stack[q] /\ stack'[q][i] = stack[q][i]
      BY <1>1, <2>2 DEF Beside
    <3> QED
      BY <3>1 DEF CallInv, Nested
  <2> QED
    BY <2>1, <2>2
<1>4. ClosedCalls'
  <2> SUFFICES ASSUME NEW q \in Procs, state'[q] = "closed", stack'[q] # <<>>
               PROVE  signals' > 0
    BY DEF ClosedCalls
  <2>1. CASE q = p
    BY <2>1
  <2>2. CASE q # p
    <3>1. signals > 0
      BY <1>1, <2>2 DEF Beside, CallInv, ClosedCalls
    <3> QED
      BY <3>1 DEF TypeInv, Counted
  <2> QED
    BY <2>1, <2>2
<1>5. ASSUME InWindow' PROVE InWindow
  <2>1. PICK q \in Procs : \E i \in DOMAIN stack'[q] : stack'[q][i].at = "truncate"
    BY <1>5 DEF InWindow
  <2>2. PICK i \in DOMAIN stack'[q] : stack'[q][i].at = "truncate"
    BY <2>1
  <2>3. i \in DOMAIN stack[q] /\ stack[q][i].at = "truncate"
    <3>1. CASE q = p
      <4>1. i \in 1 .. Len(stack[p]) + 1 /\ i # Len(stack[p]) + 1
        BY <1>1, <2>2, <3>1
      <4>2. i \in DOMAIN stack[p]
        BY <1>1, <4>1
      <4> QED
        BY <1>1, <2>2, <3>1, <4>2
    <3>2. CASE q # p
      <4>1. stack'[q] = stack[q]
        BY <1>1, <3>2 DEF Beside
      <4> QED
        BY <2>2, <4>1
    <3> QED
      BY <3>1, <3>2
  <2> QED
    BY <2>3 DEF InWindow
<1> QED
  BY <1>1, <1>2, <1>3, <1>4, <1>5 DEF CallInv

\* The call that rolled back makes the one that reports it.
LEMMA BannerKeeps ==
  ASSUME TypeInv, CallInv, NEW p \in Procs, Banner(p)
  PROVE  CallInv' /\ stack' \in [Procs -> Seq(Frames)] /\ (InWindow' => InWindow)
<1>1. /\ stack' \in [Procs -> Seq(Frames)] /\ Beside(p)
      /\ Len(stack[p]) \in Nat \ {0} /\ DOMAIN stack[p] = 1 .. Len(stack[p])
      /\ stack'[p] # <<>> /\ DOMAIN stack'[p] = 1 .. Len(stack[p]) + 1
      /\ \A i \in DOMAIN stack[p] : i # Len(stack[p]) => stack'[p][i] = stack[p][i]
      /\ stack'[p][Len(stack[p])].at = "write"
      /\ stack'[p][Len(stack[p])].level = stack[p][Len(stack[p])].level
      /\ stack'[p][Len(stack[p])].handler = stack[p][Len(stack[p])].handler
      /\ stack'[p][Len(stack[p]) + 1] = Frame(INFO, FALSE)
  BY BannerIs DEF TypeInv
<1>2. /\ UNCHANGED <<state, mutex, signals>>
      /\ stack[p] # <<>> /\ stack[p][Len(stack[p])].at = "banner"
  BY DEF Banner, Is, Last, bounds
<1>3. /\ stack'[p][Len(stack[p]) + 1].level = INFO
      /\ stack'[p][Len(stack[p]) + 1].at = "enter"
  BY <1>1 DEF Frame
<1>4. Held'
  <2> SUFFICES ASSUME NEW q \in mutex
               PROVE  \E i \in DOMAIN stack'[q] : stack'[q][i].at \notin {"enter", "lock"}
    BY <1>2 DEF Held
  <2>1. CASE q = p
    <3>1. Len(stack[p]) \in DOMAIN stack'[p]
      BY <1>1
    <3> QED
      BY <1>1, <2>1, <3>1
  <2>2. CASE q # p
    <3>1. stack'[q] = stack[q]
      BY <1>1, <2>2, LoggerAssumption DEF Beside, TypeInv, TypeOK
    <3> QED
      BY <3>1 DEF CallInv, Held
  <2> QED
    BY <2>1, <2>2
<1>5. Nested'
  <2> SUFFICES ASSUME NEW q \in Procs, NEW i \in DOMAIN stack'[q]
               PROVE  /\ i > 1 /\ ~stack'[q][i].handler => stack'[q][i].level = INFO
                      /\ stack'[q][i].at # "enter" => stack'[q][i].level <= Level[q]
                      /\ stack'[q][i].at = "lock" => q \in Locked
    BY DEF Nested, INFO
  <2>1. CASE q # p
    BY <1>1, <2>1 DEF Beside, CallInv, Nested
  <2>2. CASE q = p /\ i = Len(stack[p]) + 1
    BY <1>3, <2>2
  <2>3. CASE q = p /\ i = Len(stack[p])
    <3>1. i \in DOMAIN stack[p]
      BY <1>1, <2>3
    <3> QED
      BY <1>1, <1>2, <2>3, <3>1 DEF CallInv, Nested
  <2>4. CASE q = p /\ i \in 1 .. Len(stack[p]) - 1
    <3>1. i \in DOMAIN stack[p] /\ stack'[p][i] = stack[p][i]
      BY <1>1, <2>4
    <3> QED
      BY <2>4, <3>1 DEF CallInv, Nested
  <2> QED
    BY <1>1, <2>1, <2>2, <2>3, <2>4
<1>6. ClosedCalls'
  BY <1>1, <1>2 DEF Beside, CallInv, ClosedCalls
<1>7. ASSUME InWindow' PROVE InWindow
  <2>1. PICK q \in Procs : \E i \in DOMAIN stack'[q] : stack'[q][i].at = "truncate"
    BY <1>7 DEF InWindow
  <2>2. PICK i \in DOMAIN stack'[q] : stack'[q][i].at = "truncate"
    BY <2>1
  <2>3. i \in DOMAIN stack[q] /\ stack[q][i].at = "truncate"
    <3>1. CASE q = p
      <4>1. i \in 1 .. Len(stack[p]) + 1 /\ i # Len(stack[p]) + 1 /\ i # Len(stack[p])
        BY <1>1, <1>3, <2>2, <3>1
      <4>2. i \in DOMAIN stack[p]
        BY <1>1, <4>1
      <4> QED
        BY <1>1, <2>2, <3>1, <4>1, <4>2
    <3>2. CASE q # p
      <4>1. stack'[q] = stack[q]
        BY <1>1, <3>2 DEF Beside
      <4> QED
        BY <2>2, <4>1
    <3> QED
      BY <3>1, <3>2
  <2> QED
    BY <2>3 DEF InWindow
<1> QED
  BY <1>1, <1>4, <1>5, <1>6, <1>7 DEF CallInv

\* Every step of a process keeps the stacks as they should be; only a copy opens a
\* window in which lines are lost.
LEMMA CallStep ==
  ASSUME TypeInv, CallInv, NEW p \in Procs,
         Open(p) \/ Call(p) \/ Close(p) \/ Signal(p) \/ LogStep(p)
  PROVE  /\ CallInv' /\ stack' \in [Procs -> Seq(Frames)]
         /\ InWindow' => InWindow \/ Copy(p) \/ CopyFails(p)
<1> USE DEF bounds
<1>1. \A level \in {WARN, INFO}, handler \in BOOLEAN :
        /\ Frame(level, handler) \in Frames /\ Frame(level, handler).at = "enter"
        /\ Frame(level, handler).handler = handler
  BY DEF Frame, Frames, Places, WARN, INFO
<1>2. /\ stack \in [Procs -> Seq(Frames)] /\ signals \in Nat
      /\ state \in [Procs -> {"new", "open", "closed"}]
      /\ \A place \in Places \ {"enter"} : place \in Places
      /\ Places \ {"enter"} = {"lock", "size", "copy", "truncate", "banner", "write", "unlock"}
  BY DEF TypeInv, TypeOK, Counted, Places
<1>3. CASE Open(p)
  <2>1. PICK f \in Frames : Push(p, f) /\ f.at = "enter"
    BY <1>1, <1>3 DEF Open
  <2>2. /\ stack[p] = <<>> /\ UNCHANGED <<mutex, signals>>
        /\ state' = [state EXCEPT ![p] = "open"]
    BY <1>3 DEF Open, TypeInv, Counted
  <2>3. state'[p] = "open" /\ \A q \in Procs \ {p} : state'[q] = state[q]
    BY <1>2, <2>2
  <2> QED
    BY <1>2, <2>1, <2>2, <2>3, PushKeeps
<1>4. CASE Call(p)
  <2>1. PICK level \in {WARN, INFO} : Push(p, Frame(level, FALSE))
    BY <1>4 DEF Call
  <2>2. PICK f \in Frames : Push(p, f) /\ f.at = "enter"
    BY <1>1, <2>1
  <2>3. /\ stack[p] = <<>> /\ state[p] = "open"
        /\ UNCHANGED <<state, mutex, signals>>
    BY <1>4 DEF Call
  <2> QED
    BY <1>2, <2>2, <2>3, PushKeeps
<1>5. CASE Close(p)
  <2>1. /\ UNCHANGED <<stack, mutex, signals>> /\ stack[p] = <<>>
        /\ state' = [state EXCEPT ![p] = "closed"]
    BY <1>5 DEF Close
  <2>2. Held' /\ Nested' /\ ClosedCalls'
    BY <1>2, <2>1 DEF CallInv, Held, Nested, ClosedCalls
  <2>3. InWindow' => InWindow
    BY <2>1 DEF InWindow
  <2> QED
    BY <1>2, <2>1, <2>2, <2>3 DEF CallInv
<1>6. CASE Signal(p)
  <2>1. PICK f \in Frames : Push(p, f) /\ f.at = "enter" /\ f.handler
    BY <1>1, <1>6 DEF Signal
  <2>2. UNCHANGED <<state, mutex>> /\ signals' = signals + 1
    BY <1>6 DEF Signal
  <2> QED
    BY <1>2, <2>1, <2>2, PushKeeps
<1>7. CASE LogStep(p)
  <2>1. CASE Enter(p)
    <3>1. /\ stack[p] # <<>> /\ stack[p][Len(stack[p])].at = "enter"
          /\ UNCHANGED <<state, mutex, signals>>
      BY <2>1 DEF Enter, Is, Last
    <3>2. CASE stack[p][Len(stack[p])].level > Level[p]
      <4>1. Pop(p)
        BY <2>1, <3>2 DEF Enter, Last
      <4> QED
        BY <3>1, <4>1, PopKeeps
    <3>3. CASE ~(stack[p][Len(stack[p])].level > Level[p])
      <4>1. PICK place \in Places \ {"enter"} : /\ Goto(p, place)
                                                /\ place = "lock" => p \in Locked
                                                /\ place # "truncate"
        BY <1>2, <2>1, <3>3 DEF Enter, Last
      <4>2. stack[p][Len(stack[p])].level <= Level[p]
        <5>1. stack[p] \in Seq(Frames) /\ Level[p] \in Nat
          BY <1>2, LoggerAssumption
        <5>2. stack[p][Len(stack[p])] \in Frames
          BY <3>1, <5>1, Top
        <5> QED
          BY <3>3, <5>1, <5>2 DEF Frames
      <4> QED
        BY <3>1, <4>1, <4>2, GotoKeeps
    <3> QED
      BY <3>2, <3>3
  <2>2. CASE Lock(p)
    <3>1. PICK place \in Places \ {"enter"} : Goto(p, place) /\ place = "size"
      BY <1>2, <2>2 DEF Lock
    <3>2. /\ stack[p] # <<>> /\ stack[p][Len(stack[p])].at = "lock"
          /\ UNCHANGED <<state, signals>> /\ mutex' = mutex \cup {p}
      BY <2>2 DEF Lock, Is, Last
    <3> QED
      BY <3>1, <3>2, GotoKeeps
  <2>3. CASE CheckSize(p)
    <3>1. PICK place \in Places \ {"enter"} : Goto(p, place) /\ place \in {"copy", "write"}
      BY <1>2, <2>3 DEF CheckSize
    <3>2. /\ stack[p] # <<>> /\ stack[p][Len(stack[p])].at = "size"
          /\ UNCHANGED <<state, mutex, signals>>
      BY <2>3 DEF CheckSize, Is, Last
    <3> QED
      BY <3>1, <3>2, GotoKeeps
  <2>4. CASE Copy(p) \/ CopyFails(p)
    <3>1. PICK place \in Places \ {"enter"} : Goto(p, place) /\ place = "truncate"
      BY <1>2, <2>4 DEF Copy, CopyFails
    <3>2. /\ stack[p] # <<>> /\ stack[p][Len(stack[p])].at = "copy"
          /\ UNCHANGED <<state, mutex, signals>>
      BY <2>4 DEF Copy, CopyFails, Is, Last
    <3>3. CallInv' /\ stack' \in [Procs -> Seq(Frames)]
      BY <3>1, <3>2, GotoKeeps
    <3> QED
      BY <2>4, <3>3
  <2>5. CASE Truncate(p) \/ TruncateFails(p)
    <3>1. PICK place \in Places \ {"enter"} : Goto(p, place) /\ place = "banner"
      BY <1>2, <2>5 DEF Truncate, TruncateFails
    <3>2. /\ stack[p] # <<>> /\ stack[p][Len(stack[p])].at = "truncate"
          /\ UNCHANGED <<state, mutex, signals>>
      BY <2>5 DEF Truncate, TruncateFails, Is, Last
    <3> QED
      BY <3>1, <3>2, GotoKeeps
  <2>6. CASE Banner(p)
    BY <2>6, BannerKeeps
  <2>7. CASE Write(p)
    <3>1. /\ stack[p] # <<>> /\ stack[p][Len(stack[p])].at = "write"
          /\ UNCHANGED <<state, mutex, signals>>
      BY <2>7 DEF Write, Is, Last
    <3>2. CASE p \in Locked
      <4>1. PICK place \in Places \ {"enter"} : Goto(p, place) /\ place = "unlock"
        BY <1>2, <2>7, <3>2 DEF Write
      <4> QED
        BY <3>1, <4>1, GotoKeeps
    <3>3. CASE p \notin Locked
      <4>1. Pop(p) /\ p \notin mutex
        BY <2>7, <3>3 DEF Write, TypeInv, TypeOK
      <4> QED
        BY <3>1, <4>1, PopKeeps
    <3> QED
      BY <3>2, <3>3
  <2>8. CASE Unlock(p)
    <3>1. /\ stack[p] # <<>> /\ Pop(p) /\ mutex' = mutex \ {p}
          /\ UNCHANGED <<state, signals>>
      BY <2>8 DEF Unlock, Is
    <3> QED
      BY <3>1, PopKeeps
  <2> QED
    BY <1>7, <2>1, <2>2, <2>3, <2>4, <2>5, <2>6, <2>7, <2>8 DEF LogStep
<1> QED
  BY <1>3, <1>4, <1>5, <1>6, <1>7

-----------------------------------------------------------------------------
(* The files.                                                               *)

\* A line that is written is new: its number is in neither file.
LEMMA LineIsWritten ==
  ASSUME NEW p \in Procs, written \in Seq(Procs), file \in Seq(DOMAIN written),
         IsInjective(file), written' = Append(written, p),
         file' = Append(file, Len(written) + 1)
  PROVE  /\ written' \in Seq(Procs) /\ DOMAIN written \subseteq DOMAIN written'
         /\ Len(written) + 1 \in DOMAIN written'
         /\ file' \in Seq(DOMAIN written') /\ IsInjective(file')
         /\ Range(file') \subseteq Range(file) \cup {Len(written) + 1}
<1>1. /\ written' \in Seq(Procs) /\ Len(written) \in Nat /\ DOMAIN written = 1 .. Len(written)
      /\ DOMAIN written' = 1 .. Len(written) + 1
  OBVIOUS
<1>2. DOMAIN written \subseteq DOMAIN written' /\ Len(written) + 1 \in DOMAIN written'
  BY <1>1
<1>3. file \in Seq(DOMAIN written')
  BY <1>2
<1>4. file' \in Seq(DOMAIN written')
  BY <1>2, <1>3
<1>5. /\ DOMAIN file = 1 .. Len(file) /\ Len(file) \in Nat /\ DOMAIN file' = 1 .. Len(file) + 1
      /\ \A i \in DOMAIN file : file'[i] = file[i] /\ file[i] \in 1 .. Len(written)
      /\ file'[Len(file) + 1] = Len(written) + 1
  BY <1>1
<1>6. IsInjective(file')
  <2> SUFFICES ASSUME NEW i \in DOMAIN file', NEW j \in DOMAIN file', file'[i] = file'[j] PROVE i = j
    BY DEF IsInjective
  <2>1. CASE i \in DOMAIN file /\ j \in DOMAIN file
    BY <1>5, <2>1 DEF IsInjective
  <2>2. CASE i \in DOMAIN file /\ j = Len(file) + 1
    BY <1>1, <1>5, <2>2
  <2>3. CASE j \in DOMAIN file /\ i = Len(file) + 1
    BY <1>1, <1>5, <2>3
  <2> QED
    BY <1>5, <2>1, <2>2, <2>3
<1>7. Range(file') \subseteq Range(file) \cup {Len(written) + 1}
  <2> SUFFICES ASSUME NEW i \in DOMAIN file' PROVE file'[i] \in Range(file) \cup {Len(written) + 1}
    BY DEF Range
  <2>1. CASE i \in DOMAIN file
    BY <1>5, <2>1 DEF Range
  <2> QED
    BY <1>5, <2>1
<1> QED
  BY <1>1, <1>2, <1>4, <1>6, <1>7

-----------------------------------------------------------------------------
(* The ranges of the variables.                                             *)

\* A step of p is at none of the other stacks, and p has opened the log.
LEMMA StepOf ==
  ASSUME TypeInv, NEW p \in Procs,
         Open(p) \/ Call(p) \/ Close(p) \/ Signal(p) \/ LogStep(p)
  PROVE  /\ Beside(p) /\ state' \in [Procs -> {"new", "open", "closed"}]
         /\ state'[p] # "new" /\ \A q \in Procs \ {p} : state'[q] = state[q]
<1>1. stack \in [Procs -> Seq(Frames)] /\ state \in [Procs -> {"new", "open", "closed"}]
  BY DEF TypeInv, TypeOK
<1>2. CASE Open(p)
  BY <1>1, <1>2 DEF Open, Push, Beside
<1>3. CASE Call(p) \/ Signal(p)
  BY <1>1, <1>3 DEF Call, Signal, Push, Beside
<1>4. CASE Close(p)
  BY <1>1, <1>4 DEF Close, Beside
<1>5. CASE LogStep(p)
  <2>1. stack[p] # <<>> /\ state' = state
    BY <1>5 DEF LogStep, Enter, Lock, CheckSize, Copy, CopyFails, Truncate, TruncateFails,
       Banner, Write, Unlock, Is
  <2>2. Beside(p)
    BY <1>1, <1>5 DEF LogStep, Enter, Lock, CheckSize, Copy, CopyFails, Truncate,
       TruncateFails, Banner, Write, Unlock, Goto, Pop, Beside
  <2>3. state[p] # "new"
    BY <2>1 DEF TypeInv, Counted
  <2> QED
    BY <1>1, <2>1, <2>2, <2>3
<1> QED
  BY <1>2, <1>3, <1>4, <1>5

\* Every step keeps the variables in their ranges and the lines of the files apart.
LEMMA TypeStep ==
  ASSUME TypeInv, CallInv, NEW p \in Procs,
         Open(p) \/ Call(p) \/ Close(p) \/ Signal(p) \/ LogStep(p)
  PROVE  TypeInv'
<1>1. stack' \in [Procs -> Seq(Frames)] /\ state' \in [Procs -> {"new", "open", "closed"}]
  BY CallStep, StepOf
<1>2. \A q \in Procs : state'[q] = "new" => stack'[q] = <<>>
  BY StepOf DEF Beside, TypeInv, Counted
<1>3. calls' \in Nat /\ signals' \in Nat /\ faults' \in Nat
  <2>1. CASE Open(p) \/ Call(p) \/ Close(p) \/ Signal(p)
    BY <2>1 DEF Open, Call, Close, Signal, Push, Frame, bounds, TypeInv, Counted
  <2>2. CASE LogStep(p)
    BY <2>2 DEF LogStep, Enter, Lock, CheckSize, Copy, CopyFails, Truncate, TruncateFails,
       Banner, Write, Unlock, Frame, Fault, bounds, TypeInv, Counted
  <2> QED
    BY <2>1, <2>2
<1>4. /\ pos \in [Procs -> Nat] /\ mutex \subseteq Locked /\ written \in Seq(Procs)
      /\ file \in Seq(DOMAIN written) /\ IsInjective(file)
      /\ bak \in Seq(DOMAIN written) /\ IsInjective(bak)
      /\ copied \cup lost \cup window \cup uncopied \subseteq DOMAIN written
      /\ uncut \in [Procs -> Nat] /\ misused \subseteq Procs
      /\ Len(file) \in Nat /\ Range(file) \subseteq DOMAIN written
  <2>1. /\ file \in Seq(DOMAIN written) /\ IsInjective(file)
        /\ bak \in Seq(DOMAIN written) /\ IsInjective(bak)
    BY DEF TypeInv, TypeOK
  <2>2. Len(file) \in Nat /\ Range(file) \subseteq DOMAIN written
    BY <2>1 DEF Range
  <2> QED
    BY <2>1, <2>2 DEF TypeInv, TypeOK
<1>5. /\ pos' \in [Procs -> Nat] /\ mutex' \subseteq Locked /\ written' \in Seq(Procs)
      /\ file' \in Seq(DOMAIN written') /\ IsInjective(file')
      /\ bak' \in Seq(DOMAIN written') /\ IsInjective(bak')
      /\ copied' \cup lost' \cup window' \cup uncopied' \subseteq DOMAIN written'
      /\ uncut' \in [Procs -> Nat] /\ misused' \subseteq Procs
  <2>1. CASE Open(p) \/ Call(p) \/ Close(p) \/ Signal(p)
    <3>1. /\ UNCHANGED <<mutex, written, file, bak, copied, lost, window, uncopied, uncut, misused>>
          /\ pos' = pos \/ pos' = [pos EXCEPT ![p] = Len(file)]
      BY <2>1 DEF Open, Call, Close, Signal, history
    <3> QED
      BY <1>4, <3>1
  <2>2. CASE Enter(p) \/ Lock(p) \/ CheckSize(p) \/ Banner(p) \/ Unlock(p)
    <3>1. /\ UNCHANGED <<written, file, bak, copied, lost, window, uncopied, uncut, misused>>
          /\ pos' = pos \/ pos' = [pos EXCEPT ![p] = Len(file)]
      BY <2>2 DEF Enter, Lock, CheckSize, Banner, Unlock, history
    <3>2. mutex' \subseteq Locked
      <4>1. CASE Lock(p)
        <5>1. stack[p] # <<>> /\ Last(stack[p]).at = "lock"
          BY <4>1 DEF Lock, Is
        <5>2. Len(stack[p]) \in DOMAIN stack[p] /\ stack[p][Len(stack[p])].at = "lock"
          BY <5>1, Top DEF TypeInv, TypeOK
        <5>3. p \in Locked
          BY <5>2 DEF CallInv, Nested
        <5> QED
          BY <1>4, <4>1, <5>3 DEF Lock
      <4>2. CASE Enter(p) \/ CheckSize(p) \/ Banner(p) \/ Unlock(p)
        BY <1>4, <4>2 DEF Enter, CheckSize, Banner, Unlock
      <4> QED
        BY <2>2, <4>1, <4>2
    <3> QED
      BY <1>4, <3>1, <3>2
  <2>3. CASE Copy(p) \/ CopyFails(p)
    <3>1. /\ UNCHANGED <<pos, mutex, written, file, lost, window, uncut, misused>>
          /\ bak' \in {bak, file} /\ copied' \subseteq copied \cup Range(file)
          /\ uncopied' \subseteq uncopied \cup Range(file)
      BY <2>3 DEF Copy, CopyFails
    <3> QED
      BY <1>4, <3>1
  <2>4. CASE Truncate(p) \/ TruncateFails(p)
    <3>1. /\ UNCHANGED <<mutex, written, bak, copied, window, uncopied, misused>>
          /\ file' \in {file, <<>>} /\ lost' \subseteq lost \cup Range(file)
          /\ pos' = [pos EXCEPT ![p] = 0]
          /\ uncut' = uncut \/ uncut' = [uncut EXCEPT ![p] = @ + 1]
      BY <2>4 DEF Truncate, TruncateFails
    <3>2. file' \in Seq(DOMAIN written) /\ IsInjective(file')
      <4>1. CASE file' = <<>>
        BY <4>1 DEF IsInjective
      <4> QED
        BY <1>4, <3>1, <4>1
    <3>3. uncut' \in [Procs -> Nat] /\ pos' \in [Procs -> Nat]
      <4>1. CASE uncut' = uncut
        BY <1>4, <3>1, <4>1
      <4>2. CASE uncut' = [uncut EXCEPT ![p] = @ + 1]
        BY <1>4, <3>1, <4>2
      <4> QED
        BY <3>1, <4>1, <4>2
    <3> QED
      BY <1>4, <3>1, <3>2, <3>3
  <2>5. CASE Write(p) /\ state[p] = "closed"
    <3>1. /\ UNCHANGED <<pos, mutex, written, file, bak, copied, lost, window, uncopied, uncut>>
          /\ misused' = misused \cup {p}
      BY <2>5 DEF Write
    <3> QED
      BY <1>4, <3>1
  <2>6. CASE Write(p) /\ state[p] # "closed"
    <3>1. /\ UNCHANGED <<mutex, bak, copied, lost, uncopied, uncut, misused>>
          /\ written' = Append(written, p) /\ file' = Append(file, Len(written) + 1)
          /\ pos' = [pos EXCEPT ![p] = Len(file')]
          /\ window' \subseteq window \cup {Len(written) + 1}
      BY <2>6 DEF Write
    <3>2. /\ written' \in Seq(Procs) /\ DOMAIN written \subseteq DOMAIN written'
          /\ Len(written) + 1 \in DOMAIN written'
          /\ file' \in Seq(DOMAIN written') /\ IsInjective(file')
      <4>1. /\ written \in Seq(Procs) /\ file \in Seq(DOMAIN written) /\ IsInjective(file)
            /\ written' = Append(written, p) /\ file' = Append(file, Len(written) + 1)
        BY <1>4, <3>1
      <4> QED
        BY <4>1, LineIsWritten
    <3>3. bak' \in Seq(DOMAIN written') /\ Len(file') \in Nat
      BY <1>4, <3>1, <3>2
    <3> QED
      BY <1>4, <3>1, <3>2, <3>3
  <2> QED
    BY <2>1, <2>2, <2>3, <2>4, <2>5, <2>6 DEF LogStep
<1> QED
  BY <1>1, <1>2, <1>3, <1>5 DEF TypeInv, TypeOK, Counted

-----------------------------------------------------------------------------
(* The lines that are lost.                                                 *)

\* What can be lost when the window is over is in the file before it opens, or is
\* written into it.
LEMMA LossStep ==
  ASSUME TypeInv, CallInv, LossInv, NEW p \in Procs,
         Open(p) \/ Call(p) \/ Close(p) \/ Signal(p) \/ LogStep(p)
  PROVE  LossInv'
<1> DEFINE Explained == copied \cup window \cup uncopied
<1>1. InWindow' => InWindow \/ Copy(p) \/ CopyFails(p)
  BY CallStep
<1>2. CASE Copy(p) \/ CopyFails(p)
  <2>1. /\ UNCHANGED <<file, lost, window>>
        /\ copied \subseteq copied' /\ uncopied \subseteq uncopied'
        /\ Range(file) \subseteq copied' \cup uncopied'
    BY <1>2 DEF Copy, CopyFails
  <2> QED
    BY <2>1 DEF LossInv, Windowed, LostExplained
<1>3. CASE ~(Copy(p) \/ CopyFails(p))
  <2>1. InWindow' => InWindow
    BY <1>1, <1>3
  <2>2. CASE Open(p) \/ Call(p) \/ Close(p) \/ Signal(p) \/ Enter(p) \/ Lock(p)
             \/ CheckSize(p) \/ TruncateFails(p) \/ Banner(p) \/ Unlock(p)
    <3>1. UNCHANGED <<file, copied, lost, window, uncopied>>
      BY <2>2 DEF Open, Call, Close, Signal, Enter, Lock, CheckSize, TruncateFails, Banner,
         Unlock, history, Push, Frame
    <3> QED
      BY <2>1, <3>1 DEF LossInv, Windowed, LostExplained
  <2>3. CASE Truncate(p)
    <3>1. InWindow
      <4>1. stack[p] # <<>> /\ Last(stack[p]).at = "truncate"
        BY <2>3 DEF Truncate, Is
      <4>2. Len(stack[p]) \in DOMAIN stack[p] /\ stack[p][Len(stack[p])].at = "truncate"
        BY <4>1, Top DEF TypeInv, TypeOK
      <4> QED
        BY <4>2 DEF InWindow
    <3>2. /\ UNCHANGED <<copied, window, uncopied>>
          /\ file' = <<>> /\ lost' = lost \cup (Range(file) \ copied)
      BY <2>3 DEF Truncate
    <3>3. Range(file') = {}
      BY <3>2 DEF Range
    <3> QED
      BY <3>1, <3>2, <3>3 DEF LossInv, Windowed, LostExplained
  <2>4. CASE Write(p) /\ state[p] = "closed"
    <3>1. UNCHANGED <<file, copied, lost, window, uncopied>>
      BY <2>4 DEF Write
    <3> QED
      BY <2>1, <3>1 DEF LossInv, Windowed, LostExplained
  <2>5. CASE Write(p) /\ state[p] # "closed"
    <3>1. /\ UNCHANGED <<copied, lost, uncopied>> /\ window \subseteq window'
          /\ InWindow => window' = window \cup {Len(written) + 1}
          /\ written' = Append(written, p) /\ file' = Append(file, Len(written) + 1)
      BY <2>5 DEF Write
    <3>2. Range(file') \subseteq Range(file) \cup {Len(written) + 1}
      <4>1. /\ written \in Seq(Procs) /\ file \in Seq(DOMAIN written) /\ IsInjective(file)
            /\ written' = Append(written, p) /\ file' = Append(file, Len(written) + 1)
        BY <3>1 DEF TypeInv, TypeOK
      <4> QED
        BY <4>1, LineIsWritten
    <3> QED
      BY <2>1, <3>1, <3>2 DEF LossInv, Windowed, LostExplained
  <2> QED
    BY <1>3, <2>2, <2>3, <2>4, <2>5 DEF LogStep
<1> QED
  BY <1>2, <1>3

-----------------------------------------------------------------------------
(* The theorems.                                                            *)

\* Every step keeps the invariant.
LEMMA Invariance == Spec => []IInv
<1>1. Init => IInv
  <2> SUFFICES ASSUME Init PROVE IInv
    OBVIOUS
  <2>1. TypeOK
    BY LoggerAssumption DEF Init, TypeOK, IsInjective
  <2>2. Counted /\ CallInv /\ ClosedForProgram
    BY DEF Init, Counted, CallInv, Held, Nested, ClosedCalls, ClosedForProgram
  <2>3. LossInv
    BY DEF Init, LossInv, Windowed, LostExplained, InWindow
  <2> QED
    BY <2>1, <2>2, <2>3 DEF IInv, TypeInv
<1>2. IInv /\ [Next]_vars => IInv'
  <2> SUFFICES ASSUME IInv, [Next]_vars PROVE IInv'
    OBVIOUS
  <2>1. ASSUME NEW p \in Procs, Open(p) \/ Call(p) \/ Close(p) \/ Signal(p) \/ LogStep(p)
        PROVE  IInv'
    <3>1. TypeInv' /\ CallInv' /\ LossInv'
      BY <2>1, TypeStep, CallStep, LossStep DEF IInv
    <3>2. ClosedForProgram'
      <4>1. CASE Open(p) \/ Call(p) \/ Close(p) \/ Signal(p)
        <5>1. misused' = misused /\ signals' >= signals
          BY <4>1 DEF Open, Call, Close, Signal, Push, Frame, bounds, history, IInv, TypeInv,
             Counted
        <5> QED
          BY <3>1, <5>1 DEF IInv, TypeInv, Counted, ClosedForProgram
      <4>2. CASE LogStep(p) /\ misused' = misused
        <5>1. signals' = signals
          BY <4>2 DEF LogStep, Enter, Lock, CheckSize, Copy, CopyFails, Truncate,
             TruncateFails, Banner, Write, Unlock, Frame, bounds
        <5> QED
          BY <4>2, <5>1 DEF IInv, ClosedForProgram
      <4>3. CASE LogStep(p) /\ misused' # misused
        <5>1. stack[p] # <<>> /\ state[p] = "closed" /\ signals' = signals
          BY <4>3 DEF LogStep, Enter, Lock, CheckSize, Copy, CopyFails, Truncate,
             TruncateFails, Banner, Write, Unlock, Is, Frame, bounds, history
        <5> QED
          BY <5>1 DEF IInv, CallInv, ClosedCalls, ClosedForProgram
      <4> QED
        BY <2>1, <4>1, <4>2, <4>3
    <3> QED
      BY <3>1, <3>2 DEF IInv
  <2>2. CASE UNCHANGED vars
    <3>1. UNCHANGED <<state, stack, pos, mutex, file, bak, calls, signals, faults>>
      BY <2>2 DEF vars, bounds
    <3>2. UNCHANGED <<written, copied, lost, window, uncopied, uncut, misused>>
      BY <2>2 DEF vars, history
    <3>3. TypeInv'
      BY <3>1, <3>2 DEF IInv, TypeInv, TypeOK, Counted
    <3>4. CallInv'
      BY <3>1 DEF IInv, CallInv, Held, Nested, ClosedCalls
    <3>5. ClosedForProgram' /\ LossInv'
      BY <3>1, <3>2 DEF IInv, ClosedForProgram, LossInv, Windowed, LostExplained, InWindow
    <3> QED
      BY <3>3, <3>4, <3>5 DEF IInv
  <2> QED
    BY <2>1, <2>2 DEF Next
<1> QED
  BY <1>1, <1>2, PTL DEF Spec

\* A process that waits for the lock it has logs at INFO, from its own rollback, or is
\* in a handler; what is written to a closed log comes from a handler; and the files
\* hold every line once (logger.c:128-177).
THEOREM LoggerConsistent == Spec => []Consistent
<1>1. IInv => Consistent
  <2> SUFFICES ASSUME IInv PROVE SelfWaitExplained
    BY DEF IInv, TypeInv, Consistent
  <2> SUFFICES ASSUME NEW p \in mutex, Is(p, "lock"), ~(Level[p] >= INFO)
               PROVE  Handlers(p) > 0
    BY DEF SelfWaitExplained
  <2> DEFINE n == Len(stack[p])
  <2>1. p \in Procs /\ stack[p] \in Seq(Frames) /\ stack[p] # <<>> /\ Level[p] \in Nat
    BY LoggerAssumption DEF IInv, TypeInv, TypeOK, Is
  <2>2. /\ n \in DOMAIN stack[p] /\ DOMAIN stack[p] = 1 .. n /\ n \in Nat
        /\ stack[p][n].at = "lock"
    BY <2>1, Top DEF Is
  <2>3. PICK i \in DOMAIN stack[p] : stack[p][i].at \notin {"enter", "lock"}
    BY DEF IInv, CallInv, Held
  <2>4. n > 1
    BY <2>2, <2>3
  <2>5. stack[p][n].handler
    <3>1. stack[p][n].level <= Level[p] /\ (~stack[p][n].handler => stack[p][n].level = INFO)
      BY <2>1, <2>2, <2>4 DEF IInv, CallInv, Nested
    <3> QED
      BY <2>1, <3>1 DEF INFO
  <2> DEFINE H == {j \in DOMAIN stack[p] : stack[p][j].handler}
  <2>6. n \in H /\ H \subseteq 1 .. n
    BY <2>2, <2>5
  <2>7. IsFiniteSet(H)
    <3>1. IsFiniteSet(1 .. n)
      BY <2>2, FS_Interval
    <3> QED
      BY <2>6, <3>1, FS_Subset
  <2>8. Cardinality(H) \in Nat /\ Cardinality(H) # 0
    BY <2>6, <2>7, FS_CardinalityType, FS_EmptySet
  <2> QED
    BY <2>8 DEF Handlers
<1> QED
  BY <1>1, Invariance, PTL

\* A line that vanishes without ever being in a backup was in the file when a copy
\* failed, or was written between a copy and its truncate, whatever processes and
\* handlers roll back under each other (logger.c:150-156).
THEOREM LoggerLosesOnlyInWindow == Spec => []LostExplained
<1>1. IInv => LostExplained
  BY DEF IInv, LossInv
<1> QED
  BY <1>1, Invariance, PTL

-----------------------------------------------------------------------------
(* What the limit promises.  A stack is looked at from its first call on:  *)
(* a rollback inside a rollback is paid by the lines of others and of      *)
(* handlers that filled the file again.                                    *)

\* The call empties the file when it goes on.
Cutting(s, k) == s[k].at \in {"copy", "truncate"}

\* The call waits for the call it made.
Child(s, k) == k + 1 \in DOMAIN s /\ ~s[k + 1].handler

\* The call emptied the file, and its report is not written.
Rolled(s, k) == s[k].at = "banner" \/ Child(s, k)

\* This call, or one under it, emptied the file, and none in between is to empty it.
Primed(s, k) == \E j \in 1 .. k : Rolled(s, j) /\ \A m \in j + 1 .. k : ~Cutting(s, m)

\* The rollbacks over a rollback, and the handlers.
Charged(s, i) == {k \in 1 .. i : (Rolled(s, k) \/ Cutting(s, k)) /\ Primed(s, k - 1)}
Handling(s, i) == {k \in 1 .. i : s[k].handler}
Debt(s, i) == Cardinality(Charged(s, i))
Signalled(s, i) == Cardinality(Handling(s, i))

\* The lines a call is still to write: its own and the report of its rollback.
Owes(s, k) == IF s[k].at = "unlock" THEN 0 ELSE 1
Reports(s, k) == IF Cutting(s, k) \/ s[k].at = "banner" THEN 1 ELSE 0

-----------------------------------------------------------------------------

\* What is counted of a stack, call by call.
LEMMA Unfold ==
  ASSUME NEW s, NEW k \in Nat \ {0}
  PROVE  /\ Primed(s, k) <=> Rolled(s, k) \/ (~Cutting(s, k) /\ Primed(s, k - 1))
         /\ Debt(s, k - 1) \in Nat /\ Signalled(s, k - 1) \in Nat
         /\ Debt(s, k) = IF (Rolled(s, k) \/ Cutting(s, k)) /\ Primed(s, k - 1)
                         THEN Debt(s, k - 1) + 1 ELSE Debt(s, k - 1)
         /\ Signalled(s, k) = IF s[k].handler THEN Signalled(s, k - 1) + 1
                              ELSE Signalled(s, k - 1)
<1>1. Primed(s, k) <=> Rolled(s, k) \/ (~Cutting(s, k) /\ Primed(s, k - 1))
  <2>1. ASSUME Primed(s, k) PROVE Rolled(s, k) \/ (~Cutting(s, k) /\ Primed(s, k - 1))
    <3>1. PICK j \in 1 .. k : Rolled(s, j) /\ \A m \in j + 1 .. k : ~Cutting(s, m)
      BY <2>1 DEF Primed
    <3>2. CASE j = k
      BY <3>1, <3>2
    <3>3. CASE j # k
      <4>1. j \in 1 .. k - 1 /\ k \in j + 1 .. k /\ \A m \in j + 1 .. k - 1 : m \in j + 1 .. k
        BY <3>3
      <4> QED
        BY <3>1, <4>1 DEF Primed
    <3> QED
      BY <3>2, <3>3
  <2>2. ASSUME Rolled(s, k) PROVE Primed(s, k)
    <3>1. k \in 1 .. k /\ k + 1 .. k = {}
      OBVIOUS
    <3> QED
      BY <2>2, <3>1 DEF Primed
  <2>3. ASSUME ~Cutting(s, k), Primed(s, k - 1) PROVE Primed(s, k)
    <3>1. PICK j \in 1 .. k - 1 : Rolled(s, j) /\ \A m \in j + 1 .. k - 1 : ~Cutting(s, m)
      BY <2>3 DEF Primed
    <3>2. j \in 1 .. k /\ \A m \in j + 1 .. k : m = k \/ m \in j + 1 .. k - 1
      OBVIOUS
    <3> QED
      BY <2>3, <3>1, <3>2 DEF Primed
  <2> QED
    BY <2>1, <2>2, <2>3
<1>2. k - 1 \in Nat /\ k \notin 1 .. k - 1 /\ \A i \in 1 .. k : i = k \/ i \in 1 .. k - 1
  OBVIOUS
<1>3. 1 .. k - 1 \subseteq 1 .. k /\ k \in 1 .. k /\ IsFiniteSet(1 .. k - 1)
  BY FS_Interval
<1>4. ASSUME NEW S, NEW T, S \subseteq 1 .. k - 1, T = S \/ T = S \cup {k}
      PROVE  /\ Cardinality(S) \in Nat
             /\ T = S => Cardinality(T) = Cardinality(S)
             /\ T = S \cup {k} => Cardinality(T) = Cardinality(S) + 1
  <2>1. IsFiniteSet(S) /\ k \notin S
    BY <1>2, <1>3, <1>4, FS_Subset
  <2> QED
    BY <2>1, FS_CardinalityType, FS_AddElement
<1>5. /\ Debt(s, k - 1) \in Nat
      /\ Debt(s, k) = IF (Rolled(s, k) \/ Cutting(s, k)) /\ Primed(s, k - 1)
                      THEN Debt(s, k - 1) + 1 ELSE Debt(s, k - 1)
  <2>1. Charged(s, k - 1) \subseteq 1 .. k - 1
    BY DEF Charged
  <2>2. CASE (Rolled(s, k) \/ Cutting(s, k)) /\ Primed(s, k - 1)
    <3>1. Charged(s, k) = Charged(s, k - 1) \cup {k}
      BY <1>2, <1>3, <2>2 DEF Charged
    <3> QED
      BY <1>4, <2>1, <2>2, <3>1 DEF Debt
  <2>3. CASE ~((Rolled(s, k) \/ Cutting(s, k)) /\ Primed(s, k - 1))
    <3>1. Charged(s, k) = Charged(s, k - 1)
      BY <1>2, <1>3, <2>3 DEF Charged
    <3> QED
      BY <1>4, <2>1, <2>3, <3>1 DEF Debt
  <2> QED
    BY <2>2, <2>3
<1>6. /\ Signalled(s, k - 1) \in Nat
      /\ Signalled(s, k) = IF s[k].handler THEN Signalled(s, k - 1) + 1
                           ELSE Signalled(s, k - 1)
  <2>1. Handling(s, k - 1) \subseteq 1 .. k - 1
    BY DEF Handling
  <2>2. CASE s[k].handler
    <3>1. Handling(s, k) = Handling(s, k - 1) \cup {k}
      BY <1>2, <1>3, <2>2 DEF Handling
    <3> QED
      BY <1>4, <2>1, <2>2, <3>1 DEF Signalled
  <2>3. CASE ~s[k].handler
    <3>1. Handling(s, k) = Handling(s, k - 1)
      BY <1>2, <1>3, <2>3 DEF Handling
    <3> QED
      BY <1>4, <2>1, <2>3, <3>1 DEF Signalled
  <2> QED
    BY <2>2, <2>3
<1> QED
  BY <1>1, <1>5, <1>6

\* Nothing is under the first call.
LEMMA Unfolded ==
  ASSUME NEW s
  PROVE  ~Primed(s, 0) /\ Debt(s, 0) = 0 /\ Signalled(s, 0) = 0
<1>1. Charged(s, 0) = {} /\ Handling(s, 0) = {} /\ ~Primed(s, 0)
  BY DEF Charged, Handling, Primed
<1> QED
  BY <1>1, FS_EmptySet DEF Debt, Signalled

\* The counts are numbers.
LEMMA CountsAre ==
  ASSUME NEW s, NEW k \in Nat
  PROVE  Debt(s, k) \in Nat /\ Signalled(s, k) \in Nat
<1>1. k + 1 \in Nat \ {0} /\ (k + 1) - 1 = k
  OBVIOUS
<1> QED
  BY <1>1, Unfold

\* Stacks that are alike up to a call count the same there.
LEMMA Alike ==
  ASSUME NEW s, NEW t, NEW m \in Nat,
         \A k \in 1 .. m : /\ Cutting(t, k) <=> Cutting(s, k)
                           /\ Rolled(t, k) <=> Rolled(s, k)
                           /\ t[k].handler <=> s[k].handler
  PROVE  \A k \in 0 .. m : /\ Primed(t, k) <=> Primed(s, k)
                           /\ Debt(t, k) = Debt(s, k) /\ Signalled(t, k) = Signalled(s, k)
<1>1. ASSUME NEW k \in 0 .. m PROVE Primed(t, k) <=> Primed(s, k)
  <2>1. \A j \in 1 .. k : j \in 1 .. m /\ \A l \in j + 1 .. k : l \in 1 .. m
    OBVIOUS
  <2> QED
    BY <2>1 DEF Primed
<1>2. ASSUME NEW k \in 0 .. m PROVE Charged(t, k) = Charged(s, k) /\ Handling(t, k) = Handling(s, k)
  <2>1. \A j \in 1 .. k : j \in 1 .. m /\ j - 1 \in 0 .. m
    OBVIOUS
  <2> QED
    BY <1>1, <2>1 DEF Charged, Handling
<1> QED
  BY <1>1, <1>2 DEF Debt, Signalled

\* Limit times one more is Limit more.
LEMMA TimesLimit ==
  /\ Limit \in Nat /\ Limit >= 2
  /\ \A x \in Nat : Limit * x \in Nat /\ Limit * (x + 1) = Limit * x + Limit
<1>1. Limit \in Nat /\ Limit >= 2
  BY LoggerAssumption
<1> QED
  BY <1>1

-----------------------------------------------------------------------------
(* What a stack does next.                                                  *)

\* The call on top goes on, the others wait.
TopMoves(s, t, n) ==
  /\ n \in Nat \ {0} /\ DOMAIN s = 1 .. n /\ DOMAIN t = 1 .. n
  /\ t[n].handler = s[n].handler /\ \A k \in 1 .. n - 1 : t[k] = s[k]

\* The call on top returns.
Returns(s, t, n) ==
  /\ n \in Nat \ {0} /\ DOMAIN s = 1 .. n /\ DOMAIN t = 1 .. n - 1
  /\ \A k \in 1 .. n - 1 : t[k] = s[k]

\* A handler is called, or the first call is made.
Called(s, t, n) ==
  /\ n \in Nat /\ DOMAIN s = 1 .. n /\ DOMAIN t = 1 .. n + 1
  /\ t[n + 1].handler \in BOOLEAN /\ (t[n + 1].handler \/ n = 0) /\ t[n + 1].at = "enter"
  /\ \A k \in 1 .. n : t[k] = s[k]

\* The rollback on top makes its report.
Told(s, t, n) ==
  /\ n \in Nat \ {0} /\ DOMAIN s = 1 .. n /\ DOMAIN t = 1 .. n + 1
  /\ s[n].at = "banner" /\ t[n].at = "write" /\ t[n].handler = s[n].handler
  /\ t[n + 1].at = "enter" /\ ~t[n + 1].handler
  /\ \A k \in 1 .. n - 1 : t[k] = s[k]

\* What a call waits for, while another runs over it, is the same.
SameTo(s, t, m) ==
  /\ \A k \in 1 .. m : /\ t[k] = s[k]
                       /\ (Cutting(t, k) <=> Cutting(s, k)) /\ (Child(t, k) <=> Child(s, k))
                       /\ Rolled(t, k) <=> Rolled(s, k)
                       /\ Owes(t, k) = Owes(s, k) /\ Reports(t, k) = Reports(s, k)
  /\ \A k \in 0 .. m : /\ Primed(t, k) <=> Primed(s, k)
                       /\ Debt(t, k) = Debt(s, k) /\ Signalled(t, k) = Signalled(s, k)

LEMMA Same ==
  ASSUME NEW s, NEW t, NEW m \in Nat,
         \A k \in 1 .. m : t[k] = s[k] /\ (Child(t, k) <=> Child(s, k))
  PROVE  SameTo(s, t, m)
<1>1. \A k \in 1 .. m : /\ Cutting(t, k) <=> Cutting(s, k)
                        /\ Rolled(t, k) <=> Rolled(s, k)
                        /\ Owes(t, k) = Owes(s, k) /\ Reports(t, k) = Reports(s, k)
                        /\ t[k].handler <=> s[k].handler
  BY DEF Cutting, Rolled, Owes, Reports
<1>2. \A k \in 0 .. m : /\ Primed(t, k) <=> Primed(s, k)
                        /\ Debt(t, k) = Debt(s, k) /\ Signalled(t, k) = Signalled(s, k)
  BY <1>1, Alike
<1>3. \A k \in 1 .. m : /\ t[k] = s[k]
                        /\ (Cutting(t, k) <=> Cutting(s, k)) /\ (Child(t, k) <=> Child(s, k))
                        /\ Rolled(t, k) <=> Rolled(s, k)
                        /\ Owes(t, k) = Owes(s, k) /\ Reports(t, k) = Reports(s, k)
  BY <1>1
<1> QED
  BY <1>2, <1>3 DEF SameTo

LEMMA MovesIs ==
  ASSUME NEW s, NEW t, NEW n, TopMoves(s, t, n)
  PROVE  /\ n \in Nat \ {0} /\ SameTo(s, t, n - 1) /\ ~Child(s, n) /\ ~Child(t, n)
         /\ Signalled(t, n) = Signalled(s, n)
<1>1. n \in Nat \ {0} /\ n - 1 \in Nat /\ n + 1 \notin 1 .. n
  BY DEF TopMoves
<1>2. ~Child(s, n) /\ ~Child(t, n)
  BY <1>1 DEF TopMoves, Child
<1>3. ASSUME NEW k \in 1 .. n - 1 PROVE t[k] = s[k] /\ (Child(t, k) <=> Child(s, k))
  <2>1. k + 1 \in 1 .. n /\ (k + 1 = n \/ k + 1 \in 1 .. n - 1)
    BY <1>1
  <2>2. t[k] = s[k] /\ t[k + 1].handler = s[k + 1].handler
    BY <2>1 DEF TopMoves
  <2> QED
    BY <2>1, <2>2 DEF TopMoves, Child
<1>4. SameTo(s, t, n - 1)
  BY <1>1, <1>3, Same
<1>5. Signalled(t, n) = Signalled(s, n)
  <2>1. Signalled(t, n - 1) = Signalled(s, n - 1)
    BY <1>1, <1>4 DEF SameTo
  <2> QED
    BY <1>1, <2>1, Unfold DEF TopMoves
<1> QED
  BY <1>1, <1>2, <1>4, <1>5

LEMMA ReturnsIs ==
  ASSUME NEW s, NEW t, NEW n, Returns(s, t, n)
  PROVE  /\ n \in Nat \ {0} /\ ~Child(s, n)
         /\ n > 1 => /\ SameTo(s, t, n - 2) /\ ~Child(t, n - 1) /\ t[n - 1] = s[n - 1]
                     /\ Child(s, n - 1) <=> ~s[n].handler
<1>1. n \in Nat \ {0} /\ n + 1 \notin 1 .. n
  BY DEF Returns
<1>2. ~Child(s, n)
  BY <1>1 DEF Returns, Child
<1>3. ASSUME n > 1
      PROVE  /\ SameTo(s, t, n - 2) /\ ~Child(t, n - 1) /\ t[n - 1] = s[n - 1]
             /\ Child(s, n - 1) <=> ~s[n].handler
  <2>1. /\ n - 2 \in Nat /\ n - 1 \in 1 .. n - 1 /\ (n - 1) + 1 = n
        /\ n \in 1 .. n /\ n \notin 1 .. n - 1
    BY <1>1, <1>3
  <2>2. ASSUME NEW k \in 1 .. n - 2 PROVE t[k] = s[k] /\ (Child(t, k) <=> Child(s, k))
    <3>1. k \in 1 .. n - 1 /\ k + 1 \in 1 .. n - 1 /\ k + 1 \in 1 .. n
      BY <1>1
    <3> QED
      BY <3>1 DEF Returns, Child
  <2>3. SameTo(s, t, n - 2)
    BY <2>1, <2>2, Same
  <2> QED
    BY <2>1, <2>3 DEF Returns, Child
<1> QED
  BY <1>1, <1>2, <1>3

LEMMA CalledIs ==
  ASSUME NEW s, NEW t, NEW n, Called(s, t, n)
  PROVE  /\ n \in Nat /\ SameTo(s, t, n) /\ (n > 0 => ~Child(s, n)) /\ ~Child(t, n + 1)
<1>1. n \in Nat /\ n + 1 \notin 1 .. n /\ (n + 1) + 1 \notin 1 .. n + 1
  BY DEF Called
<1>2. ASSUME NEW k \in 1 .. n PROVE t[k] = s[k] /\ (Child(t, k) <=> Child(s, k))
  <2>1. k + 1 = n + 1 \/ k + 1 \in 1 .. n
    BY <1>1
  <2> QED
    BY <1>1, <2>1 DEF Called, Child
<1>3. SameTo(s, t, n)
  BY <1>1, <1>2, Same
<1> QED
  BY <1>1, <1>3 DEF Called, Child

LEMMA ToldIs ==
  ASSUME NEW s, NEW t, NEW n, Told(s, t, n)
  PROVE  /\ n \in Nat \ {0} /\ SameTo(s, t, n - 1) /\ ~Child(s, n) /\ Child(t, n)
         /\ ~Child(t, n + 1) /\ Debt(t, n) = Debt(s, n) /\ Debt(t, n + 1) = Debt(s, n)
         /\ Signalled(t, n) = Signalled(s, n) /\ Signalled(t, n + 1) = Signalled(s, n)
         /\ Primed(s, n) /\ Primed(t, n) /\ Primed(t, n + 1)
         /\ ~Cutting(s, n) /\ ~Cutting(t, n) /\ ~Cutting(t, n + 1)
<1>1. n \in Nat \ {0} /\ n - 1 \in Nat /\ n + 1 \notin 1 .. n /\ (n + 1) + 1 \notin 1 .. n + 1
  BY DEF Told
<1>2. ~Child(s, n) /\ Child(t, n) /\ ~Child(t, n + 1)
  BY <1>1 DEF Told, Child
<1>3. ASSUME NEW k \in 1 .. n - 1 PROVE t[k] = s[k] /\ (Child(t, k) <=> Child(s, k))
  <2>1. k + 1 \in 1 .. n /\ k + 1 \in 1 .. n + 1 /\ (k + 1 = n \/ k + 1 \in 1 .. n - 1)
    BY <1>1
  <2>2. t[k] = s[k] /\ t[k + 1].handler = s[k + 1].handler
    BY <2>1 DEF Told
  <2> QED
    BY <2>1, <2>2 DEF Told, Child
<1>4. SameTo(s, t, n - 1)
  BY <1>1, <1>3, Same
<1>5. /\ Primed(t, n - 1) <=> Primed(s, n - 1)
      /\ Debt(t, n - 1) = Debt(s, n - 1) /\ Signalled(t, n - 1) = Signalled(s, n - 1)
  BY <1>1, <1>4 DEF SameTo
<1>6. /\ Rolled(s, n) /\ Rolled(t, n) /\ ~Cutting(s, n) /\ ~Cutting(t, n) /\ ~Cutting(t, n + 1)
      /\ ~Rolled(t, n + 1) /\ t[n].handler = s[n].handler /\ ~t[n + 1].handler
  BY <1>2 DEF Told, Rolled, Cutting
<1>7. /\ Debt(t, n) = Debt(s, n) /\ Signalled(t, n) = Signalled(s, n)
      /\ Primed(s, n) /\ Primed(t, n)
  BY <1>1, <1>5, <1>6, Unfold
<1>8. n + 1 \in Nat \ {0} /\ (n + 1) - 1 = n
  BY <1>1
<1>9. Debt(t, n + 1) = Debt(t, n) /\ Signalled(t, n + 1) = Signalled(t, n) /\ Primed(t, n + 1)
  BY <1>6, <1>7, <1>8, Unfold
<1> QED
  BY <1>1, <1>2, <1>4, <1>6, <1>7, <1>9

-----------------------------------------------------------------------------
(* How deep a stack can be.                                                 *)

Capped(f) == IF f < Limit THEN f ELSE Limit

\* d[k]: the lines there can be since the file was emptied, when call k has returned
\* and everything over it; no more than Limit of them count at first.
Leads(s, d, k) ==
  Owes(s, k) + Reports(s, k) + (IF Cutting(s, k) THEN 0 ELSE d[k + 1]) <= d[k]
Foreseen(s, n, f, d) ==
  Capped(f) <= d[n + 1] /\ \A k \in 1 .. n : Leads(s, d, k)

\* The rollbacks over rollbacks are paid, and the lines there can be are too.
Pays(s, b, d, i) ==
  /\ Limit * Debt(s, i) <= b
  /\ Primed(s, i) => Limit * Debt(s, i) + Owes(s, i) + d[i + 1] <= b + 1
Paid(s, n, b, d) == \A i \in 1 .. n : ~Child(s, i) => Pays(s, b, d, i)

\* b: the lines of others, the signals, and Limit lines for every truncate that failed.
Afforded(s, n, f, b) == \E d \in [Nat -> Nat] : Foreseen(s, n, f, d) /\ Paid(s, n, b, d)

\* A call that made another is past its own rollback.
Waiting(s, n) == \A i \in 1 .. n : Child(s, i) => s[i].at = "write"

-----------------------------------------------------------------------------

LEMMA CappedIs == \A f \in Nat : Capped(f) \in Nat /\ Capped(f) <= Limit /\ Capped(f) <= f
BY TimesLimit DEF Capped

LEMMA LinesAre ==
  ASSUME NEW s, NEW k
  PROVE  /\ Owes(s, k) \in {0, 1} /\ Reports(s, k) \in {0, 1}
         /\ s[k].at # "unlock" => Owes(s, k) = 1
         /\ s[k].at = "unlock" => Owes(s, k) = 0
         /\ Cutting(s, k) => Owes(s, k) = 1 /\ Reports(s, k) = 1 /\ s[k].at # "banner"
         /\ s[k].at = "banner" => Owes(s, k) = 1 /\ Reports(s, k) = 1 /\ ~Cutting(s, k)
         /\ ~Cutting(s, k) /\ s[k].at # "banner" => Reports(s, k) = 0
BY DEF Owes, Reports, Cutting

\* The lines there can be when x more are there under the calls that changed.
Piece(d, x, m, u, v) ==
  [k \in Nat |-> IF k <= m THEN d[k] + x ELSE IF k = m + 1 THEN u ELSE v]

\* What waits under the calls that changed pays and leads as before, though there are x
\* more lines, when there is x more to pay with.
LEMMA Under ==
  ASSUME NEW s, NEW t, NEW n \in Nat, NEW m \in Nat, m <= n, SameTo(s, t, m),
         NEW d \in [Nat -> Nat], NEW e \in [Nat -> Nat], NEW f, NEW b \in Nat, NEW x \in Nat,
         \A k \in 1 .. m : e[k] = d[k] + x, e[m + 1] <= d[m + 1] + x,
         Foreseen(s, n, f, d), Paid(s, n, b, d)
  PROVE  \A k \in 1 .. m : Leads(t, e, k) /\ (~Child(t, k) => Pays(t, b + x, e, k))
<1> SUFFICES ASSUME NEW k \in 1 .. m
             PROVE  Leads(t, e, k) /\ (~Child(t, k) => Pays(t, b + x, e, k))
  OBVIOUS
<1>1. /\ k \in Nat /\ k \in 1 .. n /\ k \in 0 .. m /\ (k + 1 \in 1 .. m \/ k + 1 = m + 1)
      /\ d[k] \in Nat /\ d[k + 1] \in Nat /\ e[k] \in Nat /\ e[k + 1] \in Nat
  OBVIOUS
<1>2. e[k] = d[k] + x /\ e[k + 1] <= d[k + 1] + x
  BY <1>1
<1>3. /\ (Cutting(t, k) <=> Cutting(s, k)) /\ (Child(t, k) <=> Child(s, k))
      /\ Owes(t, k) = Owes(s, k) /\ Reports(t, k) = Reports(s, k)
  BY DEF SameTo
<1>4. (Primed(t, k) <=> Primed(s, k)) /\ Debt(t, k) = Debt(s, k)
  BY <1>1 DEF SameTo
<1>5. Owes(s, k) \in {0, 1} /\ Reports(s, k) \in {0, 1}
  BY LinesAre
<1>6. Leads(t, e, k)
  <2>1. Leads(s, d, k)
    BY <1>1 DEF Foreseen
  <2> QED
    BY <1>1, <1>2, <1>3, <1>5, <2>1 DEF Leads
<1>7. ASSUME ~Child(t, k) PROVE Pays(t, b + x, e, k)
  <2>1. Pays(s, b, d, k)
    BY <1>1, <1>3, <1>7 DEF Paid
  <2>2. PICK y \in Nat : y = Limit * Debt(s, k)
    BY <1>1, CountsAre, TimesLimit
  <2>3. y <= b /\ (Primed(s, k) => y + Owes(s, k) + d[k + 1] <= b + 1)
    BY <2>1, <2>2 DEF Pays
  <2>4. y <= b + x /\ (Primed(s, k) => y + Owes(s, k) + e[k + 1] <= (b + x) + 1)
    BY <1>1, <1>2, <1>5, <2>3
  <2> QED
    BY <1>3, <1>4, <2>2, <2>4 DEF Pays
<1> QED
  BY <1>6, <1>7

\* A stack does the same with more to pay with, and as many more lines.
LEMMA Stays == ASSUME NEW s, NEW n \in Nat PROVE SameTo(s, s, n)
BY DEF SameTo

\* What others write, signals elsewhere, and a file they empty.
LEMMA AffordMore ==
  ASSUME NEW s, NEW n \in Nat, NEW f \in Nat, NEW g \in Nat, NEW b \in Nat, NEW x \in Nat,
         Capped(g) <= Capped(f) + x, Afforded(s, n, f, b)
  PROVE  Afforded(s, n, g, b + x)
<1>1. PICK d \in [Nat -> Nat] : Foreseen(s, n, f, d) /\ Paid(s, n, b, d)
  BY DEF Afforded
<1>2. d[n + 1] \in Nat /\ d[n + 1] + x \in Nat
  OBVIOUS
<1>3. PICK e \in [Nat -> Nat] : /\ \A k \in 0 .. n : e[k] = d[k] + x
                               /\ e[n + 1] = d[n + 1] + x
  <2>1. PICK u \in Nat : u = d[n + 1] + x
    BY <1>2
  <2>2. PICK e : e = Piece(d, x, n, u, u)
    OBVIOUS
  <2>3. /\ e \in [Nat -> Nat] /\ \A k \in 0 .. n : e[k] = d[k] + x
        /\ e[n + 1] = u
    BY <1>2, <2>1, <2>2 DEF Piece
  <2> QED
    BY <2>1, <2>3
<1>4. \A k \in 1 .. n : e[k] = d[k] + x /\ e[n + 1] <= d[n + 1] + x
  BY <1>2, <1>3
<1>5. \A k \in 1 .. n : Leads(s, e, k) /\ (~Child(s, k) => Pays(s, b + x, e, k))
  <2>1. n <= n /\ e[n + 1] <= d[n + 1] + x /\ SameTo(s, s, n)
    BY <1>2, <1>3, Stays
  <2> QED
    BY <1>1, <1>4, <2>1, Under
<1>6. Capped(g) <= e[n + 1]
  <2>1. Capped(f) \in Nat /\ Capped(g) \in Nat /\ Capped(f) <= d[n + 1]
    BY <1>1, CappedIs DEF Foreseen
  <2> QED
    BY <1>2, <1>3, <2>1
<1> QED
  BY <1>5, <1>6 DEF Afforded, Foreseen, Paid

\* The call on top goes on to where it does the same for the others.
LEMMA AffordMove ==
  ASSUME NEW s, NEW t, NEW n, TopMoves(s, t, n), NEW f \in Nat, NEW g \in Nat, NEW b \in Nat,
         Capped(g) <= Capped(f), Afforded(s, n, f, b),
         Cutting(t, n) <=> Cutting(s, n), t[n].at = "banner" <=> s[n].at = "banner",
         t[n].at = "unlock" <=> s[n].at = "unlock"
  PROVE  Afforded(t, n, g, b)
<1>1. PICK d \in [Nat -> Nat] : Foreseen(s, n, f, d) /\ Paid(s, n, b, d)
  BY DEF Afforded
<1>2. n \in Nat \ {0} /\ n - 1 \in Nat /\ SameTo(s, t, n - 1) /\ ~Child(s, n) /\ ~Child(t, n)
  BY MovesIs
<1>3. \A k \in 1 .. n - 1 : Leads(t, d, k) /\ (~Child(t, k) => Pays(t, b + 0, d, k))
  <2>1. /\ n - 1 <= n /\ 0 \in Nat /\ \A k \in 1 .. n - 1 : d[k] = d[k] + 0
        /\ d[(n - 1) + 1] <= d[(n - 1) + 1] + 0
    BY <1>2
  <2> QED
    BY <1>1, <1>2, <2>1, Under
<1>4. (Rolled(t, n) <=> Rolled(s, n)) /\ Owes(t, n) = Owes(s, n) /\ Reports(t, n) = Reports(s, n)
  BY <1>2 DEF Rolled, Owes, Reports
<1>5. (Primed(t, n) <=> Primed(s, n)) /\ Debt(t, n) = Debt(s, n)
  <2>1. (Primed(t, n - 1) <=> Primed(s, n - 1)) /\ Debt(t, n - 1) = Debt(s, n - 1)
    BY <1>2 DEF SameTo
  <2> QED
    BY <1>2, <1>4, <2>1, Unfold
<1>6. n \in 1 .. n /\ \A k \in 1 .. n : k = n \/ k \in 1 .. n - 1
  BY <1>2
<1>7. Leads(t, d, n) /\ Pays(t, b, d, n)
  BY <1>1, <1>2, <1>4, <1>5, <1>6 DEF Foreseen, Paid, Leads, Pays
<1>8. Capped(g) <= d[n + 1]
  <2>1. Capped(f) \in Nat /\ Capped(g) \in Nat /\ Capped(f) <= d[n + 1] /\ d[n + 1] \in Nat
    BY <1>1, <1>2, CappedIs DEF Foreseen
  <2> QED
    BY <2>1
<1>9. b + 0 = b
  OBVIOUS
<1> QED
  BY <1>3, <1>6, <1>7, <1>8, <1>9 DEF Afforded, Foreseen, Paid

\* A rollback begins when there are Limit lines: over another one, they pay for it.
LEMMA AffordCut ==
  ASSUME NEW s, NEW t, NEW n, TopMoves(s, t, n), NEW f \in Nat, NEW b \in Nat,
         Limit <= f, Afforded(s, n, f, b), s[n].at = "size", t[n].at = "copy"
  PROVE  Afforded(t, n, f, b)
<1>1. PICK d \in [Nat -> Nat] : Foreseen(s, n, f, d) /\ Paid(s, n, b, d)
  BY DEF Afforded
<1>2. /\ n \in Nat \ {0} /\ n - 1 \in Nat /\ SameTo(s, t, n - 1) /\ ~Child(s, n) /\ ~Child(t, n)
      /\ n \in 1 .. n /\ \A k \in 1 .. n : k = n \/ k \in 1 .. n - 1
  BY MovesIs
<1>3. \A k \in 1 .. n - 1 : Leads(t, d, k) /\ (~Child(t, k) => Pays(t, b + 0, d, k))
  <2>1. /\ n - 1 <= n /\ 0 \in Nat /\ \A k \in 1 .. n - 1 : d[k] = d[k] + 0
        /\ d[(n - 1) + 1] <= d[(n - 1) + 1] + 0
    BY <1>2
  <2> QED
    BY <1>1, <1>2, <2>1, Under
<1>4. /\ ~Cutting(s, n) /\ Cutting(t, n) /\ ~Rolled(s, n) /\ ~Rolled(t, n)
      /\ Owes(s, n) = 1 /\ Reports(s, n) = 0 /\ Owes(t, n) = 1 /\ Reports(t, n) = 1
  BY <1>2 DEF Cutting, Rolled, Owes, Reports
<1>5. /\ d[n] \in Nat /\ d[n + 1] \in Nat /\ Limit <= d[n + 1] /\ d[n + 1] + 1 <= d[n]
  <2>1. Capped(f) = Limit /\ Capped(f) <= d[n + 1] /\ Leads(s, d, n)
    BY <1>1, <1>2, TimesLimit DEF Capped, Foreseen
  <2>2. d[n] \in Nat /\ d[n + 1] \in Nat
    BY <1>2
  <2> QED
    BY <1>4, <2>1, <2>2 DEF Leads
<1>6. Leads(t, d, n)
  BY <1>4, <1>5, LoggerAssumption DEF Leads
<1>7. Pays(t, b, d, n)
  <2>1. (Primed(t, n - 1) <=> Primed(s, n - 1)) /\ Debt(t, n - 1) = Debt(s, n - 1)
    BY <1>2 DEF SameTo
  <2>2. /\ ~Primed(t, n) /\ (Primed(s, n) <=> Primed(s, n - 1))
        /\ Debt(s, n) = Debt(s, n - 1) /\ Debt(s, n) \in Nat
        /\ Debt(t, n) = IF Primed(s, n) THEN Debt(s, n) + 1 ELSE Debt(s, n)
    BY <1>2, <1>4, <2>1, Unfold
  <2>3. Pays(s, b, d, n)
    BY <1>1, <1>2 DEF Paid
  <2>4. PICK y \in Nat : y = Limit * Debt(s, n) /\ Limit * (Debt(s, n) + 1) = y + Limit
    BY <2>2, TimesLimit
  <2>5. y <= b /\ (Primed(s, n) => y + 1 + d[n + 1] <= b + 1)
    BY <1>4, <2>3, <2>4 DEF Pays
  <2>6. Limit * Debt(t, n) <= b
    <3>1. CASE Primed(s, n)
      <4>1. y + Limit <= b
        BY <1>5, <2>5, <3>1, TimesLimit
      <4> QED
        BY <2>2, <2>4, <3>1, <4>1
    <3>2. CASE ~Primed(s, n)
      BY <2>2, <2>4, <2>5, <3>2
    <3> QED
      BY <3>1, <3>2
  <2> QED
    BY <2>2, <2>6 DEF Pays
<1>8. Capped(f) <= d[n + 1] /\ b + 0 = b
  BY <1>1 DEF Foreseen
<1> QED
  BY <1>2, <1>3, <1>6, <1>7, <1>8 DEF Afforded, Foreseen, Paid

\* The file was emptied, or it was not and x lines more are paid with.
LEMMA AffordRolled ==
  ASSUME NEW s, NEW t, NEW n, TopMoves(s, t, n), NEW f \in Nat, NEW g \in Nat, NEW b \in Nat,
         NEW x \in Nat, Capped(g) <= x, Afforded(s, n, f, b),
         Cutting(s, n), t[n].at = "banner"
  PROVE  Afforded(t, n, g, b + x)
<1>1. PICK d \in [Nat -> Nat] : Foreseen(s, n, f, d) /\ Paid(s, n, b, d)
  BY DEF Afforded
<1>2. /\ n \in Nat \ {0} /\ n - 1 \in Nat /\ SameTo(s, t, n - 1) /\ ~Child(s, n) /\ ~Child(t, n)
      /\ n \in 1 .. n /\ \A k \in 1 .. n : k = n \/ k \in 1 .. n - 1
  BY MovesIs
<1>3. PICK e \in [Nat -> Nat] : (\A k \in 0 .. n : e[k] = d[k] + x) /\ e[n + 1] = x
  <2>1. PICK e : e = Piece(d, x, n, x, x)
    OBVIOUS
  <2> QED
    BY <1>2, <2>1 DEF Piece
<1>4. \A k \in 1 .. n - 1 : Leads(t, e, k) /\ (~Child(t, k) => Pays(t, b + x, e, k))
  <2>1. /\ n - 1 <= n /\ (n - 1) + 1 = n /\ n \in 0 .. n
        /\ \A k \in 1 .. n - 1 : k \in 0 .. n
    BY <1>2
  <2>2. (\A k \in 1 .. n - 1 : e[k] = d[k] + x) /\ e[(n - 1) + 1] <= d[(n - 1) + 1] + x
    BY <1>3, <2>1
  <2> QED
    BY <1>1, <1>2, <2>1, <2>2, Under
<1>5. /\ Owes(s, n) = 1 /\ Reports(s, n) = 1 /\ Owes(t, n) = 1 /\ Reports(t, n) = 1
      /\ ~Cutting(t, n) /\ Rolled(t, n)
  BY LinesAre DEF Rolled
<1>6. d[n] \in Nat /\ 2 <= d[n] /\ e[n] = d[n] + x
  <2>1. Leads(s, d, n) /\ n \in 0 .. n
    BY <1>1, <1>2 DEF Foreseen
  <2> QED
    BY <1>2, <1>3, <1>5, <2>1 DEF Leads
<1>7. Leads(t, e, n)
  BY <1>3, <1>5, <1>6 DEF Leads
<1>8. Pays(t, b + x, e, n)
  <2>1. (Primed(t, n - 1) <=> Primed(s, n - 1)) /\ Debt(t, n - 1) = Debt(s, n - 1)
    BY <1>2 DEF SameTo
  <2>2. Debt(t, n) = Debt(s, n) /\ Debt(s, n) \in Nat
    BY <1>2, <1>5, <2>1, Unfold
  <2>3. Pays(s, b, d, n)
    BY <1>1, <1>2 DEF Paid
  <2>4. PICK y \in Nat : y = Limit * Debt(s, n)
    BY <2>2, TimesLimit
  <2>5. y <= b
    BY <2>3, <2>4 DEF Pays
  <2>6. y <= b + x /\ y + 1 + e[n + 1] <= (b + x) + 1
    BY <1>3, <2>5
  <2> QED
    BY <1>5, <2>2, <2>4, <2>6 DEF Pays
<1>9. Capped(g) <= e[n + 1]
  BY <1>3
<1> QED
  BY <1>2, <1>4, <1>7, <1>8, <1>9 DEF Afforded, Foreseen, Paid

\* The call that reports a rollback writes the line that was foreseen.
LEMMA AffordTold ==
  ASSUME NEW s, NEW t, NEW n, Told(s, t, n), NEW f \in Nat, NEW g \in Nat, NEW b \in Nat,
         Capped(g) <= Capped(f), Afforded(s, n, f, b)
  PROVE  Afforded(t, n + 1, g, b)
<1>1. PICK d \in [Nat -> Nat] : Foreseen(s, n, f, d) /\ Paid(s, n, b, d)
  BY DEF Afforded
<1>2. /\ n \in Nat \ {0} /\ n - 1 \in Nat /\ SameTo(s, t, n - 1) /\ ~Child(s, n) /\ Child(t, n)
      /\ Debt(t, n + 1) = Debt(s, n) /\ Primed(s, n)
      /\ ~Cutting(s, n) /\ ~Cutting(t, n) /\ ~Cutting(t, n + 1)
      /\ n \in 1 .. n /\ \A k \in 1 .. n + 1 : k = n \/ k = n + 1 \/ k \in 1 .. n - 1
  BY ToldIs
<1>3. PICK e \in [Nat -> Nat] : /\ \A k \in 0 .. n : e[k] = d[k]
                               /\ e[n + 1] = d[n + 1] + 1 /\ e[n + 2] = d[n + 1]
  <2>1. PICK u \in Nat, v \in Nat, x \in Nat : u = d[n + 1] + 1 /\ v = d[n + 1] /\ x = 0
    BY <1>2
  <2>2. PICK e : e = Piece(d, x, n, u, v)
    OBVIOUS
  <2>3. /\ e \in [Nat -> Nat] /\ \A k \in 0 .. n : e[k] = d[k] + x
        /\ e[n + 1] = u /\ e[n + 2] = v
    BY <1>2, <2>1, <2>2 DEF Piece
  <2>4. \A k \in 0 .. n : d[k] + x = d[k]
    BY <1>2, <2>1
  <2> QED
    BY <2>1, <2>3, <2>4
<1>4. \A k \in 1 .. n - 1 : Leads(t, e, k) /\ (~Child(t, k) => Pays(t, b + 0, e, k))
  <2>1. /\ n - 1 <= n /\ (n - 1) + 1 = n /\ n \in 0 .. n /\ 0 \in Nat
        /\ \A k \in 1 .. n - 1 : k \in 0 .. n
        /\ \A k \in 0 .. n : d[k] = d[k] + 0 /\ d[k] <= d[k] + 0
    BY <1>2
  <2>2. (\A k \in 1 .. n - 1 : e[k] = d[k] + 0) /\ e[(n - 1) + 1] <= d[(n - 1) + 1] + 0
    BY <1>3, <2>1
  <2> QED
    BY <1>1, <1>2, <2>1, <2>2, Under
<1>5. /\ Owes(s, n) = 1 /\ Reports(s, n) = 1 /\ Owes(t, n) = 1 /\ Reports(t, n) = 0
      /\ Owes(t, n + 1) = 1 /\ Reports(t, n + 1) = 0
  BY <1>2 DEF Told, Owes, Reports
<1>6. d[n] \in Nat /\ d[n + 1] \in Nat /\ 2 + d[n + 1] <= d[n] /\ e[n] = d[n]
  <2>1. Leads(s, d, n) /\ n \in 0 .. n
    BY <1>1, <1>2 DEF Foreseen
  <2> QED
    BY <1>2, <1>3, <1>5, <2>1 DEF Leads
<1>7. Leads(t, e, n) /\ Leads(t, e, n + 1)
  <2>1. (n + 1) + 1 = n + 2
    BY <1>2
  <2> QED
    BY <1>2, <1>3, <1>5, <1>6, <2>1 DEF Leads
<1>8. Pays(t, b, e, n + 1)
  <2>1. Pays(s, b, d, n) /\ (n + 1) + 1 = n + 2
    BY <1>1, <1>2 DEF Paid
  <2> QED
    BY <1>2, <1>3, <1>5, <2>1 DEF Pays
<1>9. Capped(g) <= e[n + 2] /\ (n + 1) + 1 = n + 2 /\ b + 0 = b
  <2>1. Capped(f) \in Nat /\ Capped(g) \in Nat /\ Capped(f) <= d[n + 1]
    BY <1>1, CappedIs DEF Foreseen
  <2> QED
    BY <1>2, <1>3, <1>6, <2>1
<1> QED
  BY <1>2, <1>4, <1>7, <1>8, <1>9 DEF Afforded, Foreseen, Paid

\* The line that was owed is in the file.
LEMMA AffordUnlock ==
  ASSUME NEW s, NEW t, NEW n, TopMoves(s, t, n), NEW f \in Nat, NEW g \in Nat, NEW b \in Nat,
         Capped(g) <= Capped(f) + 1, Afforded(s, n, f, b),
         s[n].at = "write", t[n].at = "unlock"
  PROVE  Afforded(t, n, g, b)
<1>1. PICK d \in [Nat -> Nat] : Foreseen(s, n, f, d) /\ Paid(s, n, b, d)
  BY DEF Afforded
<1>2. /\ n \in Nat \ {0} /\ n - 1 \in Nat /\ SameTo(s, t, n - 1) /\ ~Child(s, n) /\ ~Child(t, n)
      /\ n \in 1 .. n /\ \A k \in 1 .. n : k = n \/ k \in 1 .. n - 1
  BY MovesIs
<1>3. PICK e \in [Nat -> Nat] : (\A k \in 0 .. n : e[k] = d[k]) /\ e[n + 1] = d[n + 1] + 1
  <2>1. PICK u \in Nat, x \in Nat : u = d[n + 1] + 1 /\ x = 0
    BY <1>2
  <2>2. PICK e : e = Piece(d, x, n, u, u)
    OBVIOUS
  <2>3. /\ e \in [Nat -> Nat] /\ \A k \in 0 .. n : e[k] = d[k] + x
        /\ e[n + 1] = u
    BY <1>2, <2>1, <2>2 DEF Piece
  <2>4. \A k \in 0 .. n : d[k] + x = d[k]
    BY <1>2, <2>1
  <2> QED
    BY <2>1, <2>3, <2>4
<1>4. \A k \in 1 .. n - 1 : Leads(t, e, k) /\ (~Child(t, k) => Pays(t, b + 0, e, k))
  <2>1. /\ n - 1 <= n /\ (n - 1) + 1 = n /\ n \in 0 .. n /\ 0 \in Nat
        /\ \A k \in 1 .. n - 1 : k \in 0 .. n
        /\ \A k \in 0 .. n : d[k] = d[k] + 0 /\ d[k] <= d[k] + 0
    BY <1>2
  <2>2. (\A k \in 1 .. n - 1 : e[k] = d[k] + 0) /\ e[(n - 1) + 1] <= d[(n - 1) + 1] + 0
    BY <1>3, <2>1
  <2> QED
    BY <1>1, <1>2, <2>1, <2>2, Under
<1>5. /\ Owes(s, n) = 1 /\ Reports(s, n) = 0 /\ Owes(t, n) = 0 /\ Reports(t, n) = 0
      /\ ~Cutting(s, n) /\ ~Cutting(t, n) /\ ~Rolled(s, n) /\ ~Rolled(t, n)
  BY <1>2 DEF Owes, Reports, Cutting, Rolled
<1>6. d[n] \in Nat /\ d[n + 1] \in Nat /\ 1 + d[n + 1] <= d[n] /\ e[n] = d[n]
  <2>1. Leads(s, d, n) /\ n \in 0 .. n
    BY <1>1, <1>2 DEF Foreseen
  <2> QED
    BY <1>2, <1>3, <1>5, <2>1 DEF Leads
<1>7. Leads(t, e, n)
  BY <1>3, <1>5, <1>6 DEF Leads
<1>8. Pays(t, b, e, n)
  <2>1. (Primed(t, n - 1) <=> Primed(s, n - 1)) /\ Debt(t, n - 1) = Debt(s, n - 1)
    BY <1>2 DEF SameTo
  <2>2. (Primed(t, n) <=> Primed(s, n)) /\ Debt(t, n) = Debt(s, n) /\ Debt(s, n) \in Nat
    BY <1>2, <1>5, <2>1, Unfold
  <2>3. Pays(s, b, d, n)
    BY <1>1, <1>2 DEF Paid
  <2>4. PICK y \in Nat : y = Limit * Debt(s, n)
    BY <2>2, TimesLimit
  <2>5. y <= b /\ (Primed(s, n) => y + 0 + e[n + 1] <= b + 1)
    BY <1>3, <1>5, <1>6, <2>3, <2>4 DEF Pays
  <2> QED
    BY <1>5, <2>2, <2>4, <2>5 DEF Pays
<1>9. Capped(g) <= e[n + 1] /\ b + 0 = b
  <2>1. Capped(f) \in Nat /\ Capped(g) \in Nat /\ Capped(f) <= d[n + 1]
    BY <1>1, CappedIs DEF Foreseen
  <2> QED
    BY <1>3, <1>6, <2>1
<1> QED
  BY <1>2, <1>4, <1>7, <1>8, <1>9 DEF Afforded, Foreseen, Paid

\* A call that returns has written what it owed.  A rollback inside another that has its
\* report gives back what it was paid with, at least two lines, and owes one.
LEMMA AffordReturn ==
  ASSUME NEW s, NEW t, NEW n, Returns(s, t, n), NEW f \in Nat, NEW g \in Nat, NEW b \in Nat,
         Capped(g) <= Capped(f) + Owes(s, n), Afforded(s, n, f, b), Waiting(s, n),
         ~Cutting(s, n), s[n].at # "banner"
  PROVE  Afforded(t, n - 1, g, b)
<1>1. PICK d \in [Nat -> Nat] : Foreseen(s, n, f, d) /\ Paid(s, n, b, d)
  BY DEF Afforded
<1>2. /\ n \in Nat \ {0} /\ n - 1 \in Nat /\ ~Child(s, n) /\ n \in 1 .. n
      /\ (n - 1) + 1 = n
  BY ReturnsIs
<1>3. Owes(s, n) \in {0, 1} /\ Reports(s, n) = 0 /\ ~Rolled(s, n)
  BY <1>2, LinesAre DEF Rolled
<1>4. PICK e \in [Nat -> Nat] : (\A k \in 0 .. n - 1 : e[k] = d[k])
                                /\ e[n] = Owes(s, n) + d[n + 1]
  <2>1. PICK u \in Nat, x \in Nat : u = Owes(s, n) + d[n + 1] /\ x = 0
    BY <1>2, <1>3
  <2>2. PICK e : e = Piece(d, x, n - 1, u, u)
    OBVIOUS
  <2>3. /\ e \in [Nat -> Nat] /\ \A k \in 0 .. n - 1 : e[k] = d[k] + x
        /\ e[(n - 1) + 1] = u
    BY <1>2, <2>1, <2>2 DEF Piece
  <2>4. \A k \in 0 .. n - 1 : d[k] + x = d[k]
    BY <1>2, <2>1
  <2> QED
    BY <1>2, <2>1, <2>3, <2>4
<1>5. /\ d[n] \in Nat /\ d[n + 1] \in Nat /\ e[n] \in Nat /\ e[n] <= d[n]
  <2>1. Leads(s, d, n) /\ d[n] \in Nat /\ d[n + 1] \in Nat /\ e[n] \in Nat
    BY <1>1, <1>2 DEF Foreseen
  <2> QED
    BY <1>3, <1>4, <2>1 DEF Leads
<1>6. Capped(g) <= e[(n - 1) + 1]
  <2>1. Capped(f) \in Nat /\ Capped(g) \in Nat /\ Capped(f) <= d[n + 1]
    BY <1>1, CappedIs DEF Foreseen
  <2> QED
    BY <1>2, <1>3, <1>4, <1>5, <2>1
<1>7. CASE n = 1
  <2>1. 1 .. n - 1 = {}
    BY <1>7
  <2> QED
    BY <1>6, <2>1 DEF Afforded, Foreseen, Paid
<1>8. CASE n > 1
  <2>1. /\ SameTo(s, t, n - 2) /\ ~Child(t, n - 1) /\ t[n - 1] = s[n - 1]
        /\ Child(s, n - 1) <=> ~s[n].handler
    BY <1>8, ReturnsIs
  <2>2. /\ n - 1 \in Nat \ {0} /\ n - 2 \in Nat /\ n - 2 <= n /\ n - 1 \in 1 .. n
        /\ (n - 2) + 1 = n - 1 /\ (n - 1) - 1 = n - 2 /\ 0 \in Nat /\ b + 0 = b
        /\ \A k \in 1 .. n - 1 : k = n - 1 \/ k \in 1 .. n - 2
    BY <1>2, <1>8
  <2>3. \A k \in 1 .. n - 2 : Leads(t, e, k) /\ (~Child(t, k) => Pays(t, b + 0, e, k))
    <3>1. /\ \A k \in 1 .. n - 2 : k \in 0 .. n - 1
          /\ n - 1 \in 0 .. n - 1 /\ \A k \in 0 .. n - 1 : d[k] = d[k] + 0 /\ d[k] <= d[k] + 0
      BY <1>2, <2>2
    <3>2. (\A k \in 1 .. n - 2 : e[k] = d[k] + 0) /\ e[(n - 2) + 1] <= d[(n - 2) + 1] + 0
      BY <1>4, <2>2, <3>1
    <3> QED
      BY <1>1, <1>2, <2>1, <2>2, <3>2, Under
  <2>4. /\ Owes(t, n - 1) = Owes(s, n - 1) /\ Reports(t, n - 1) = Reports(s, n - 1)
        /\ Cutting(t, n - 1) <=> Cutting(s, n - 1)
    BY <2>1 DEF Owes, Reports, Cutting
  <2>5. Leads(t, e, n - 1)
    <3>1. Leads(s, d, n - 1) /\ n - 1 \in 0 .. n - 1
      BY <1>1, <2>2 DEF Foreseen
    <3>2. e[n - 1] = d[n - 1] /\ d[n - 1] \in Nat
      BY <1>4, <2>2, <3>1
    <3>3. Owes(s, n - 1) \in {0, 1} /\ Reports(s, n - 1) \in {0, 1}
      BY LinesAre
    <3> QED
      BY <1>2, <1>5, <2>4, <3>1, <3>2, <3>3 DEF Leads
  <2>6. (Primed(t, n - 2) <=> Primed(s, n - 2)) /\ Debt(t, n - 2) = Debt(s, n - 2)
    <3>1. n - 2 \in 0 .. n - 2
      BY <2>2
    <3> QED
      BY <2>1, <3>1 DEF SameTo
  <2>7. CASE s[n].handler
    <3>1. ~Child(s, n - 1) /\ (Rolled(t, n - 1) <=> Rolled(s, n - 1))
      BY <2>1, <2>7 DEF Rolled
    <3>2. (Primed(t, n - 1) <=> Primed(s, n - 1)) /\ Debt(t, n - 1) = Debt(s, n - 1)
      BY <2>2, <2>4, <2>6, <3>1, Unfold
    <3>3. Pays(s, b, d, n - 1)
      BY <1>1, <2>2, <3>1 DEF Paid
    <3>4. PICK y \in Nat : y = Limit * Debt(s, n - 1)
      BY <2>2, CountsAre, TimesLimit
    <3>5. y <= b /\ (Primed(s, n - 1) => y + Owes(s, n - 1) + d[n] <= b + 1)
      BY <1>2, <3>3, <3>4 DEF Pays
    <3>6. Owes(s, n - 1) \in {0, 1}
      BY LinesAre
    <3>7. Primed(s, n - 1) => y + Owes(s, n - 1) + e[n] <= b + 1
      BY <1>5, <3>5, <3>6
    <3>8. Pays(t, b, e, n - 1)
      BY <1>2, <2>4, <3>2, <3>4, <3>5, <3>7 DEF Pays
    <3> QED
      BY <1>6, <2>2, <2>3, <2>5, <3>8 DEF Afforded, Foreseen, Paid
  <2>8. CASE ~s[n].handler
    <3>1. Child(s, n - 1) /\ s[n - 1].at = "write"
      BY <2>1, <2>2, <2>8 DEF Waiting
    <3>2. /\ Rolled(s, n - 1) /\ ~Rolled(t, n - 1) /\ ~Cutting(s, n - 1) /\ ~Cutting(t, n - 1)
          /\ Owes(t, n - 1) = 1
      BY <2>1, <2>4, <3>1 DEF Rolled, Cutting, Owes
    <3>3. /\ Primed(s, n - 1) /\ (Primed(t, n - 1) <=> Primed(s, n - 2))
          /\ Debt(t, n - 1) = Debt(s, n - 2) /\ Debt(s, n - 2) \in Nat
          /\ Debt(s, n - 1) = IF Primed(s, n - 2) THEN Debt(s, n - 2) + 1 ELSE Debt(s, n - 2)
      BY <2>2, <2>6, <3>2, Unfold
    <3>4. Primed(s, n) /\ Debt(s, n) = Debt(s, n - 1)
      BY <1>2, <1>3, <3>3, Unfold
    <3>5. Pays(s, b, d, n)
      BY <1>1, <1>2 DEF Paid
    <3>6. PICK y \in Nat : y = Limit * Debt(s, n - 2) /\ Limit * (Debt(s, n - 2) + 1) = y + Limit
      BY <3>3, TimesLimit
    <3>7. Primed(s, n - 2) => y + Limit + Owes(s, n) + d[n + 1] <= b + 1
      BY <3>3, <3>4, <3>5, <3>6 DEF Pays
    <3>8. y <= b
      <4>1. Limit * Debt(s, n) <= b /\ Limit \in Nat
        BY <3>5, TimesLimit DEF Pays
      <4> QED
        BY <3>3, <3>4, <3>6, <4>1
    <3>9. Primed(s, n - 2) => y + 1 + e[n] <= b + 1
      BY <1>3, <1>4, <1>5, <3>7, LoggerAssumption
    <3>10. Pays(t, b, e, n - 1)
      BY <1>2, <3>2, <3>3, <3>6, <3>8, <3>9 DEF Pays
    <3> QED
      BY <1>6, <2>2, <2>3, <2>5, <3>10 DEF Afforded, Foreseen, Paid
  <2> QED
    BY <2>7, <2>8
<1> QED
  BY <1>2, <1>7, <1>8

\* A handler pays for its own line.
LEMMA AffordCalled ==
  ASSUME NEW s, NEW t, NEW n, Called(s, t, n), NEW f \in Nat, NEW g \in Nat, NEW b \in Nat,
         NEW x \in Nat, n > 0 => x > 0, Capped(g) <= Capped(f), Afforded(s, n, f, b)
  PROVE  Afforded(t, n + 1, g, b + x)
<1>1. PICK d \in [Nat -> Nat] : Foreseen(s, n, f, d) /\ Paid(s, n, b, d)
  BY DEF Afforded
<1>2. /\ n \in Nat /\ SameTo(s, t, n) /\ (n > 0 => ~Child(s, n)) /\ ~Child(t, n + 1)
      /\ n <= n /\ (n + 1) + 1 = n + 2 /\ (n + 1) - 1 = n /\ n + 1 \in Nat \ {0} /\ n \in 0 .. n
      /\ \A k \in 1 .. n + 1 : k = n + 1 \/ k \in 1 .. n
  BY CalledIs
<1>3. PICK e \in [Nat -> Nat] : /\ \A k \in 0 .. n : e[k] = d[k] + x
                               /\ e[n + 1] = d[n + 1] + 1 /\ e[n + 2] = d[n + 1]
  <2>1. PICK u \in Nat, v \in Nat : u = d[n + 1] + 1 /\ v = d[n + 1]
    BY <1>2
  <2>2. PICK e : e = Piece(d, x, n, u, v)
    OBVIOUS
  <2>3. /\ e \in [Nat -> Nat] /\ \A k \in 0 .. n : e[k] = d[k] + x
        /\ e[n + 1] = u /\ e[n + 2] = v
    BY <1>2, <2>1, <2>2 DEF Piece
  <2> QED
    BY <2>1, <2>3
<1>4. d[n + 1] \in Nat
  BY <1>2
<1>5. \A k \in 1 .. n : Leads(t, e, k) /\ (~Child(t, k) => Pays(t, b + x, e, k))
  <2>1. CASE n = 0
    <3>1. 1 .. n = {}
      BY <2>1
    <3> QED
      BY <3>1
  <2>2. CASE n > 0
    <3>1. (\A k \in 1 .. n : e[k] = d[k] + x) /\ e[n + 1] <= d[n + 1] + x
      BY <1>2, <1>3, <1>4, <2>2
    <3> QED
      BY <1>1, <1>2, <3>1, Under
  <2> QED
    BY <1>2, <2>1, <2>2
<1>6. /\ Owes(t, n + 1) = 1 /\ Reports(t, n + 1) = 0
      /\ ~Cutting(t, n + 1) /\ ~Rolled(t, n + 1)
  BY <1>2 DEF Called, Owes, Reports, Cutting, Rolled
<1>7. Leads(t, e, n + 1)
  BY <1>2, <1>3, <1>4, <1>6 DEF Leads
<1>8. Pays(t, b + x, e, n + 1)
  <2>1. (Primed(t, n) <=> Primed(s, n)) /\ Debt(t, n) = Debt(s, n)
    BY <1>2 DEF SameTo
  <2>2. (Primed(t, n + 1) <=> Primed(s, n)) /\ Debt(t, n + 1) = Debt(s, n)
    BY <1>2, <1>6, <2>1, Unfold
  <2>3. CASE n = 0
    <3>1. ~Primed(s, n) /\ Debt(s, n) = 0 /\ Limit * 0 = 0
      BY <2>3, Unfolded, TimesLimit
    <3> QED
      BY <2>2, <3>1 DEF Pays
  <2>4. CASE n > 0
    <3>1. Pays(s, b, d, n) /\ x > 0
      <4>1. n \in 1 .. n
        BY <1>2, <2>4
      <4> QED
        BY <1>1, <1>2, <2>4, <4>1 DEF Paid
    <3>2. PICK y \in Nat : y = Limit * Debt(s, n)
      BY <1>2, CountsAre, TimesLimit
    <3>3. Owes(s, n) \in {0, 1}
      BY LinesAre
    <3>4. y <= b /\ (Primed(s, n) => y + Owes(s, n) + d[n + 1] <= b + 1)
      BY <3>1, <3>2 DEF Pays
    <3>5. y <= b + x /\ (Primed(s, n) => y + 1 + e[n + 2] <= (b + x) + 1)
      BY <1>3, <1>4, <3>1, <3>3, <3>4
    <3> QED
      BY <1>2, <1>6, <2>2, <3>2, <3>5 DEF Pays
  <2> QED
    BY <1>2, <2>3, <2>4
<1>9. Capped(g) <= e[(n + 1) + 1]
  <2>1. Capped(f) \in Nat /\ Capped(g) \in Nat /\ Capped(f) <= d[n + 1]
    BY <1>1, CappedIs DEF Foreseen
  <2> QED
    BY <1>2, <1>3, <1>4, <2>1
<1> QED
  BY <1>2, <1>5, <1>7, <1>8, <1>9 DEF Afforded, Foreseen, Paid

-----------------------------------------------------------------------------
(* How many lines a process can have in the file.                           *)

\* The program's own call has not seen how long the file is: it may still empty it.
Early(s, k) == k = 1 /\ ~s[1].handler /\ s[1].at \in {"enter", "lock", "size"}
Certain(s, k) == IF Early(s, k) THEN 0 ELSE Owes(s, k)

\* A rolled call has room for its report, and room for the rollbacks over it is paid.
Need(s, k) == IF Primed(s, k) /\ ~Child(s, k) THEN 0 ELSE 1

\* a[k]: the lines the process may have in the file when everything over call k has
\* returned, so that what is left to return makes no more than c of them; a truncate
\* empties the file or allows Limit lines more.
Room(s, a, k) ==
  a[k] + Certain(s, k) + Reports(s, k) <= a[k - 1] + (IF Cutting(s, k) THEN Limit ELSE 0)
Grant(s, a, c, k) ==
  a[k] <= c /\ c + Need(s, k) <= a[k] + 2 + Signalled(s, k) + Debt(s, k)
Fits(s, n, o, c, a) ==
  /\ a[0] = c /\ o <= a[n]
  /\ \A k \in 1 .. n : Room(s, a, k)
  /\ \A k \in 0 .. n : Grant(s, a, c, k)
Allowed(s, n, o, c) == \E a \in [Nat -> Nat] : Fits(s, n, o, c, a)

-----------------------------------------------------------------------------

LEMMA CertainIs ==
  ASSUME NEW s, NEW k
  PROVE  /\ Certain(s, k) \in {0, 1} /\ Reports(s, k) \in {0, 1} /\ Need(s, k) \in {0, 1}
         /\ s[k].at \in {"enter", "lock", "size", "write"} => Reports(s, k) = 0
         /\ k # 1 \/ s[1].handler => Certain(s, k) = Owes(s, k)
         /\ s[k].at \notin {"enter", "lock", "size"} => Certain(s, k) = Owes(s, k)
         /\ ~Primed(s, k) => Need(s, k) = 1
         /\ Child(s, k) => Need(s, k) = 1
         /\ Primed(s, k) /\ ~Child(s, k) => Need(s, k) = 0
<1>1. Certain(s, k) \in {0, 1} /\ Reports(s, k) \in {0, 1} /\ Need(s, k) \in {0, 1}
  BY DEF Certain, Owes, Reports, Need
<1>2. /\ s[k].at \in {"enter", "lock", "size", "write"} => Reports(s, k) = 0
      /\ k # 1 \/ s[1].handler => Certain(s, k) = Owes(s, k)
      /\ s[k].at \notin {"enter", "lock", "size"} => Certain(s, k) = Owes(s, k)
  BY DEF Certain, Early, Reports, Cutting
<1> QED
  BY <1>1, <1>2 DEF Need

\* As much more room, under the calls that changed.
Raised(a, e, x, m) == \A k \in 0 .. m : e[k] = a[k] + x

\* What waits under the calls that changed has as much room as before.
LEMMA RoomUnder ==
  ASSUME NEW s, NEW t, NEW n \in Nat, NEW m \in Nat, m <= n, SameTo(s, t, m),
         NEW a \in [Nat -> Nat], NEW e \in [Nat -> Nat], NEW o \in Nat, NEW c \in Nat,
         NEW x \in Nat, Raised(a, e, x, m), Fits(s, n, o, c, a)
  PROVE  /\ e[0] = c + x /\ \A k \in 1 .. m : Room(t, e, k)
         /\ \A k \in 0 .. m : Grant(t, e, c + x, k)
<1>1. e[0] = c + x
  BY DEF Fits, Raised
<1>2. ASSUME NEW k \in 1 .. m PROVE Room(t, e, k)
  <2>1. /\ k \in 1 .. n /\ k \in 0 .. m /\ k - 1 \in 0 .. m /\ a[k] \in Nat /\ a[k - 1] \in Nat
    OBVIOUS
  <2>2. e[k] = a[k] + x /\ e[k - 1] = a[k - 1] + x
    BY <2>1 DEF Raised
  <2>3. Certain(t, k) = Certain(s, k)
    BY DEF SameTo, Certain, Early
  <2>4. Certain(s, k) \in {0, 1} /\ Reports(s, k) \in {0, 1}
    BY CertainIs
  <2>5. Room(s, a, k)
    BY <2>1 DEF Fits
  <2>6. (Cutting(t, k) <=> Cutting(s, k)) /\ Reports(t, k) = Reports(s, k)
    BY DEF SameTo
  <2> QED
    BY <2>1, <2>2, <2>3, <2>4, <2>5, <2>6, LoggerAssumption DEF Room
<1>3. ASSUME NEW k \in 0 .. m PROVE Grant(t, e, c + x, k)
  <2>1. k \in 0 .. n /\ k \in Nat /\ a[k] \in Nat /\ e[k] = a[k] + x
    BY DEF Raised
  <2>2. Grant(s, a, c, k)
    BY <2>1 DEF Fits
  <2>3. /\ Primed(t, k) <=> Primed(s, k)
        /\ Debt(t, k) = Debt(s, k) /\ Signalled(t, k) = Signalled(s, k)
    BY DEF SameTo
  <2>4. Need(t, k) = Need(s, k)
    <3>1. CASE k = 0
      BY <3>1, Unfolded DEF Need
    <3>2. CASE k # 0
      <4>1. k \in 1 .. m
        BY <2>1, <3>2
      <4>2. Child(t, k) <=> Child(s, k)
        BY <4>1 DEF SameTo
      <4> QED
        BY <2>3, <4>2 DEF Need
    <3> QED
      BY <3>1, <3>2
  <2>5. Need(s, k) \in {0, 1} /\ Debt(s, k) \in Nat /\ Signalled(s, k) \in Nat
    BY <2>1, CertainIs, CountsAre
  <2> QED
    BY <2>1, <2>2, <2>3, <2>4, <2>5 DEF Grant
<1> QED
  BY <1>1, <1>2, <1>3

\* Others write, handlers run elsewhere, or the file is emptied.
LEMMA AllowMore ==
  ASSUME NEW s, NEW n \in Nat, NEW o \in Nat, NEW p \in Nat, NEW c \in Nat, NEW x \in Nat,
         p <= o + x, Allowed(s, n, o, c)
  PROVE  Allowed(s, n, p, c + x)
<1>1. PICK a \in [Nat -> Nat] : Fits(s, n, o, c, a)
  BY DEF Allowed
<1>2. PICK e \in [Nat -> Nat] : \A k \in 0 .. n : e[k] = a[k] + x
  <2>1. PICK e : e = Piece(a, x, n, 0, 0)
    OBVIOUS
  <2> QED
    BY <2>1 DEF Piece
<1>3. /\ e[0] = c + x /\ \A k \in 1 .. n : Room(s, e, k)
      /\ \A k \in 0 .. n : Grant(s, e, c + x, k)
  <2>1. n <= n /\ SameTo(s, s, n) /\ Raised(a, e, x, n)
    BY <1>2, Stays DEF Raised
  <2> QED
    BY <1>1, <1>2, <2>1, RoomUnder
<1>4. p <= e[n]
  <2>1. o <= a[n] /\ a[n] \in Nat /\ n \in 0 .. n
    BY <1>1 DEF Fits
  <2> QED
    BY <1>2, <2>1
<1> QED
  BY <1>3, <1>4 DEF Allowed, Fits

\* The call on top goes on to where it owes the same.
LEMMA AllowMove ==
  ASSUME NEW s, NEW t, NEW n, TopMoves(s, t, n), NEW o \in Nat, NEW c \in Nat,
         Allowed(s, n, o, c), Cutting(t, n) <=> Cutting(s, n),
         t[n].at = "banner" <=> s[n].at = "banner", Certain(t, n) = Certain(s, n)
  PROVE  Allowed(t, n, o, c)
<1>1. PICK a \in [Nat -> Nat] : Fits(s, n, o, c, a)
  BY DEF Allowed
<1>2. /\ n \in Nat \ {0} /\ n - 1 \in Nat /\ n - 1 <= n /\ SameTo(s, t, n - 1)
      /\ ~Child(s, n) /\ ~Child(t, n) /\ Signalled(t, n) = Signalled(s, n)
      /\ n \in 1 .. n /\ \A k \in 1 .. n : k = n \/ k \in 1 .. n - 1
      /\ \A k \in 0 .. n : k = n \/ k \in 0 .. n - 1
  BY MovesIs
<1>3. /\ a[0] = c + 0 /\ \A k \in 1 .. n - 1 : Room(t, a, k)
      /\ \A k \in 0 .. n - 1 : Grant(t, a, c + 0, k)
  <2>1. 0 \in Nat /\ Raised(a, a, 0, n - 1)
    BY <1>2 DEF Raised
  <2> QED
    BY <1>1, <1>2, <2>1, RoomUnder
<1>4. (Rolled(t, n) <=> Rolled(s, n)) /\ Reports(t, n) = Reports(s, n)
  BY <1>2 DEF Rolled, Reports
<1>5. (Primed(t, n) <=> Primed(s, n)) /\ Debt(t, n) = Debt(s, n)
  <2>1. (Primed(t, n - 1) <=> Primed(s, n - 1)) /\ Debt(t, n - 1) = Debt(s, n - 1)
    BY <1>2 DEF SameTo
  <2> QED
    BY <1>2, <1>4, <2>1, Unfold
<1>6. Room(t, a, n)
  BY <1>1, <1>2, <1>4 DEF Fits, Room
<1>7. Grant(t, a, c, n)
  <2>1. Grant(s, a, c, n) /\ Need(t, n) = Need(s, n)
    BY <1>1, <1>2, <1>5 DEF Fits, Need
  <2> QED
    BY <1>2, <1>5, <2>1 DEF Grant
<1>8. c + 0 = c /\ o <= a[n]
  BY <1>1 DEF Fits
<1> QED
  BY <1>2, <1>3, <1>6, <1>7, <1>8 DEF Allowed, Fits

\* The program's call saw that the file is short.
LEMMA AllowWrite ==
  ASSUME NEW s, NEW t, TopMoves(s, t, 1), NEW o \in Nat, NEW c \in Nat, o < Limit, Limit <= c,
         ~s[1].handler, t[1].at = "write"
  PROVE  Allowed(t, 1, o, c)
<1>1. PICK a \in [Nat -> Nat] : a[0] = c /\ a[1] = c - 1
  <2>1. PICK u \in Nat, d \in [Nat -> Nat], x \in Nat :
          u = c - 1 /\ (\A k \in Nat : d[k] = c) /\ x = 0
    <3>1. [k \in Nat |-> c] \in [Nat -> Nat] /\ c - 1 \in Nat
      BY LoggerAssumption
    <3>2. PICK d \in [Nat -> Nat] : \A k \in Nat : d[k] = c
      BY <3>1
    <3> QED
      BY <3>1, <3>2
  <2>2. PICK a : a = Piece(d, x, 0, u, u)
    OBVIOUS
  <2> QED
    BY <2>1, <2>2 DEF Piece
<1>2. ~Child(t, 1) /\ ~t[1].handler
  BY MovesIs DEF TopMoves
<1>3. /\ Owes(t, 1) = 1 /\ Reports(t, 1) = 0 /\ ~Cutting(t, 1) /\ ~Rolled(t, 1)
      /\ Certain(t, 1) = 1
  BY <1>2 DEF Owes, Reports, Cutting, Rolled, Certain, Early
<1>4. 1 \in Nat \ {0} /\ 1 - 1 = 0
  OBVIOUS
<1>5. ~Primed(t, 0) /\ Debt(t, 0) = 0 /\ Signalled(t, 0) = 0
  BY Unfolded
<1>6. ~Primed(t, 1) /\ Debt(t, 1) = 0 /\ Signalled(t, 1) = 0
  BY <1>2, <1>3, <1>4, <1>5, Unfold
<1>7. Need(t, 0) = 1 /\ Need(t, 1) = 1
  BY <1>5, <1>6 DEF Need
<1>8. Room(t, a, 1)
  BY <1>1, <1>3, <1>4 DEF Room
<1>9. Grant(t, a, c, 0) /\ Grant(t, a, c, 1)
  BY <1>1, <1>5, <1>6, <1>7 DEF Grant
<1>10. o <= a[1]
  BY <1>1, LoggerAssumption
<1>11. 1 .. 1 = {1} /\ 0 .. 1 = {0, 1}
  OBVIOUS
<1> QED
  BY <1>1, <1>8, <1>9, <1>10, <1>11 DEF Allowed, Fits

\* The room that x more lines leave for the call on top.
AtTop(t, n, a, c, x, u) ==
  /\ u + Certain(t, n) + Reports(t, n) <= a[n - 1] + x + (IF Cutting(t, n) THEN Limit ELSE 0)
  /\ u <= c + x /\ c + x + Need(t, n) <= u + 2 + Signalled(t, n) + Debt(t, n)

\* The call on top goes on, with room for what it owes there.
LEMMA AllowTop ==
  ASSUME NEW s, NEW t, NEW n, TopMoves(s, t, n), NEW o \in Nat, NEW c \in Nat, NEW x \in Nat,
         NEW a \in [Nat -> Nat], Fits(s, n, o, c, a), NEW u \in Nat, NEW p \in Nat, p <= u,
         AtTop(t, n, a, c, x, u)
  PROVE  Allowed(t, n, p, c + x)
<1>1. /\ n \in Nat \ {0} /\ n - 1 \in Nat /\ n - 1 <= n /\ SameTo(s, t, n - 1)
      /\ n \in 1 .. n /\ \A k \in 1 .. n : k = n \/ k \in 1 .. n - 1
      /\ \A k \in 0 .. n : k = n \/ k \in 0 .. n - 1
  BY MovesIs
<1>2. PICK e \in [Nat -> Nat] : Raised(a, e, x, n - 1) /\ e[n] = u
  <2>1. PICK e : e = Piece(a, x, n - 1, u, u)
    OBVIOUS
  <2> QED
    BY <1>1, <2>1 DEF Piece, Raised
<1>3. /\ e[0] = c + x /\ \A k \in 1 .. n - 1 : Room(t, e, k)
      /\ \A k \in 0 .. n - 1 : Grant(t, e, c + x, k)
  BY <1>1, <1>2, RoomUnder
<1>4. Room(t, e, n)
  <2>1. e[n - 1] = a[n - 1] + x
    BY <1>1, <1>2 DEF Raised
  <2> QED
    BY <1>2, <2>1 DEF Room, AtTop
<1>5. Grant(t, e, c + x, n)
  BY <1>2 DEF Grant, AtTop
<1> QED
  BY <1>1, <1>2, <1>3, <1>4, <1>5 DEF Allowed, Fits

\* What room there is under the call on top.
LEMMA RoomAt ==
  ASSUME NEW s, NEW n \in Nat \ {0}, NEW o \in Nat, NEW c \in Nat,
         NEW a \in [Nat -> Nat], Fits(s, n, o, c, a)
  PROVE  /\ n - 1 \in Nat /\ a[n] \in Nat /\ a[n - 1] \in Nat
         /\ a[n] + Certain(s, n) + Reports(s, n)
              <= a[n - 1] + (IF Cutting(s, n) THEN Limit ELSE 0)
         /\ o <= a[n] /\ a[n] <= c /\ a[n - 1] <= c
         /\ c + Need(s, n) <= a[n] + 2 + Signalled(s, n) + Debt(s, n)
         /\ c + Need(s, n - 1) <= a[n - 1] + 2 + Signalled(s, n - 1) + Debt(s, n - 1)
         /\ Signalled(s, n) \in Nat /\ Debt(s, n) \in Nat
         /\ Signalled(s, n - 1) \in Nat /\ Debt(s, n - 1) \in Nat
         /\ n = 1 => a[n - 1] = c
<1>1. n \in 1 .. n /\ n \in 0 .. n /\ n - 1 \in 0 .. n /\ n - 1 \in Nat
  OBVIOUS
<1>2. Room(s, a, n) /\ Grant(s, a, c, n) /\ Grant(s, a, c, n - 1) /\ o <= a[n] /\ a[0] = c
  BY <1>1 DEF Fits
<1>3. /\ Signalled(s, n) \in Nat /\ Debt(s, n) \in Nat
      /\ Signalled(s, n - 1) \in Nat /\ Debt(s, n - 1) \in Nat
  BY <1>1, CountsAre
<1> QED
  BY <1>1, <1>2, <1>3 DEF Room, Grant

\* A call sees the file at the limit: when it emptied the file, it has Limit lines more.
LEMMA AllowCut ==
  ASSUME NEW s, NEW t, NEW n, TopMoves(s, t, n), NEW o \in Nat, NEW c \in Nat,
         Allowed(s, n, o, c), s[n].at = "size", t[n].at = "copy"
  PROVE  Allowed(t, n, o, c)
<1>1. PICK a \in [Nat -> Nat] : Fits(s, n, o, c, a)
  BY DEF Allowed
<1>2. /\ n \in Nat \ {0} /\ n - 1 \in Nat /\ SameTo(s, t, n - 1) /\ ~Child(s, n) /\ ~Child(t, n)
  BY MovesIs
<1>3. /\ Cutting(t, n) /\ Reports(t, n) = 1 /\ Owes(t, n) = 1 /\ ~Rolled(t, n) /\ ~Cutting(s, n)
      /\ Reports(s, n) = 0
  BY <1>2 DEF Cutting, Reports, Owes, Rolled
<1>4. Certain(t, n) = 1 /\ Certain(s, n) \in {0, 1}
  BY <1>3, CertainIs
<1>5. /\ Primed(t, n - 1) <=> Primed(s, n - 1)
      /\ Debt(t, n - 1) = Debt(s, n - 1) /\ Signalled(t, n - 1) = Signalled(s, n - 1)
  BY <1>2 DEF SameTo
<1>6. /\ ~Primed(t, n)
      /\ Debt(t, n) = IF Primed(s, n - 1) THEN Debt(s, n - 1) + 1 ELSE Debt(s, n - 1)
      /\ Signalled(t, n) = IF t[n].handler THEN Signalled(s, n - 1) + 1 ELSE Signalled(s, n - 1)
  BY <1>2, <1>3, <1>5, Unfold
<1>7. Need(t, n) = 1
  BY <1>6, CertainIs
<1>8. Signalled(t, n) + Debt(t, n) + Need(s, n - 1) >= Signalled(s, n - 1) + Debt(s, n - 1) + 1
  <2>1. Signalled(s, n - 1) \in Nat /\ Debt(s, n - 1) \in Nat /\ Need(s, n - 1) \in {0, 1}
    BY <1>2, CountsAre, CertainIs
  <2>2. Primed(s, n - 1) \/ Need(s, n - 1) = 1
    BY CertainIs
  <2> QED
    BY <1>6, <2>1, <2>2
<1>9. /\ a[n] \in Nat /\ a[n - 1] \in Nat /\ a[n] + Certain(s, n) <= a[n - 1] /\ o <= a[n]
      /\ a[n] <= c
      /\ c + Need(s, n - 1) <= a[n - 1] + 2 + Signalled(s, n - 1) + Debt(s, n - 1)
  <2>1. a[n] + Certain(s, n) + Reports(s, n) <= a[n - 1] + (IF Cutting(s, n) THEN Limit ELSE 0)
    BY <1>1, <1>2, RoomAt
  <2>2. /\ a[n] \in Nat /\ a[n - 1] \in Nat /\ o <= a[n] /\ a[n] <= c
        /\ c + Need(s, n - 1) <= a[n - 1] + 2 + Signalled(s, n - 1) + Debt(s, n - 1)
    BY <1>1, <1>2, RoomAt
  <2> QED
    BY <1>3, <1>4, <2>1, <2>2
<1>10. /\ Signalled(s, n - 1) \in Nat /\ Debt(s, n - 1) \in Nat /\ Need(s, n - 1) \in {0, 1}
       /\ Signalled(t, n) \in Nat /\ Debt(t, n) \in Nat
  BY <1>2, CountsAre, CertainIs
<1>11. PICK u \in Nat : /\ u + 2 <= a[n - 1] + Limit /\ u <= c /\ o <= u
                        /\ c + 1 <= u + 2 + Signalled(t, n) + Debt(t, n)
  <2>1. CASE a[n - 1] + Limit >= c + 2
    BY <1>4, <1>9, <1>10, <2>1
  <2>2. CASE a[n - 1] + Limit < c + 2
    <3>1. PICK u \in Nat : u = a[n - 1] + Limit - 2
      BY <1>9, LoggerAssumption
    <3>2. u >= a[n - 1] /\ u <= c
      BY <1>9, <2>2, <3>1, LoggerAssumption
    <3>3. u + 2 <= a[n - 1] + Limit
      BY <1>9, <3>1, LoggerAssumption
    <3> QED
      BY <1>4, <1>8, <1>9, <1>10, <3>2, <3>3
  <2> QED
    BY <1>9, <2>1, <2>2, LoggerAssumption
<1>12. u + Certain(t, n) + Reports(t, n) <= a[n - 1] + 0 + (IF Cutting(t, n) THEN Limit ELSE 0)
  BY <1>3, <1>4, <1>9, <1>11, LoggerAssumption
<1>13. /\ u <= c + 0 /\ c + 0 + Need(t, n) <= u + 2 + Signalled(t, n) + Debt(t, n)
       /\ c + 0 = c /\ 0 \in Nat
  BY <1>7, <1>11
<1>14. AtTop(t, n, a, c, 0, u)
  BY <1>12, <1>13 DEF AtTop
<1>15. Allowed(t, n, o, c + 0)
  BY <1>1, <1>11, <1>13, <1>14, AllowTop
<1> QED
  BY <1>13, <1>15

\* The file is emptied, or there is room for Limit lines more.
LEMMA AllowRolled ==
  ASSUME NEW s, NEW t, NEW n, TopMoves(s, t, n), NEW o \in Nat, NEW p \in Nat, NEW c \in Nat,
         NEW x \in Nat, Allowed(s, n, o, c), Cutting(s, n), t[n].at = "banner",
         c >= Limit + Signalled(s, n) + Debt(s, n),
         (p = 0 /\ x = 0) \/ (p <= o /\ x = Limit)
  PROVE  Allowed(t, n, p, c + x)
<1>1. PICK a \in [Nat -> Nat] : Fits(s, n, o, c, a)
  BY DEF Allowed
<1>2. /\ n \in Nat \ {0} /\ n - 1 \in Nat /\ SameTo(s, t, n - 1) /\ ~Child(s, n) /\ ~Child(t, n)
      /\ Signalled(t, n) = Signalled(s, n)
  BY MovesIs
<1>3. /\ ~Cutting(t, n) /\ Reports(t, n) = 1 /\ Owes(t, n) = 1 /\ Rolled(t, n) /\ ~Rolled(s, n)
      /\ Reports(s, n) = 1 /\ Owes(s, n) = 1 /\ s[n].at \in {"copy", "truncate"}
  BY <1>2 DEF Cutting, Reports, Owes, Rolled
<1>4. Certain(t, n) = 1 /\ Certain(s, n) = 1
  BY <1>3, CertainIs
<1>5. (Primed(t, n - 1) <=> Primed(s, n - 1)) /\ Debt(t, n - 1) = Debt(s, n - 1)
  BY <1>2 DEF SameTo
<1>6. /\ Primed(t, n) /\ Debt(t, n) = Debt(s, n)
      /\ Debt(s, n) = IF Primed(s, n - 1) THEN Debt(s, n - 1) + 1 ELSE Debt(s, n - 1)
      /\ Signalled(s, n) = IF s[n].handler THEN Signalled(s, n - 1) + 1 ELSE Signalled(s, n - 1)
  BY <1>2, <1>3, <1>5, Unfold
<1>7. Need(t, n) = 0
  BY <1>2, <1>6, CertainIs
<1>8. /\ a[n] \in Nat /\ a[n - 1] \in Nat /\ a[n] + 2 <= a[n - 1] + Limit /\ o <= a[n]
      /\ a[n - 1] <= c /\ (n = 1 => a[n - 1] = c)
  <2>1. a[n] + Certain(s, n) + Reports(s, n) <= a[n - 1] + (IF Cutting(s, n) THEN Limit ELSE 0)
    BY <1>1, <1>2, RoomAt
  <2>2. a[n] \in Nat /\ a[n - 1] \in Nat /\ o <= a[n] /\ a[n - 1] <= c /\ (n = 1 => a[n - 1] = c)
    BY <1>1, <1>2, RoomAt
  <2> QED
    BY <1>3, <1>4, <2>1, <2>2, LoggerAssumption
<1>9. /\ c + Need(s, n - 1) <= a[n - 1] + 2 + Signalled(s, n - 1) + Debt(s, n - 1)
      /\ Signalled(s, n - 1) \in Nat /\ Debt(s, n - 1) \in Nat
      /\ Signalled(s, n) \in Nat /\ Debt(s, n) \in Nat
  BY <1>1, <1>2, RoomAt
<1>10. c <= a[n - 1] + Signalled(s, n) + Debt(s, n)
  <2>1. Need(s, n - 1) \in {0, 1}
    BY CertainIs
  <2>2. CASE s[n].handler
    <3>1. Primed(s, n - 1) \/ Need(s, n - 1) = 1
      BY CertainIs
    <3> QED
      BY <1>6, <1>8, <1>9, <2>1, <2>2, <3>1
  <2>3. CASE ~s[n].handler /\ n > 1
    <3>1. n - 1 \in Nat \ {0} /\ (n - 1) + 1 = n /\ n \in 1 .. n /\ n - 1 \in 1 .. n - 1
      BY <1>2, <2>3
    <3>2. Child(s, n - 1)
      BY <2>3, <3>1 DEF Child, TopMoves
    <3>3. Primed(s, n - 1)
      BY <3>1, <3>2, Unfold DEF Rolled
    <3>4. Need(s, n - 1) = 1
      BY <3>2, CertainIs
    <3> QED
      BY <1>6, <1>8, <1>9, <2>3, <3>3, <3>4
  <2>4. CASE n = 1
    BY <1>8, <1>9, <2>4
  <2> QED
    BY <1>2, <2>2, <2>3, <2>4
<1>11. PICK u \in Nat : u + 2 = a[n - 1] + x
  <2>1. CASE x = 0
    <3>1. a[n - 1] >= Limit
      BY <1>8, <1>9, <1>10, LoggerAssumption
    <3>2. a[n - 1] - 2 \in Nat /\ (a[n - 1] - 2) + 2 = a[n - 1] + x
      BY <1>8, <2>1, <3>1, LoggerAssumption
    <3> QED
      BY <3>2
  <2>2. CASE x = Limit
    <3>1. a[n - 1] + Limit - 2 \in Nat
      BY <1>8, LoggerAssumption
    <3> QED
      BY <1>8, <2>2, <3>1, LoggerAssumption
  <2> QED
    BY <2>1, <2>2
<1>12. p <= u
  BY <1>8, <1>11, LoggerAssumption
<1>13. u + Certain(t, n) + Reports(t, n) <= a[n - 1] + x + (IF Cutting(t, n) THEN Limit ELSE 0)
  BY <1>3, <1>4, <1>8, <1>11, LoggerAssumption
<1>14. u <= c + x /\ c + x + Need(t, n) <= u + 2 + Signalled(t, n) + Debt(t, n)
  BY <1>2, <1>6, <1>7, <1>8, <1>9, <1>10, <1>11
<1>15. AtTop(t, n, a, c, x, u)
  BY <1>13, <1>14 DEF AtTop
<1> QED
  BY <1>1, <1>11, <1>12, <1>15, AllowTop

\* The rollback on top makes its report.
LEMMA AllowTold ==
  ASSUME NEW s, NEW t, NEW n, Told(s, t, n), NEW o \in Nat, NEW c \in Nat, Allowed(s, n, o, c)
  PROVE  Allowed(t, n + 1, o, c)
<1>1. PICK a \in [Nat -> Nat] : Fits(s, n, o, c, a)
  BY DEF Allowed
<1>2. /\ n \in Nat \ {0} /\ SameTo(s, t, n - 1) /\ ~Child(s, n) /\ Child(t, n)
      /\ ~Child(t, n + 1) /\ Debt(t, n) = Debt(s, n) /\ Debt(t, n + 1) = Debt(s, n)
      /\ Signalled(t, n) = Signalled(s, n) /\ Signalled(t, n + 1) = Signalled(s, n)
      /\ Primed(s, n) /\ Primed(t, n + 1)
      /\ ~Cutting(s, n) /\ ~Cutting(t, n) /\ ~Cutting(t, n + 1)
  BY ToldIs
<1>3. s[n].at = "banner" /\ t[n].at = "write" /\ t[n + 1].at = "enter"
  BY DEF Told
<1>4. Certain(s, n) = 1 /\ Reports(s, n) = 1 /\ Certain(t, n) = 1 /\ Reports(t, n) = 0
  BY <1>3, CertainIs DEF Owes, Reports, Cutting
<1>5. Certain(t, n + 1) \in {0, 1} /\ Reports(t, n + 1) = 0
  BY <1>3, CertainIs
<1>6. Need(s, n) = 0 /\ Need(t, n) = 1 /\ Need(t, n + 1) = 0
  BY <1>2, CertainIs
<1>7. /\ a[n] \in Nat /\ a[n - 1] \in Nat /\ n - 1 \in Nat /\ a[n] + 2 <= a[n - 1] /\ o <= a[n]
      /\ a[n] <= c /\ a[n - 1] <= c /\ c <= a[n] + 2 + Signalled(s, n) + Debt(s, n)
      /\ Signalled(s, n) \in Nat /\ Debt(s, n) \in Nat
  <2>1. a[n] + Certain(s, n) + Reports(s, n) <= a[n - 1] + (IF Cutting(s, n) THEN Limit ELSE 0)
    BY <1>1, <1>2, RoomAt
  <2>2. /\ a[n] \in Nat /\ a[n - 1] \in Nat /\ n - 1 \in Nat /\ o <= a[n] /\ a[n] <= c
        /\ a[n - 1] <= c /\ c + Need(s, n) <= a[n] + 2 + Signalled(s, n) + Debt(s, n)
        /\ Signalled(s, n) \in Nat /\ Debt(s, n) \in Nat
    BY <1>1, <1>2, RoomAt
  <2> QED
    BY <1>2, <1>4, <1>6, <2>1, <2>2
<1>8. PICK e \in [Nat -> Nat] : /\ Raised(a, e, 0, n - 1)
                               /\ e[n] = a[n] + 1 /\ e[n + 1] = a[n]
  <2>1. PICK u \in Nat, v \in Nat, x \in Nat : u = a[n] + 1 /\ v = a[n] /\ x = 0
    BY <1>7
  <2>2. PICK e : e = Piece(a, x, n - 1, u, v)
    OBVIOUS
  <2> QED
    BY <1>2, <2>1, <2>2 DEF Piece, Raised
<1>9. /\ e[0] = c + 0 /\ \A k \in 1 .. n - 1 : Room(t, e, k)
      /\ \A k \in 0 .. n - 1 : Grant(t, e, c + 0, k)
  <2>1. n - 1 <= n /\ 0 \in Nat
    BY <1>2
  <2> QED
    BY <1>1, <1>2, <1>7, <1>8, <2>1, RoomUnder
<1>10. e[n - 1] = a[n - 1] /\ (n + 1) - 1 = n /\ c + 0 = c
  BY <1>2, <1>7, <1>8 DEF Raised
<1>11. Room(t, e, n) /\ Room(t, e, n + 1)
  BY <1>2, <1>4, <1>5, <1>7, <1>8, <1>10 DEF Room
<1>12. Grant(t, e, c, n) /\ Grant(t, e, c, n + 1)
  BY <1>2, <1>6, <1>7, <1>8 DEF Grant
<1>13. /\ \A k \in 1 .. n + 1 : k = n + 1 \/ k = n \/ k \in 1 .. n - 1
       /\ \A k \in 0 .. n + 1 : k = n + 1 \/ k = n \/ k \in 0 .. n - 1
  BY <1>2
<1> QED
  BY <1>7, <1>8, <1>9, <1>10, <1>11, <1>12, <1>13 DEF Allowed, Fits

\* The call on top writes its line, and gives the lock back later.
LEMMA AllowUnlock ==
  ASSUME NEW s, NEW t, NEW n, TopMoves(s, t, n), NEW o \in Nat, NEW p \in Nat, NEW c \in Nat,
         p <= o + 1, Allowed(s, n, o, c), s[n].at = "write", t[n].at = "unlock"
  PROVE  Allowed(t, n, p, c)
<1>1. PICK a \in [Nat -> Nat] : Fits(s, n, o, c, a)
  BY DEF Allowed
<1>2. /\ n \in Nat \ {0} /\ SameTo(s, t, n - 1) /\ ~Child(s, n) /\ ~Child(t, n)
      /\ Signalled(t, n) = Signalled(s, n) /\ n - 1 \in Nat
  BY MovesIs
<1>3. /\ ~Cutting(s, n) /\ ~Cutting(t, n) /\ ~Rolled(s, n) /\ ~Rolled(t, n)
      /\ Reports(s, n) = 0 /\ Reports(t, n) = 0 /\ Certain(s, n) = 1 /\ Certain(t, n) = 0
  BY <1>2, CertainIs DEF Cutting, Rolled, Reports, Owes
<1>4. (Primed(t, n) <=> Primed(s, n)) /\ Debt(t, n) = Debt(s, n)
  <2>1. (Primed(t, n - 1) <=> Primed(s, n - 1)) /\ Debt(t, n - 1) = Debt(s, n - 1)
    BY <1>2 DEF SameTo
  <2> QED
    BY <1>2, <1>3, <2>1, Unfold
<1>5. Need(t, n) = Need(s, n) /\ Need(s, n) \in {0, 1}
  BY <1>2, <1>4, CertainIs DEF Need
<1>6. /\ a[n] \in Nat /\ a[n - 1] \in Nat /\ o <= a[n] /\ a[n] <= c /\ a[n - 1] <= c
      /\ c + Need(s, n) <= a[n] + 2 + Signalled(s, n) + Debt(s, n)
      /\ Signalled(s, n) \in Nat /\ Debt(s, n) \in Nat
  BY <1>1, <1>2, RoomAt
<1>7. a[n] + 1 <= a[n - 1]
  <2>1. a[n] + Certain(s, n) + Reports(s, n) <= a[n - 1] + (IF Cutting(s, n) THEN Limit ELSE 0)
    BY <1>1, <1>2, RoomAt
  <2> QED
    BY <1>3, <1>6, <2>1
<1>8. /\ a[n] + 1 \in Nat /\ p <= a[n] + 1 /\ a[n] + 1 <= c + 0 /\ 0 \in Nat /\ c + 0 = c
      /\ c + 0 + Need(t, n) <= a[n] + 1 + 2 + Signalled(t, n) + Debt(t, n)
      /\ a[n] + 1 + Certain(t, n) + Reports(t, n)
           <= a[n - 1] + 0 + (IF Cutting(t, n) THEN Limit ELSE 0)
  BY <1>2, <1>3, <1>4, <1>5, <1>6, <1>7
<1>9. PICK u \in Nat : u = a[n] + 1
  BY <1>8
<1>10. AtTop(t, n, a, c, 0, u) /\ p <= u
  BY <1>8, <1>9 DEF AtTop
<1>11. Allowed(t, n, p, c + 0)
  <2>1. 0 \in Nat
    OBVIOUS
  <2> QED
    BY <1>1, <1>10, <2>1, AllowTop
<1> QED
  BY <1>8, <1>11

\* The call on top returns: it writes its line last, if it has no lock.
LEMMA AllowReturn ==
  ASSUME NEW s, NEW t, NEW n, Returns(s, t, n), NEW o \in Nat, NEW p \in Nat, NEW c \in Nat,
         Allowed(s, n, o, c), Waiting(s, n), ~Cutting(s, n), s[n].at # "banner",
         p <= o \/ (s[n].at = "write" /\ p <= o + 1)
  PROVE  Allowed(t, n - 1, p, c)
<1>1. PICK a \in [Nat -> Nat] : Fits(s, n, o, c, a)
  BY DEF Allowed
<1>2. n \in Nat \ {0} /\ ~Child(s, n) /\ n - 1 \in Nat
  BY ReturnsIs
<1>3. p <= a[n - 1]
  <2>1. a[n] + Certain(s, n) + Reports(s, n) <= a[n - 1] + (IF Cutting(s, n) THEN Limit ELSE 0)
    BY <1>1, <1>2, RoomAt
  <2>2. a[n] \in Nat /\ a[n - 1] \in Nat /\ o <= a[n]
    BY <1>1, <1>2, RoomAt
  <2>3. Certain(s, n) \in {0, 1} /\ Reports(s, n) \in {0, 1}
    BY CertainIs
  <2>4. s[n].at = "write" => Certain(s, n) = 1
    BY CertainIs DEF Owes
  <2> QED
    BY <2>1, <2>2, <2>3, <2>4
<1>4. CASE n = 1
  <2>1. a[0] = c /\ 1 .. 0 = {} /\ 0 .. 0 = {0}
    BY <1>1 DEF Fits
  <2>2. Grant(s, a, c, 0)
    BY <1>1, <1>2 DEF Fits
  <2>3. Grant(t, a, c, 0)
    BY <2>2, Unfolded DEF Grant, Need
  <2> QED
    BY <1>3, <1>4, <2>1, <2>3 DEF Allowed, Fits
<1>5. CASE n > 1
  <2>1. /\ SameTo(s, t, n - 2) /\ ~Child(t, n - 1) /\ t[n - 1] = s[n - 1]
        /\ Child(s, n - 1) <=> ~s[n].handler
        /\ n - 2 \in Nat /\ n - 2 <= n /\ n - 1 \in Nat \ {0} /\ (n - 1) - 1 = n - 2
        /\ n - 1 \in 1 .. n /\ n - 1 \in 0 .. n
    BY <1>2, <1>5, ReturnsIs
  <2>2. /\ a[0] = c + 0 /\ \A k \in 1 .. n - 2 : Room(t, a, k)
        /\ \A k \in 0 .. n - 2 : Grant(t, a, c + 0, k)
    <3>1. Raised(a, a, 0, n - 2) /\ 0 \in Nat
      BY <2>1 DEF Raised
    <3> QED
      BY <1>1, <1>2, <2>1, <3>1, RoomUnder
  <2>3. /\ Cutting(t, n - 1) <=> Cutting(s, n - 1)
        /\ Reports(t, n - 1) = Reports(s, n - 1) /\ Owes(t, n - 1) = Owes(s, n - 1)
    BY <2>1 DEF Cutting, Reports, Owes
  <2>4. Certain(t, n - 1) = Certain(s, n - 1)
    BY <2>1, <2>3 DEF Certain, Early
  <2>5. Room(t, a, n - 1)
    <3>1. Room(s, a, n - 1)
      BY <1>1, <2>1 DEF Fits
    <3> QED
      BY <2>3, <2>4, <3>1 DEF Room
  <2>6. /\ Primed(t, n - 2) <=> Primed(s, n - 2)
        /\ Debt(t, n - 2) = Debt(s, n - 2) /\ Signalled(t, n - 2) = Signalled(s, n - 2)
    BY <2>1 DEF SameTo
  <2>7. Signalled(t, n - 1) = Signalled(s, n - 1)
    BY <2>1, <2>6, Unfold
  <2>8. Grant(t, a, c, n - 1)
    <3>1. Grant(s, a, c, n - 1) /\ a[n - 1] \in Nat
      BY <1>1, <2>1 DEF Fits
    <3>2. CASE s[n].handler
      <4>1. Rolled(t, n - 1) <=> Rolled(s, n - 1)
        BY <2>1, <3>2 DEF Rolled
      <4>2. (Primed(t, n - 1) <=> Primed(s, n - 1)) /\ Debt(t, n - 1) = Debt(s, n - 1)
        BY <2>1, <2>3, <2>6, <4>1, Unfold
      <4>3. Need(t, n - 1) = Need(s, n - 1)
        BY <2>1, <3>2, <4>2 DEF Need
      <4> QED
        BY <2>7, <3>1, <4>2, <4>3 DEF Grant
    <3>3. CASE ~s[n].handler
      <4>1. Child(s, n - 1) /\ s[n - 1].at = "write"
        BY <2>1, <3>3 DEF Waiting
      <4>2. /\ Rolled(s, n - 1) /\ ~Rolled(t, n - 1) /\ ~Cutting(s, n - 1) /\ ~Cutting(t, n - 1)
        BY <2>1, <4>1 DEF Rolled, Cutting
      <4>3. /\ Debt(s, n - 1) = IF Primed(s, n - 2) THEN Debt(s, n - 2) + 1 ELSE Debt(s, n - 2)
            /\ Debt(t, n - 1) = Debt(s, n - 2) /\ (Primed(t, n - 1) <=> Primed(s, n - 2))
        BY <2>1, <2>6, <4>2, Unfold
      <4>4. Need(s, n - 1) = 1 /\ Need(t, n - 1) = IF Primed(s, n - 2) THEN 0 ELSE 1
        BY <2>1, <4>1, <4>3 DEF Need
      <4>5. Debt(s, n - 2) \in Nat /\ Signalled(s, n - 1) \in Nat
        BY <2>1, CountsAre
      <4> QED
        BY <2>7, <3>1, <4>3, <4>4, <4>5 DEF Grant
    <3> QED
      BY <3>2, <3>3
  <2>9. /\ \A k \in 1 .. n - 1 : k = n - 1 \/ k \in 1 .. n - 2
        /\ \A k \in 0 .. n - 1 : k = n - 1 \/ k \in 0 .. n - 2
        /\ c + 0 = c
    BY <2>1
  <2> QED
    BY <1>3, <2>2, <2>5, <2>8, <2>9 DEF Allowed, Fits
<1> QED
  BY <1>2, <1>4, <1>5

\* A handler is called, and x more lines are allowed; or the program calls.
LEMMA AllowCalled ==
  ASSUME NEW s, NEW t, NEW n, Called(s, t, n), NEW o \in Nat, NEW c \in Nat, NEW x \in Nat,
         Allowed(s, n, o, c), t[n + 1].handler => x >= 1
  PROVE  Allowed(t, n + 1, o, c + x)
<1>1. PICK a \in [Nat -> Nat] : Fits(s, n, o, c, a)
  BY DEF Allowed
<1>2. /\ n \in Nat /\ SameTo(s, t, n) /\ (n > 0 => ~Child(s, n)) /\ ~Child(t, n + 1)
      /\ n + 1 \in Nat \ {0} /\ (n + 1) - 1 = n /\ n \in 0 .. n
      /\ t[n + 1].at = "enter" /\ t[n + 1].handler \in BOOLEAN /\ (t[n + 1].handler \/ n = 0)
  <2>1. /\ n \in Nat /\ SameTo(s, t, n) /\ (n > 0 => ~Child(s, n)) /\ ~Child(t, n + 1)
    BY CalledIs
  <2>2. t[n + 1].at = "enter" /\ t[n + 1].handler \in BOOLEAN /\ (t[n + 1].handler \/ n = 0)
    BY DEF Called
  <2> QED
    BY <2>1, <2>2
<1>3. /\ Reports(t, n + 1) = 0 /\ ~Cutting(t, n + 1) /\ ~Rolled(t, n + 1)
      /\ Certain(t, n + 1) = IF t[n + 1].handler THEN 1 ELSE 0
  BY <1>2 DEF Reports, Cutting, Rolled, Certain, Early, Owes
<1>4. /\ Primed(t, n) <=> Primed(s, n)
      /\ Debt(t, n) = Debt(s, n) /\ Signalled(t, n) = Signalled(s, n)
  BY <1>2 DEF SameTo
<1>5. /\ Primed(t, n + 1) <=> Primed(s, n)
      /\ Debt(t, n + 1) = Debt(s, n)
      /\ Signalled(t, n + 1) = IF t[n + 1].handler THEN Signalled(s, n) + 1 ELSE Signalled(s, n)
  BY <1>2, <1>3, <1>4, Unfold
<1>6. Grant(s, a, c, n) /\ a[n] \in Nat /\ o <= a[n] /\ a[0] = c
  BY <1>1, <1>2 DEF Fits
<1>7. Debt(s, n) \in Nat /\ Signalled(s, n) \in Nat /\ Need(s, n) \in {0, 1}
  BY <1>2, CountsAre, CertainIs
<1>8. Need(t, n + 1) <= Need(s, n)
  <2>1. n = 0 => ~Primed(s, n)
    BY Unfolded
  <2> QED
    BY <1>2, <1>5, <2>1 DEF Need
<1>9. Need(t, n + 1) \in {0, 1}
  BY CertainIs
<1>10. PICK u \in Nat : u + (IF t[n + 1].handler THEN 1 ELSE 0) = a[n] + x
  <2>1. CASE t[n + 1].handler
    <3>1. a[n] + x - 1 \in Nat /\ (a[n] + x - 1) + 1 = a[n] + x
      BY <1>6, <2>1
    <3> QED
      BY <2>1, <3>1
  <2>2. CASE ~t[n + 1].handler
    <3>1. a[n] + x \in Nat
      BY <1>6
    <3> QED
      BY <2>2, <3>1
  <2> QED
    BY <2>1, <2>2
<1>11. PICK e \in [Nat -> Nat] : Raised(a, e, x, n) /\ e[n + 1] = u
  <2>1. PICK e : e = Piece(a, x, n, u, u)
    OBVIOUS
  <2> QED
    BY <1>2, <2>1 DEF Piece, Raised
<1>12. /\ e[0] = c + x /\ \A k \in 1 .. n : Room(t, e, k)
       /\ \A k \in 0 .. n : Grant(t, e, c + x, k)
  <2>1. n <= n
    BY <1>2
  <2> QED
    BY <1>1, <1>2, <1>11, <2>1, RoomUnder
<1>13. e[n] = a[n] + x
  BY <1>2, <1>11 DEF Raised
<1>14. Room(t, e, n + 1)
  BY <1>2, <1>3, <1>6, <1>10, <1>11, <1>13 DEF Room
<1>15. Grant(t, e, c + x, n + 1)
  <2>1. a[n] <= c /\ c + Need(s, n) <= a[n] + 2 + Signalled(s, n) + Debt(s, n)
    BY <1>6 DEF Grant
  <2> QED
    BY <1>5, <1>6, <1>7, <1>8, <1>9, <1>10, <1>11, <2>1 DEF Grant
<1>16. o <= e[n + 1]
  BY <1>2, <1>6, <1>10, <1>11
<1>17. /\ \A k \in 1 .. n + 1 : k = n + 1 \/ k \in 1 .. n
       /\ \A k \in 0 .. n + 1 : k = n + 1 \/ k \in 0 .. n
  BY <1>2
<1> QED
  BY <1>12, <1>14, <1>15, <1>16, <1>17 DEF Allowed, Fits

-----------------------------------------------------------------------------
(* What there is to pay with.                                               *)

\* r: the lines of the others, g: the signals, u: the truncates that failed.
Budget(r, g, u) == r + g + Limit * u
Ceiling(r, g, u) == Limit + g + Limit * u + (r + g) \div Limit

\* What is less Limit times is less.
LEMMA Cancel ==
  ASSUME NEW x \in Nat, NEW y \in Nat, Limit * x < Limit * y + Limit
  PROVE  x <= y
<1> SUFFICES ASSUME x > y PROVE FALSE
  OBVIOUS
<1>1. PICK z \in Nat : x = (y + 1) + z
  <2>1. x - (y + 1) \in Nat /\ x = (y + 1) + (x - (y + 1))
    OBVIOUS
  <2> QED
    BY <2>1
<1>2. Limit \in Nat /\ Limit * x = Limit * (y + 1) + Limit * z
  BY <1>1, LoggerAssumption
<1>3. Limit * (y + 1) = Limit * y + Limit /\ Limit * z \in Nat /\ Limit * y \in Nat
  BY TimesLimit
<1> QED
  BY <1>2, <1>3

\* How often Limit lines are there.
LEMMA Division ==
  ASSUME NEW a \in Nat
  PROVE  /\ a \div Limit \in Nat /\ Limit * (a \div Limit) \in Nat
         /\ Limit * (a \div Limit) <= a /\ a < Limit * (a \div Limit) + Limit
<1>1. Limit \in Nat /\ Limit > 0
  BY LoggerAssumption
<1>2. a \div Limit \in Nat
  BY <1>1
<1>3. a = Limit * (a \div Limit) + (a % Limit) /\ a % Limit \in 0 .. Limit - 1
  BY <1>1
<1> QED
  BY <1>1, <1>2, <1>3

LEMMA CeilingIs ==
  ASSUME NEW r \in Nat, NEW g \in Nat, NEW u \in Nat
  PROVE  Ceiling(r, g, u) \in Nat /\ Limit <= Ceiling(r, g, u)
<1>1. Limit * u \in Nat /\ Limit \in Nat
  BY TimesLimit
<1>2. r + g \in Nat /\ (r + g) \div Limit \in Nat
  BY Division
<1> QED
  BY <1>1, <1>2 DEF Ceiling

\* More lines of others, more signals: more is allowed.
LEMMA CeilingGrows ==
  ASSUME NEW r \in Nat, NEW g \in Nat, NEW u \in Nat, NEW r2 \in Nat, NEW g2 \in Nat,
         r <= r2, g <= g2
  PROVE  Ceiling(r, g, u) + g2 <= Ceiling(r2, g2, u) + g
<1>1. PICK v \in Nat : v = Limit * u
  BY TimesLimit
<1>2. PICK z \in Nat : /\ z = (r + g) \div Limit
                       /\ Limit * z \in Nat /\ Limit * z <= r + g
  <2>1. r + g \in Nat
    OBVIOUS
  <2> QED
    BY <2>1, Division
<1>3. PICK z2 \in Nat : /\ z2 = (r2 + g2) \div Limit
                        /\ Limit * z2 \in Nat /\ r2 + g2 < Limit * z2 + Limit
  <2>1. r2 + g2 \in Nat
    OBVIOUS
  <2> QED
    BY <2>1, Division
<1>4. z <= z2
  <2>1. Limit * z < Limit * z2 + Limit
    BY <1>2, <1>3, LoggerAssumption
  <2> QED
    BY <2>1, Cancel
<1>5. Ceiling(r, g, u) = Limit + g + v + z /\ Ceiling(r2, g2, u) = Limit + g2 + v + z2
  BY <1>1, <1>2, <1>3 DEF Ceiling
<1> QED
  BY <1>4, <1>5, LoggerAssumption

\* A truncate that failed leaves Limit lines.
LEMMA CeilingCut ==
  ASSUME NEW r \in Nat, NEW g \in Nat, NEW u \in Nat
  PROVE  /\ Ceiling(r, g, u + 1) = Ceiling(r, g, u) + Limit
         /\ Budget(r, g, u) \in Nat /\ Budget(r, g, u + 1) = Budget(r, g, u) + Limit
<1>1. Limit * (u + 1) = Limit * u + Limit /\ Limit * u \in Nat /\ Limit \in Nat
  BY TimesLimit
<1>2. r + g \in Nat /\ (r + g) \div Limit \in Nat
  BY Division
<1> QED
  BY <1>1, <1>2 DEF Ceiling, Budget

\* What is paid for is covered.
LEMMA Covered ==
  ASSUME NEW r \in Nat, NEW g \in Nat, NEW u \in Nat, NEW y \in Nat,
         Limit * y <= Budget(r, g, u)
  PROVE  y <= u + (r + g) \div Limit /\ Limit + g + y <= Ceiling(r, g, u)
<1>1. PICK z \in Nat : /\ z = (r + g) \div Limit
                       /\ Limit * z \in Nat /\ r + g < Limit * z + Limit
  <2>1. r + g \in Nat
    OBVIOUS
  <2> QED
    BY <2>1, Division
<1>2. Limit \in Nat /\ Limit * u \in Nat /\ Limit * (u + z) = Limit * u + Limit * z /\ u + z \in Nat
  BY TimesLimit
<1>3. Limit * y < Limit * (u + z) + Limit
  <2>1. Limit * y \in Nat
    BY TimesLimit
  <2> QED
    BY <1>1, <1>2, <2>1 DEF Budget
<1>4. y <= u + z
  BY <1>2, <1>3, Cancel
<1>5. u <= Limit * u
  BY TimesLimit, LoggerAssumption
<1>6. Limit + g + y <= Limit + g + Limit * u + z
  BY <1>2, <1>4, <1>5
<1> QED
  BY <1>1, <1>4, <1>6 DEF Ceiling

-----------------------------------------------------------------------------
(* A stack that is paid for, step by step.                                  *)

\* f: what fills the file, o: the own lines in it.
Sound(s, n, f, o, r, g, u) ==
  /\ Waiting(s, n) /\ Signalled(s, n) <= g
  /\ Afforded(s, n, f, Budget(r, g, u)) /\ Allowed(s, n, o, Ceiling(r, g, u))

\* Another process goes on.
LEMMA SoundBeside ==
  ASSUME NEW s, NEW n \in Nat, NEW f \in Nat, NEW h \in Nat, NEW o \in Nat, NEW p \in Nat,
         NEW r \in Nat, NEW g \in Nat, NEW u \in Nat, NEW r2 \in Nat, NEW g2 \in Nat,
         Sound(s, n, f, o, r, g, u), r <= r2, g <= g2, p <= o,
         Capped(h) + r + g <= Capped(f) + r2 + g2
  PROVE  Sound(s, n, h, p, r2, g2, u)
<1>1. Waiting(s, n) /\ Signalled(s, n) <= g2
  <2>1. Signalled(s, n) \in Nat /\ Signalled(s, n) <= g
    BY CountsAre DEF Sound
  <2> QED
    BY <2>1 DEF Sound
<1>2. PICK y \in Nat : Ceiling(r2, g2, u) = Ceiling(r, g, u) + y
  <2>1. /\ Ceiling(r, g, u) \in Nat /\ Ceiling(r2, g2, u) \in Nat
        /\ Ceiling(r, g, u) + g2 <= Ceiling(r2, g2, u) + g
    BY CeilingIs, CeilingGrows
  <2>2. /\ Ceiling(r2, g2, u) - Ceiling(r, g, u) \in Nat
        /\ Ceiling(r2, g2, u) = Ceiling(r, g, u) + (Ceiling(r2, g2, u) - Ceiling(r, g, u))
    BY <2>1
  <2> QED
    BY <2>2
<1>3. Allowed(s, n, p, Ceiling(r, g, u) + y)
  <2>1. Ceiling(r, g, u) \in Nat /\ Allowed(s, n, o, Ceiling(r, g, u)) /\ p <= o + y
    BY CeilingIs DEF Sound
  <2> QED
    BY <2>1, AllowMore
<1>4. PICK x \in Nat : r2 + g2 = r + g + x
  <2>1. (r2 - r) + (g2 - g) \in Nat /\ r2 + g2 = r + g + ((r2 - r) + (g2 - g))
    OBVIOUS
  <2> QED
    BY <2>1
<1>5. Budget(r2, g2, u) = Budget(r, g, u) + x
  BY <1>4, TimesLimit DEF Budget
<1>6. Afforded(s, n, h, Budget(r, g, u) + x)
  <2>1. Budget(r, g, u) \in Nat /\ Afforded(s, n, f, Budget(r, g, u))
    BY CeilingCut DEF Sound
  <2>2. Capped(h) <= Capped(f) + x
    BY <1>4, CappedIs
  <2> QED
    BY <2>1, <2>2, AffordMore
<1> QED
  BY <1>1, <1>2, <1>3, <1>5, <1>6 DEF Sound

\* The call on top goes on: the others wait.
LEMMA WaitMoves ==
  ASSUME NEW s, NEW t, NEW n, TopMoves(s, t, n), Waiting(s, n)
  PROVE  Waiting(t, n) /\ Signalled(t, n) = Signalled(s, n)
<1>1. n \in Nat \ {0} /\ SameTo(s, t, n - 1) /\ ~Child(t, n) /\ Signalled(t, n) = Signalled(s, n)
  BY MovesIs
<1>2. ASSUME NEW k \in 1 .. n, Child(t, k) PROVE t[k].at = "write"
  <2>1. k \in 1 .. n - 1
    BY <1>1, <1>2
  <2>2. t[k] = s[k] /\ Child(s, k)
    BY <1>1, <1>2, <2>1 DEF SameTo
  <2> QED
    BY <2>2 DEF Waiting
<1> QED
  BY <1>1, <1>2 DEF Waiting

LEMMA SoundMove ==
  ASSUME NEW s, NEW t, NEW n, TopMoves(s, t, n), NEW f \in Nat, NEW o \in Nat,
         NEW r \in Nat, NEW g \in Nat, NEW u \in Nat, Sound(s, n, f, o, r, g, u),
         Cutting(t, n) <=> Cutting(s, n), t[n].at = "banner" <=> s[n].at = "banner",
         t[n].at = "unlock" <=> s[n].at = "unlock",
         \/ Certain(t, n) = Certain(s, n)
         \/ n = 1 /\ ~s[1].handler /\ t[1].at = "write" /\ o < Limit
  PROVE  Sound(t, n, f, o, r, g, u)
<1>1. Waiting(t, n) /\ Signalled(t, n) <= g
  BY WaitMoves DEF Sound
<1>2. Budget(r, g, u) \in Nat /\ Ceiling(r, g, u) \in Nat /\ Limit <= Ceiling(r, g, u)
  BY CeilingCut, CeilingIs
<1>3. Capped(f) <= Capped(f)
  BY CappedIs
<1>4. Afforded(t, n, f, Budget(r, g, u))
  BY <1>2, <1>3, AffordMove DEF Sound
<1>5. Allowed(t, n, o, Ceiling(r, g, u))
  <2>1. CASE Certain(t, n) = Certain(s, n)
    BY <1>2, <2>1, AllowMove DEF Sound
  <2>2. CASE n = 1 /\ ~s[1].handler /\ t[1].at = "write" /\ o < Limit
    BY <1>2, <2>2, AllowWrite
  <2> QED
    BY <2>1, <2>2
<1> QED
  BY <1>1, <1>4, <1>5 DEF Sound

\* The file is at the limit.
LEMMA SoundCut ==
  ASSUME NEW s, NEW t, NEW n, TopMoves(s, t, n), NEW f \in Nat, NEW o \in Nat,
         NEW r \in Nat, NEW g \in Nat, NEW u \in Nat, Sound(s, n, f, o, r, g, u),
         Limit <= f, s[n].at = "size", t[n].at = "copy"
  PROVE  Sound(t, n, f, o, r, g, u)
<1>1. Waiting(t, n) /\ Signalled(t, n) <= g
  BY WaitMoves DEF Sound
<1>2. Budget(r, g, u) \in Nat /\ Ceiling(r, g, u) \in Nat
  BY CeilingCut, CeilingIs
<1>3. Afforded(t, n, f, Budget(r, g, u))
  BY <1>2, AffordCut DEF Sound
<1>4. Allowed(t, n, o, Ceiling(r, g, u))
  BY <1>2, AllowCut DEF Sound
<1> QED
  BY <1>1, <1>3, <1>4 DEF Sound

\* The rollbacks over rollbacks are covered, and so are the handlers.
LEMMA SoundCovers ==
  ASSUME NEW s, NEW n \in Nat \ {0}, DOMAIN s = 1 .. n, NEW f \in Nat, NEW o \in Nat,
         NEW r \in Nat, NEW g \in Nat, NEW u \in Nat, Sound(s, n, f, o, r, g, u)
  PROVE  /\ Debt(s, n) <= u + (r + g) \div Limit
         /\ Ceiling(r, g, u) >= Limit + Signalled(s, n) + Debt(s, n)
<1>1. ~Child(s, n) /\ n \in 1 .. n
  BY DEF Child
<1>2. PICK d \in [Nat -> Nat] : Paid(s, n, Budget(r, g, u), d)
  BY DEF Sound, Afforded
<1>3. Limit * Debt(s, n) <= Budget(r, g, u)
  BY <1>1, <1>2 DEF Paid, Pays
<1>4. Debt(s, n) \in Nat /\ Signalled(s, n) \in Nat /\ Signalled(s, n) <= g
  BY CountsAre DEF Sound
<1>5. /\ Debt(s, n) <= u + (r + g) \div Limit
      /\ Limit + g + Debt(s, n) <= Ceiling(r, g, u)
  BY <1>3, <1>4, Covered
<1>6. Ceiling(r, g, u) \in Nat
  BY CeilingIs
<1>7. Ceiling(r, g, u) >= Limit + Signalled(s, n) + Debt(s, n)
  <2>1. Limit + g + Debt(s, n) <= Ceiling(r, g, u)
    BY <1>5
  <2>2. PICK c \in Nat, x \in Nat, y \in Nat :
          c = Ceiling(r, g, u) /\ x = Signalled(s, n) /\ y = Debt(s, n)
    BY <1>4, <1>6
  <2>3. Limit + g + y <= c /\ x <= g /\ Limit \in Nat
    BY <1>4, <2>1, <2>2, LoggerAssumption
  <2>4. c >= Limit + x + y
    BY <2>3
  <2> QED
    BY <2>2, <2>4
<1> QED
  BY <1>5, <1>7

\* The file is emptied.
LEMMA SoundEmptied ==
  ASSUME NEW s, NEW t, NEW n, TopMoves(s, t, n), NEW f \in Nat, NEW o \in Nat,
         NEW r \in Nat, NEW g \in Nat, NEW u \in Nat, Sound(s, n, f, o, r, g, u),
         Cutting(s, n), t[n].at = "banner"
  PROVE  Sound(t, n, 0, 0, r, g, u)
<1>1. Waiting(t, n) /\ Signalled(t, n) <= g
  BY WaitMoves DEF Sound
<1>2. Budget(r, g, u) \in Nat /\ Ceiling(r, g, u) \in Nat
  BY CeilingCut, CeilingIs
<1>3. Ceiling(r, g, u) >= Limit + Signalled(s, n) + Debt(s, n)
  <2>1. n \in Nat \ {0} /\ DOMAIN s = 1 .. n
    BY DEF TopMoves
  <2> QED
    BY <2>1, SoundCovers
<1>4. Afforded(t, n, 0, Budget(r, g, u) + 0)
  <2>1. Capped(0) <= 0 /\ 0 \in Nat
    BY CappedIs
  <2> QED
    BY <1>2, <2>1, AffordRolled DEF Sound
<1>5. Allowed(t, n, 0, Ceiling(r, g, u) + 0)
  <2>1. PICK z \in Nat : z = 0
    OBVIOUS
  <2>2. Allowed(t, n, z, Ceiling(r, g, u) + z)
    BY <1>2, <1>3, <2>1, AllowRolled DEF Sound
  <2> QED
    BY <2>1, <2>2
<1>6. Budget(r, g, u) + 0 = Budget(r, g, u) /\ Ceiling(r, g, u) + 0 = Ceiling(r, g, u)
  BY <1>2
<1> QED
  BY <1>1, <1>4, <1>5, <1>6 DEF Sound

\* The file keeps its lines: the truncate failed.
LEMMA SoundUncut ==
  ASSUME NEW s, NEW t, NEW n, TopMoves(s, t, n), NEW f \in Nat, NEW h \in Nat, NEW o \in Nat,
         NEW r \in Nat, NEW g \in Nat, NEW u \in Nat, Sound(s, n, f, o, r, g, u),
         Cutting(s, n), t[n].at = "banner"
  PROVE  Sound(t, n, h, o, r, g, u + 1)
<1>1. Waiting(t, n) /\ Signalled(t, n) <= g
  BY WaitMoves DEF Sound
<1>2. /\ Budget(r, g, u) \in Nat /\ Ceiling(r, g, u) \in Nat
      /\ Budget(r, g, u + 1) = Budget(r, g, u) + Limit
      /\ Ceiling(r, g, u + 1) = Ceiling(r, g, u) + Limit
  BY CeilingCut, CeilingIs
<1>3. Ceiling(r, g, u) >= Limit + Signalled(s, n) + Debt(s, n)
  <2>1. n \in Nat \ {0} /\ DOMAIN s = 1 .. n
    BY DEF TopMoves
  <2> QED
    BY <2>1, SoundCovers
<1>4. Afforded(t, n, h, Budget(r, g, u) + Limit)
  <2>1. Capped(h) <= Limit /\ Limit \in Nat
    BY CappedIs, LoggerAssumption
  <2> QED
    BY <1>2, <2>1, AffordRolled DEF Sound
<1>5. Allowed(t, n, o, Ceiling(r, g, u) + Limit)
  <2>1. o <= o /\ Limit \in Nat
    BY LoggerAssumption
  <2> QED
    BY <1>2, <1>3, <2>1, AllowRolled DEF Sound
<1> QED
  BY <1>1, <1>2, <1>4, <1>5 DEF Sound

\* The rollback makes its report.
LEMMA SoundTold ==
  ASSUME NEW s, NEW t, NEW n, Told(s, t, n), NEW f \in Nat, NEW h \in Nat, NEW o \in Nat,
         NEW r \in Nat, NEW g \in Nat, NEW u \in Nat, Sound(s, n, f, o, r, g, u),
         Capped(h) <= Capped(f)
  PROVE  Sound(t, n + 1, h, o, r, g, u)
<1>1. /\ n \in Nat \ {0} /\ SameTo(s, t, n - 1) /\ Child(t, n) /\ ~Child(t, n + 1)
      /\ Signalled(t, n + 1) = Signalled(s, n)
  BY ToldIs
<1>2. ASSUME NEW k \in 1 .. n + 1, Child(t, k) PROVE t[k].at = "write"
  <2>1. CASE k = n
    BY <2>1 DEF Told
  <2>2. CASE k # n
    <3>1. k \in 1 .. n - 1 /\ k \in 1 .. n
      BY <1>1, <1>2, <2>2
    <3>2. t[k] = s[k] /\ Child(s, k)
      BY <1>1, <1>2, <3>1 DEF SameTo
    <3> QED
      BY <3>1, <3>2 DEF Sound, Waiting
  <2> QED
    BY <2>1, <2>2
<1>3. Waiting(t, n + 1) /\ Signalled(t, n + 1) <= g
  BY <1>1, <1>2 DEF Waiting, Sound
<1>4. Budget(r, g, u) \in Nat /\ Ceiling(r, g, u) \in Nat
  BY CeilingCut, CeilingIs
<1>5. Afforded(t, n + 1, h, Budget(r, g, u))
  BY <1>4, AffordTold DEF Sound
<1>6. Allowed(t, n + 1, o, Ceiling(r, g, u))
  BY <1>4, AllowTold DEF Sound
<1> QED
  BY <1>3, <1>5, <1>6 DEF Sound

\* The line is written under the lock.
LEMMA SoundUnlock ==
  ASSUME NEW s, NEW t, NEW n, TopMoves(s, t, n), NEW f \in Nat, NEW h \in Nat, NEW o \in Nat,
         NEW p \in Nat, NEW r \in Nat, NEW g \in Nat, NEW u \in Nat,
         Sound(s, n, f, o, r, g, u), Capped(h) <= Capped(f) + 1, p <= o + 1,
         s[n].at = "write", t[n].at = "unlock"
  PROVE  Sound(t, n, h, p, r, g, u)
<1>1. Waiting(t, n) /\ Signalled(t, n) <= g
  BY WaitMoves DEF Sound
<1>2. Budget(r, g, u) \in Nat /\ Ceiling(r, g, u) \in Nat
  BY CeilingCut, CeilingIs
<1>3. Afforded(t, n, h, Budget(r, g, u))
  BY <1>2, AffordUnlock DEF Sound
<1>4. Allowed(t, n, p, Ceiling(r, g, u))
  BY <1>2, AllowUnlock DEF Sound
<1> QED
  BY <1>1, <1>3, <1>4 DEF Sound

\* A call returns.
LEMMA SoundReturn ==
  ASSUME NEW s, NEW t, NEW n, Returns(s, t, n), NEW f \in Nat, NEW h \in Nat, NEW o \in Nat,
         NEW p \in Nat, NEW r \in Nat, NEW g \in Nat, NEW u \in Nat,
         Sound(s, n, f, o, r, g, u), ~Cutting(s, n), s[n].at # "banner",
         Capped(h) <= Capped(f) + Owes(s, n), p <= o \/ (s[n].at = "write" /\ p <= o + 1)
  PROVE  Sound(t, n - 1, h, p, r, g, u)
<1>1. /\ n \in Nat \ {0} /\ ~Child(s, n)
      /\ n > 1 => /\ SameTo(s, t, n - 2) /\ ~Child(t, n - 1) /\ t[n - 1] = s[n - 1]
                  /\ Child(s, n - 1) <=> ~s[n].handler
  BY ReturnsIs
<1>2. ASSUME NEW k \in 1 .. n - 1, Child(t, k) PROVE t[k].at = "write"
  <2>1. n > 1 /\ k \in 1 .. n - 2 /\ k \in 1 .. n
    BY <1>1, <1>2
  <2>2. t[k] = s[k] /\ Child(s, k)
    BY <1>1, <1>2, <2>1 DEF SameTo
  <2> QED
    BY <2>1, <2>2 DEF Sound, Waiting
<1>3. Signalled(t, n - 1) <= Signalled(s, n)
  <2>1. CASE n = 1
    <3>1. Signalled(s, 1) \in Nat
      BY CountsAre
    <3> QED
      BY <2>1, <3>1, Unfolded
  <2>2. CASE n > 1
    <3>1. n - 1 \in Nat \ {0} /\ (n - 1) - 1 = n - 2 /\ n - 2 \in 0 .. n - 2
      BY <1>1, <2>2
    <3>2. Signalled(t, n - 2) = Signalled(s, n - 2) /\ t[n - 1] = s[n - 1]
      BY <1>1, <2>2, <3>1 DEF SameTo
    <3>3. Signalled(t, n - 1) = Signalled(s, n - 1)
      BY <3>1, <3>2, Unfold
    <3>4. Signalled(s, n - 1) \in Nat
      BY <3>1, CountsAre
    <3> QED
      BY <1>1, <3>3, <3>4, Unfold
  <2> QED
    BY <1>1, <2>1, <2>2
<1>4. Waiting(t, n - 1) /\ Signalled(t, n - 1) <= g
  <2>1. n - 1 \in Nat
    BY <1>1
  <2>2. Signalled(t, n - 1) \in Nat /\ Signalled(s, n) \in Nat
    BY <1>1, <2>1, CountsAre
  <2> QED
    BY <1>2, <1>3, <2>2 DEF Waiting, Sound
<1>5. Budget(r, g, u) \in Nat /\ Ceiling(r, g, u) \in Nat /\ Waiting(s, n)
  BY CeilingCut, CeilingIs DEF Sound
<1>6. Afforded(t, n - 1, h, Budget(r, g, u))
  BY <1>5, AffordReturn DEF Sound
<1>7. Allowed(t, n - 1, p, Ceiling(r, g, u))
  BY <1>5, AllowReturn DEF Sound
<1> QED
  BY <1>4, <1>6, <1>7 DEF Sound

\* A handler is called, or the program calls when no call runs.
LEMMA SoundCalled ==
  ASSUME NEW s, NEW t, NEW n, Called(s, t, n), NEW f \in Nat, NEW h \in Nat, NEW o \in Nat,
         NEW r \in Nat, NEW g \in Nat, NEW u \in Nat, NEW g2 \in Nat,
         Sound(s, n, f, o, r, g, u), Capped(h) <= Capped(f),
         g2 = IF t[n + 1].handler THEN g + 1 ELSE g
  PROVE  Sound(t, n + 1, h, o, r, g2, u)
<1>1. n \in Nat /\ SameTo(s, t, n) /\ ~Child(t, n + 1)
  BY CalledIs
<1>2. ASSUME NEW k \in 1 .. n + 1, Child(t, k) PROVE t[k].at = "write"
  <2>1. k \in 1 .. n
    BY <1>1, <1>2
  <2>2. t[k] = s[k] /\ Child(s, k)
    BY <1>1, <1>2, <2>1 DEF SameTo
  <2> QED
    BY <2>1, <2>2 DEF Sound, Waiting
<1>3. Signalled(t, n + 1) <= g2
  <2>1. n + 1 \in Nat \ {0} /\ (n + 1) - 1 = n /\ n \in 0 .. n
    BY <1>1
  <2>2. Signalled(t, n) = Signalled(s, n) /\ Signalled(s, n) \in Nat /\ Signalled(s, n) <= g
    BY <1>1, <2>1, CountsAre DEF SameTo, Sound
  <2> QED
    BY <2>1, <2>2, Unfold
<1>4. Waiting(t, n + 1) /\ Signalled(t, n + 1) <= g2
  BY <1>2, <1>3 DEF Waiting
<1>5. Budget(r, g, u) \in Nat /\ Ceiling(r, g, u) \in Nat /\ g <= g2
  BY CeilingCut, CeilingIs
<1>6. PICK x \in Nat : x = g2 - g
  BY <1>5
<1>7. (t[n + 1].handler => x >= 1) /\ (n > 0 => x > 0)
  BY <1>6 DEF Called
<1>8. Budget(r, g2, u) = Budget(r, g, u) + x
  BY <1>6, TimesLimit DEF Budget
<1>9. Afforded(t, n + 1, h, Budget(r, g, u) + x)
  BY <1>5, <1>7, AffordCalled DEF Sound
<1>10. PICK y \in Nat : Ceiling(r, g2, u) = Ceiling(r, g, u) + y /\ x <= y
  <2>1. Ceiling(r, g, u) + g2 <= Ceiling(r, g2, u) + g
    <3>1. r <= r /\ g <= g2
      BY <1>5
    <3> QED
      BY <3>1, CeilingGrows
  <2>2. PICK c \in Nat, c2 \in Nat : c = Ceiling(r, g, u) /\ c2 = Ceiling(r, g2, u)
    BY CeilingIs
  <2>3. c + g2 <= c2 + g
    BY <2>1, <2>2
  <2>4. c2 - c \in Nat /\ c2 = c + (c2 - c) /\ x <= c2 - c
    BY <1>5, <1>6, <2>3
  <2> QED
    BY <2>2, <2>4
<1>11. Allowed(t, n + 1, o, Ceiling(r, g, u) + y)
  <2>1. t[n + 1].handler => y >= 1
    BY <1>6, <1>7, <1>10
  <2> QED
    BY <1>5, <2>1, AllowCalled DEF Sound
<1> QED
  BY <1>4, <1>8, <1>9, <1>10, <1>11 DEF Sound

\* Nothing is owed at first.
LEMMA SoundFirst ==
  ASSUME NEW s
  PROVE  Sound(s, 0, 0, 0, 0, 0, 0)
<1>1. 1 .. 0 = {} /\ 0 .. 0 = {0}
  OBVIOUS
<1>2. Waiting(s, 0) /\ Signalled(s, 0) <= 0
  BY <1>1, Unfolded DEF Waiting
<1>3. Afforded(s, 0, 0, Budget(0, 0, 0))
  <2>1. PICK d \in [Nat -> Nat] : d[1] = 0
    <3>1. [k \in Nat |-> 0] \in [Nat -> Nat] /\ [k \in Nat |-> 0][1] = 0
      OBVIOUS
    <3> QED
      BY <3>1
  <2>2. Capped(0) <= d[0 + 1]
    BY <2>1, CappedIs
  <2> QED
    BY <1>1, <2>1, <2>2 DEF Afforded, Foreseen, Paid
<1>4. Allowed(s, 0, 0, Ceiling(0, 0, 0))
  <2>1. PICK c \in Nat : c = Ceiling(0, 0, 0)
    BY CeilingIs
  <2>2. PICK a \in [Nat -> Nat] : a[0] = c
    <3>1. [k \in Nat |-> c] \in [Nat -> Nat] /\ [k \in Nat |-> c][0] = c
      OBVIOUS
    <3> QED
      BY <3>1
  <2>3. Need(s, 0) = 1 /\ Debt(s, 0) = 0 /\ Signalled(s, 0) = 0
    BY Unfolded DEF Need
  <2>4. Grant(s, a, c, 0)
    BY <2>2, <2>3 DEF Grant
  <2> QED
    BY <1>1, <2>1, <2>2, <2>4 DEF Allowed, Fits
<1> QED
  BY <1>2, <1>3, <1>4 DEF Sound

-----------------------------------------------------------------------------
(* The limit, in every state.                                               *)

Own(p) == {line \in Range(file) : written[line] = p}
Lines(p) == Cardinality(Own(p))

\* What the stream takes the file for, if that is more than it is.
Filled(p) == IF pos[p] > Len(file) THEN pos[p] ELSE Len(file)

\* Every stack is paid for.
Paying(p) ==
  Sound(stack[p], Len(stack[p]), Filled(p), Lines(p), Others(p), signals, uncut[p])

\* A stream that rolled back has not reported it, or is past its own lines.
Ahead(p) == (\A i \in DOMAIN stack[p] : stack[p][i].at # "banner") => Lines(p) <= pos[p]

Holds(p) == Paying(p) /\ Ahead(p) /\ Lines(p) <= Len(file)
BoundInv == \A p \in Procs : Holds(p)

\* What is counted are numbers.
LEMMA NumbersAre ==
  ASSUME TypeInv, NEW p \in Procs
  PROVE  /\ Lines(p) \in Nat /\ Others(p) \in Nat /\ Filled(p) \in Nat
         /\ signals \in Nat /\ uncut[p] \in Nat /\ pos[p] \in Nat /\ Len(file) \in Nat
         /\ pos[p] <= Filled(p) /\ Len(file) <= Filled(p) /\ Len(stack[p]) \in Nat
         /\ IsFiniteSet(Own(p)) /\ DOMAIN stack[p] = 1 .. Len(stack[p])
<1>1. /\ written \in Seq(Procs) /\ file \in Seq(DOMAIN written) /\ pos \in [Procs -> Nat]
      /\ uncut \in [Procs -> Nat] /\ signals \in Nat /\ stack[p] \in Seq(Frames)
  BY DEF TypeInv, TypeOK, Counted
<1>2. IsFiniteSet(DOMAIN written)
  <2>1. DOMAIN written = 1 .. Len(written) /\ Len(written) \in Nat
    BY <1>1
  <2> QED
    BY <2>1, FS_Interval
<1>3. Lines(p) \in Nat /\ IsFiniteSet(Own(p))
  <2>1. Own(p) \subseteq DOMAIN written
    BY <1>1 DEF Own, Range
  <2> QED
    BY <1>2, <2>1, FS_Subset, FS_CardinalityType DEF Lines
<1>4. Others(p) \in Nat
  <2>1. {i \in DOMAIN written : written[i] \in Procs \ {p}} \subseteq DOMAIN written
    OBVIOUS
  <2> QED
    BY <1>2, <2>1, FS_Subset, FS_CardinalityType DEF Others
<1>5. /\ pos[p] \in Nat /\ uncut[p] \in Nat /\ Len(file) \in Nat /\ Len(stack[p]) \in Nat
      /\ DOMAIN stack[p] = 1 .. Len(stack[p])
  BY <1>1
<1>6. Filled(p) \in Nat /\ pos[p] <= Filled(p) /\ Len(file) <= Filled(p)
  BY <1>5 DEF Filled
<1> QED
  BY <1>1, <1>3, <1>4, <1>5, <1>6

\* The line that p writes is one of its own, and one of the others of every other process.
LEMMA LineCounts ==
  ASSUME TypeInv, NEW p \in Procs, written' = Append(written, p),
         file' = Append(file, Len(written) + 1)
  PROVE  /\ Lines(p)' = Lines(p) + 1 /\ Others(p)' = Others(p) /\ Len(file') = Len(file) + 1
         /\ \A q \in Procs \ {p} : Lines(q)' = Lines(q) /\ Others(q)' = Others(q) + 1
<1> DEFINE line == Len(written) + 1
<1>1. /\ written \in Seq(Procs) /\ file \in Seq(DOMAIN written)
      /\ DOMAIN written = 1 .. Len(written) /\ Len(written) \in Nat
      /\ DOMAIN file = 1 .. Len(file) /\ Len(file) \in Nat
  BY DEF TypeInv, TypeOK
<1>2. /\ DOMAIN written' = DOMAIN written \cup {line} /\ line \notin DOMAIN written
      /\ \A i \in DOMAIN written : written'[i] = written[i]
      /\ written'[line] = p
  BY <1>1
<1>3. /\ Len(file') = Len(file) + 1 /\ DOMAIN file' = DOMAIN file \cup {Len(file) + 1}
      /\ \A i \in DOMAIN file : file'[i] = file[i] /\ file[i] \in DOMAIN written
      /\ file'[Len(file) + 1] = line
  BY <1>1
<1>4. Range(file') = Range(file) \cup {line} /\ Range(file) \subseteq DOMAIN written
  BY <1>3 DEF Range
<1>5. Own(p)' = Own(p) \cup {line} /\ line \notin Own(p)
  BY <1>2, <1>4 DEF Own
<1>6. \A q \in Procs \ {p} : Own(q)' = Own(q)
  BY <1>2, <1>4 DEF Own
<1>7. Lines(p)' = Lines(p) + 1
  <2>1. IsFiniteSet(Own(p))
    BY NumbersAre
  <2> QED
    BY <1>5, <2>1, FS_AddElement DEF Lines
<1>8. Others(p)' = Others(p)
  <2>1. {i \in DOMAIN written' : written'[i] \in Procs \ {p}}
          = {i \in DOMAIN written : written[i] \in Procs \ {p}}
    BY <1>2
  <2> QED
    BY <2>1 DEF Others
<1>9. ASSUME NEW q \in Procs \ {p} PROVE Lines(q)' = Lines(q) /\ Others(q)' = Others(q) + 1
  <2>1. {i \in DOMAIN written' : written'[i] \in Procs \ {q}}
          = {i \in DOMAIN written : written[i] \in Procs \ {q}} \cup {line}
    BY <1>2
  <2>2. IsFiniteSet({i \in DOMAIN written : written[i] \in Procs \ {q}})
    <3>1. IsFiniteSet(1 .. Len(written))
      BY <1>1, FS_Interval
    <3>2. {i \in DOMAIN written : written[i] \in Procs \ {q}} \subseteq 1 .. Len(written)
      BY <1>1
    <3> QED
      BY <3>1, <3>2, FS_Subset
  <2>3. line \notin {i \in DOMAIN written : written[i] \in Procs \ {q}}
    BY <1>2
  <2>4. Others(q)' = Others(q) + 1
    BY <2>1, <2>2, <2>3, FS_AddElement DEF Others
  <2> QED
    BY <1>6, <2>4 DEF Lines
<1> QED
  BY <1>3, <1>7, <1>8, <1>9

\* Nobody writes.
LEMMA LinesStay ==
  ASSUME NEW q \in Procs, written' = written
  PROVE  /\ Others(q)' = Others(q) /\ (file' = file => Lines(q)' = Lines(q))
         /\ file' = <<>> => Lines(q)' = 0 /\ Len(file') = 0
<1>1. Others(q)' = Others(q)
  BY DEF Others
<1>2. ASSUME file' = file PROVE Lines(q)' = Lines(q)
  BY <1>2 DEF Lines, Own
<1>3. ASSUME file' = <<>> PROVE Lines(q)' = 0 /\ Len(file') = 0
  <2>1. Own(q)' = {}
    BY <1>3 DEF Own, Range
  <2> QED
    BY <1>3, <2>1, FS_EmptySet DEF Lines
<1> QED
  BY <1>1, <1>2, <1>3

\* What a process has in its stack and its stream while another goes on.
LEMMA HoldsBeside ==
  ASSUME TypeInv, NEW p \in Procs, NEW q \in Procs \ {p}, Holds(q),
         stack'[q] = stack[q], pos'[q] = pos[q], uncut'[q] = uncut[q],
         \/ signals' = signals /\ written' = written /\ (file' = file \/ file' = <<>>)
         \/ signals' = signals + 1 /\ written' = written /\ file' = file
         \/ /\ signals' = signals /\ written' = Append(written, p)
            /\ file' = Append(file, Len(written) + 1)
  PROVE  Holds(q)'
<1>1. /\ Lines(q) \in Nat /\ Others(q) \in Nat /\ Filled(q) \in Nat
      /\ signals \in Nat /\ uncut[q] \in Nat /\ pos[q] \in Nat /\ Len(file) \in Nat
      /\ Len(stack[q]) \in Nat
  BY NumbersAre
<1>2. /\ Lines(q)' \in Nat /\ Others(q)' \in Nat /\ Len(file') \in Nat /\ signals' \in Nat
      /\ Lines(q)' <= Lines(q) /\ Lines(q)' <= Len(file')
      /\ Others(q) <= Others(q)' /\ signals <= signals'
      /\ Len(file') + Others(q) + signals <= Len(file) + Others(q)' + signals'
  <2>1. CASE signals' = signals /\ written' = written /\ file' = <<>>
    BY <1>1, <2>1, LinesStay
  <2>2. CASE (signals' = signals \/ signals' = signals + 1) /\ written' = written /\ file' = file
    <3>1. Lines(q)' = Lines(q) /\ Others(q)' = Others(q)
      BY <2>2, LinesStay
    <3> QED
      BY <1>1, <2>2, <3>1 DEF Holds
  <2>3. CASE /\ signals' = signals /\ written' = Append(written, p)
             /\ file' = Append(file, Len(written) + 1)
    <3>1. Lines(q)' = Lines(q) /\ Others(q)' = Others(q) + 1 /\ Len(file') = Len(file) + 1
      BY <2>3, LineCounts
    <3> QED
      BY <1>1, <2>3, <3>1 DEF Holds
  <2> QED
    BY <2>1, <2>2, <2>3
<1>3. Filled(q)' = IF pos[q] > Len(file') THEN pos[q] ELSE Len(file')
  BY DEF Filled
<1>4. Filled(q)' = pos[q] \/ Filled(q)' = Len(file')
  BY <1>3
<1>5. /\ Filled(q)' \in Nat
      /\ Capped(Filled(q)') + Others(q) + signals <= Capped(Filled(q)) + Others(q)' + signals'
  <2>1. pos[q] <= Filled(q) /\ Len(file) <= Filled(q)
    BY NumbersAre
  <2>2. PICK f \in Nat, h \in Nat, a \in Nat, m \in Nat, m2 \in Nat :
          /\ f = Filled(q) /\ h = Filled(q)' /\ a = pos[q] /\ m = Len(file) /\ m2 = Len(file')
    BY <1>1, <1>2, <1>4
  <2>3. PICK r \in Nat, r2 \in Nat, g \in Nat, g2 \in Nat :
          r = Others(q) /\ r2 = Others(q)' /\ g = signals /\ g2 = signals'
    BY <1>1, <1>2
  <2>4. Capped(h) + r + g <= Capped(f) + r2 + g2
    <3>1. a <= f /\ m <= f /\ (h = a \/ h = m2) /\ r <= r2 /\ g <= g2 /\ m2 + r + g <= m + r2 + g2
      BY <1>2, <1>4, <2>1, <2>2, <2>3
    <3> QED
      BY ONLY f \in Nat, h \in Nat, a \in Nat, m \in Nat, m2 \in Nat, r \in Nat, r2 \in Nat,
         g \in Nat, g2 \in Nat, <3>1, LoggerAssumption DEF Capped
  <2> QED
    BY <2>2, <2>3, <2>4
<1>6. Sound(stack[q], Len(stack[q]), Filled(q)', Lines(q)', Others(q)', signals', uncut[q])
  BY <1>1, <1>2, <1>5, SoundBeside DEF Holds, Paying
<1>7. Paying(q)'
  BY <1>6 DEF Paying
<1>8. Ahead(q)'
  BY <1>1, <1>2 DEF Holds, Ahead
<1> QED
  BY <1>2, <1>7, <1>8 DEF Holds

-----------------------------------------------------------------------------
(* What a step of a process does to its stack.                              *)

LEMMA GotoMoves ==
  ASSUME TypeOK, NEW p \in Procs, stack[p] # <<>>, NEW place \in Places, Goto(p, place)
  PROVE  /\ TopMoves(stack[p], stack'[p], Len(stack[p]))
         /\ Len(stack'[p]) = Len(stack[p]) /\ stack'[p][Len(stack[p])].at = place
         /\ DOMAIN stack'[p] = DOMAIN stack[p]
         /\ \A i \in DOMAIN stack[p] : i # Len(stack[p]) => stack'[p][i] = stack[p][i]
<1>1. /\ Len(stack'[p]) = Len(stack[p]) /\ DOMAIN stack'[p] = DOMAIN stack[p]
      /\ \A i \in DOMAIN stack[p] : i # Len(stack[p]) => stack'[p][i] = stack[p][i]
      /\ stack'[p][Len(stack[p])].at = place
      /\ stack'[p][Len(stack[p])].handler = stack[p][Len(stack[p])].handler
  BY GotoIs
<1>2. Len(stack[p]) \in Nat \ {0} /\ DOMAIN stack[p] = 1 .. Len(stack[p])
  BY Top DEF TypeOK
<1> QED
  BY <1>1, <1>2 DEF TopMoves

LEMMA PopReturns ==
  ASSUME TypeOK, NEW p \in Procs, stack[p] # <<>>, Pop(p)
  PROVE  /\ Returns(stack[p], stack'[p], Len(stack[p]))
         /\ Len(stack'[p]) = Len(stack[p]) - 1
         /\ DOMAIN stack[p] = DOMAIN stack'[p] \cup {Len(stack[p])}
         /\ \A i \in DOMAIN stack'[p] : stack'[p][i] = stack[p][i]
<1>1. /\ stack' \in [Procs -> Seq(Frames)]
      /\ Len(stack[p]) \in Nat \ {0} /\ DOMAIN stack[p] = 1 .. Len(stack[p])
      /\ DOMAIN stack'[p] = 1 .. Len(stack[p]) - 1
      /\ \A i \in DOMAIN stack'[p] : stack'[p][i] = stack[p][i]
  BY PopIs
<1>2. Len(stack'[p]) = Len(stack[p]) - 1
  <2>1. stack'[p] \in Seq(Frames)
    BY <1>1
  <2>2. Len(stack'[p]) \in Nat /\ DOMAIN stack'[p] = 1 .. Len(stack'[p])
    BY <2>1
  <2> QED
    BY <1>1, <2>2
<1> QED
  BY <1>1, <1>2 DEF Returns

LEMMA PushCalls ==
  ASSUME TypeOK, NEW p \in Procs, NEW f \in Frames, Push(p, f), f.at = "enter",
         f.handler \/ stack[p] = <<>>
  PROVE  /\ Called(stack[p], stack'[p], Len(stack[p]))
         /\ Len(stack'[p]) = Len(stack[p]) + 1 /\ stack'[p][Len(stack[p]) + 1] = f
         /\ DOMAIN stack'[p] = DOMAIN stack[p] \cup {Len(stack[p]) + 1}
         /\ \A i \in DOMAIN stack[p] : stack'[p][i] = stack[p][i]
<1>1. /\ stack' \in [Procs -> Seq(Frames)]
      /\ Len(stack[p]) \in Nat /\ DOMAIN stack[p] = 1 .. Len(stack[p])
      /\ DOMAIN stack'[p] = 1 .. Len(stack[p]) + 1
      /\ \A i \in DOMAIN stack[p] : stack'[p][i] = stack[p][i]
      /\ stack'[p][Len(stack[p]) + 1] = f
  BY PushIs
<1>2. Len(stack'[p]) = Len(stack[p]) + 1
  <2>1. stack'[p] \in Seq(Frames)
    BY <1>1
  <2>2. Len(stack'[p]) \in Nat /\ DOMAIN stack'[p] = 1 .. Len(stack'[p])
    BY <2>1
  <2> QED
    BY <1>1, <2>2
<1>3. f.handler \in BOOLEAN /\ (stack[p] = <<>> => Len(stack[p]) = 0)
  BY DEF Frames
<1> QED
  BY <1>1, <1>2, <1>3 DEF Called

LEMMA BannerTells ==
  ASSUME TypeOK, NEW p \in Procs, Banner(p)
  PROVE  /\ Told(stack[p], stack'[p], Len(stack[p])) /\ Len(stack'[p]) = Len(stack[p]) + 1
<1>1. /\ stack' \in [Procs -> Seq(Frames)]
      /\ Len(stack[p]) \in Nat \ {0} /\ DOMAIN stack[p] = 1 .. Len(stack[p])
      /\ DOMAIN stack'[p] = 1 .. Len(stack[p]) + 1
      /\ \A i \in DOMAIN stack[p] : i # Len(stack[p]) => stack'[p][i] = stack[p][i]
      /\ stack'[p][Len(stack[p])].at = "write"
      /\ stack'[p][Len(stack[p])].handler = stack[p][Len(stack[p])].handler
      /\ stack'[p][Len(stack[p]) + 1] = Frame(INFO, FALSE)
  BY BannerIs
<1>2. Len(stack'[p]) = Len(stack[p]) + 1
  <2>1. stack'[p] \in Seq(Frames)
    BY <1>1
  <2>2. Len(stack'[p]) \in Nat /\ DOMAIN stack'[p] = 1 .. Len(stack'[p])
    BY <2>1
  <2> QED
    BY <1>1, <2>2
<1>3. stack[p][Len(stack[p])].at = "banner"
  BY Top DEF TypeOK, Banner, Is
<1>4. Frame(INFO, FALSE).at = "enter" /\ ~Frame(INFO, FALSE).handler
  BY DEF Frame
<1>5. /\ stack'[p][Len(stack[p]) + 1].at = "enter" /\ ~stack'[p][Len(stack[p]) + 1].handler
  BY <1>1, <1>4
<1>6. \A k \in 1 .. Len(stack[p]) - 1 : stack'[p][k] = stack[p][k]
  BY <1>1
<1> QED
  BY <1>1, <1>2, <1>3, <1>5, <1>6 DEF Told

\* Where the call on top of a stack is.
LEMMA TopAt ==
  ASSUME TypeOK, NEW p \in Procs, NEW place, Is(p, place)
  PROVE  stack[p] # <<>> /\ stack[p][Len(stack[p])].at = place /\ Len(stack[p]) \in DOMAIN stack[p]
<1>1. stack[p] \in Seq(Frames) /\ stack[p] # <<>>
  BY DEF TypeOK, Is
<1> QED
  BY <1>1, Top DEF Is

-----------------------------------------------------------------------------
(* Every step of a process keeps its own stack paid for.                    *)

\* The call on top goes on, and the file is as it was.
LEMMA HoldsQuiet ==
  ASSUME NEW p \in Procs, Holds(p), pos' = pos, file' = file, written' = written,
         (\A i \in DOMAIN stack'[p] : stack'[p][i].at # "banner")
           => \A i \in DOMAIN stack[p] : stack[p][i].at # "banner",
         NEW n, Len(stack'[p]) = n,
         Sound(stack'[p], n, Filled(p), Lines(p), Others(p), signals', uncut'[p])
  PROVE  Holds(p)'
<1>1. Lines(p)' = Lines(p) /\ Others(p)' = Others(p) /\ Filled(p)' = Filled(p)
  BY LinesStay DEF Filled
<1>2. Paying(p)'
  BY <1>1 DEF Paying
<1>3. Ahead(p)'
  BY <1>1 DEF Holds, Ahead
<1>4. Lines(p)' <= Len(file')
  BY <1>1 DEF Holds
<1> QED
  BY <1>2, <1>3, <1>4 DEF Holds

\* A call in the stack that neither empties the file nor is about to say so goes on.
LEMMA HoldsGoto ==
  ASSUME TypeInv, NEW p \in Procs, Holds(p), stack[p] # <<>>, NEW place \in Places,
         Goto(p, place), pos' = pos, file' = file, written' = written,
         signals' = signals, uncut' = uncut,
         \/ /\ stack[p][Len(stack[p])].at \in {"enter", "lock"}
            /\ place \in {"lock", "size"}
         \/ stack[p][Len(stack[p])].at = "copy" /\ place = "truncate"
         \/ /\ stack[p][Len(stack[p])].at = "size"
            /\ \/ pos[p] >= Limit /\ place = "copy"
               \/ pos[p] < Limit /\ place = "write"
  PROVE  Holds(p)'
<1>1. PICK s, t, n : s = stack[p] /\ t = stack'[p] /\ n = Len(stack[p])
  OBVIOUS
<1>2. /\ TopMoves(s, t, n) /\ Len(t) = n /\ t[n].at = place /\ DOMAIN t = DOMAIN s
      /\ \A i \in DOMAIN s : i # n => t[i] = s[i]
  BY <1>1, GotoMoves DEF TypeInv
<1>3. /\ n \in Nat \ {0} /\ DOMAIN s = 1 .. n /\ t[n].handler = s[n].handler
  BY <1>2 DEF TopMoves
<1>4. PICK f \in Nat, o \in Nat, r \in Nat, g \in Nat, u \in Nat :
        f = Filled(p) /\ o = Lines(p) /\ r = Others(p) /\ g = signals /\ u = uncut[p]
  BY NumbersAre
<1>5. Sound(s, n, f, o, r, g, u)
  BY <1>1, <1>4 DEF Holds, Paying
<1>6. ASSUME \/ s[n].at \in {"enter", "lock"} /\ place \in {"lock", "size"}
             \/ s[n].at = "copy" /\ place = "truncate"
      PROVE  Sound(t, n, f, o, r, g, u)
  <2>1. /\ Cutting(t, n) <=> Cutting(s, n)
        /\ t[n].at = "banner" <=> s[n].at = "banner"
        /\ t[n].at = "unlock" <=> s[n].at = "unlock"
    BY <1>2, <1>6 DEF Cutting
  <2>2. Owes(t, n) = Owes(s, n)
    BY <2>1 DEF Owes
  <2>3. Early(t, n) <=> Early(s, n)
    BY <1>2, <1>3, <1>6 DEF Early
  <2>4. Certain(t, n) = Certain(s, n)
    BY <2>2, <2>3 DEF Certain
  <2> QED
    BY <1>2, <1>5, <2>1, <2>4, SoundMove
<1>7. ASSUME s[n].at = "size", place = "copy", pos[p] >= Limit
      PROVE  Sound(t, n, f, o, r, g, u)
  <2>1. Limit <= f
    <3>1. pos[p] <= Filled(p) /\ pos[p] \in Nat
      BY NumbersAre
    <3> QED
      BY <1>4, <1>7, <3>1, LoggerAssumption
  <2> QED
    BY <1>2, <1>5, <1>7, <2>1, SoundCut
<1>8. ASSUME s[n].at = "size", place = "write", pos[p] < Limit
      PROVE  Sound(t, n, f, o, r, g, u)
  <2>1. /\ Cutting(t, n) <=> Cutting(s, n)
        /\ t[n].at = "banner" <=> s[n].at = "banner"
        /\ t[n].at = "unlock" <=> s[n].at = "unlock"
    BY <1>2, <1>8 DEF Cutting
  <2>2. CASE n = 1 /\ ~s[1].handler
    <3>1. \A i \in DOMAIN stack[p] : stack[p][i].at # "banner"
      BY <1>1, <1>3, <1>8, <2>2
    <3>2. o <= pos[p]
      BY <1>4, <3>1 DEF Holds, Ahead
    <3>3. o < Limit
      <4>1. pos[p] \in Nat
        BY NumbersAre
      <4> QED
        BY <1>4, <1>8, <3>2, <4>1, LoggerAssumption
    <3> QED
      BY <1>2, <1>5, <1>8, <2>1, <2>2, <3>3, SoundMove
  <2>3. CASE ~(n = 1 /\ ~s[1].handler)
    <3>1. Owes(t, n) = Owes(s, n)
      BY <2>1 DEF Owes
    <3>2. ~Early(t, n) /\ ~Early(s, n)
      BY <1>3, <2>3 DEF Early
    <3>3. Certain(t, n) = Certain(s, n)
      BY <3>1, <3>2 DEF Certain
    <3> QED
      BY <1>2, <1>5, <2>1, <3>3, SoundMove
  <2> QED
    BY <2>2, <2>3
<1>9. Sound(t, n, f, o, r, g, u)
  BY <1>1, <1>6, <1>7, <1>8
<1>10. s[n].at # "banner" /\ t[n].at # "banner"
  BY <1>1, <1>2
<1>11. (\A i \in DOMAIN t : t[i].at # "banner") => \A i \in DOMAIN s : s[i].at # "banner"
  BY <1>2, <1>10
<1>12. Sound(stack'[p], n, Filled(p), Lines(p), Others(p), signals', uncut'[p])
  BY <1>1, <1>4, <1>9
<1> QED
  BY <1>1, <1>2, <1>11, <1>12, HoldsQuiet

\* A call that is below the level returns, and so does one that gives back the lock.
LEMMA HoldsPop ==
  ASSUME TypeInv, NEW p \in Procs, Holds(p), stack[p] # <<>>, Pop(p),
         pos' = pos, file' = file, written' = written, signals' = signals, uncut' = uncut,
         stack[p][Len(stack[p])].at \in {"enter", "write", "unlock"}
  PROVE  Holds(p)'
<1>1. PICK s, t, n : s = stack[p] /\ t = stack'[p] /\ n = Len(stack[p])
  OBVIOUS
<1>2. /\ Returns(s, t, n) /\ Len(t) = n - 1 /\ DOMAIN s = DOMAIN t \cup {n}
      /\ \A i \in DOMAIN t : t[i] = s[i]
  BY <1>1, PopReturns DEF TypeInv
<1>3. PICK f \in Nat, o \in Nat, r \in Nat, g \in Nat, u \in Nat :
        f = Filled(p) /\ o = Lines(p) /\ r = Others(p) /\ g = signals /\ u = uncut[p]
  BY NumbersAre
<1>4. Sound(s, n, f, o, r, g, u)
  BY <1>1, <1>3 DEF Holds, Paying
<1>5. ~Cutting(s, n) /\ s[n].at # "banner"
  BY <1>1 DEF Cutting
<1>6. Capped(f) <= Capped(f) + Owes(s, n)
  BY CappedIs, LinesAre
<1>7. Sound(t, n - 1, f, o, r, g, u)
  <2>1. o <= o
    OBVIOUS
  <2> QED
    BY <1>2, <1>4, <1>5, <1>6, <2>1, SoundReturn
<1>8. (\A i \in DOMAIN t : t[i].at # "banner") => \A i \in DOMAIN s : s[i].at # "banner"
  BY <1>2, <1>5
<1>9. Sound(stack'[p], n - 1, Filled(p), Lines(p), Others(p), signals', uncut'[p])
  BY <1>1, <1>3, <1>7
<1> QED
  BY <1>1, <1>2, <1>8, <1>9, HoldsQuiet

\* The file is emptied, or the truncate fails.
LEMMA HoldsCut ==
  ASSUME TypeInv, NEW p \in Procs, Holds(p), Truncate(p) \/ TruncateFails(p)
  PROVE  Holds(p)'
<1>1. PICK s, t, n : s = stack[p] /\ t = stack'[p] /\ n = Len(stack[p])
  OBVIOUS
<1>2. /\ s[n].at = "truncate" /\ n \in DOMAIN s /\ stack[p] # <<>> /\ Goto(p, "banner")
      /\ pos'[p] = 0 /\ written' = written /\ signals' = signals
  <2>1. Is(p, "truncate") /\ Goto(p, "banner")
    BY DEF Truncate, TruncateFails
  <2>2. pos'[p] = 0 /\ written' = written /\ signals' = signals
    BY DEF Truncate, TruncateFails, bounds, TypeInv, TypeOK
  <2> QED
    BY <1>1, <2>1, <2>2, TopAt DEF TypeInv
<1>3. /\ TopMoves(s, t, n) /\ Len(t) = n /\ t[n].at = "banner" /\ DOMAIN t = DOMAIN s
  <2>1. PICK place \in Places : place = "banner"
    BY DEF Places
  <2>2. Goto(p, place)
    BY <1>2, <2>1
  <2>3. /\ TopMoves(stack[p], stack'[p], Len(stack[p]))
        /\ Len(stack'[p]) = Len(stack[p]) /\ stack'[p][Len(stack[p])].at = place
        /\ DOMAIN stack'[p] = DOMAIN stack[p]
    BY <1>2, <2>2, GotoMoves DEF TypeInv
  <2> QED
    BY <1>1, <2>1, <2>3
<1>4. PICK f \in Nat, o \in Nat, r \in Nat, g \in Nat, u \in Nat :
        f = Filled(p) /\ o = Lines(p) /\ r = Others(p) /\ g = signals /\ u = uncut[p]
  BY NumbersAre
<1>5. Sound(s, n, f, o, r, g, u) /\ Cutting(s, n)
  BY <1>1, <1>2, <1>4 DEF Holds, Paying, Cutting
<1>6. Others(p)' = Others(p)
  BY <1>2, LinesStay
<1>7. Ahead(p)'
  BY <1>1, <1>2, <1>3 DEF Ahead
<1>8. CASE Truncate(p)
  <2>1. file' = <<>> /\ uncut' = uncut
    BY <1>8 DEF Truncate
  <2>2. Lines(p)' = 0 /\ Len(file') = 0
    BY <1>2, <2>1, LinesStay
  <2>3. Filled(p)' = 0
    BY <1>2, <2>2 DEF Filled
  <2>4. Sound(t, n, 0, 0, r, g, u)
    BY <1>3, <1>5, SoundEmptied
  <2>5. Paying(p)'
    BY <1>1, <1>2, <1>3, <1>4, <1>6, <2>1, <2>2, <2>3, <2>4 DEF Paying
  <2> QED
    BY <1>7, <2>2, <2>5 DEF Holds
<1>9. CASE TruncateFails(p)
  <2>1. file' = file /\ uncut'[p] = uncut[p] + 1
    BY <1>9 DEF TruncateFails, TypeInv, TypeOK
  <2>2. Lines(p)' = Lines(p)
    BY <1>2, <2>1, LinesStay
  <2>3. PICK h \in Nat : h = Filled(p)'
    <3>1. Len(file) \in Nat
      BY NumbersAre
    <3> QED
      BY <1>2, <2>1, <3>1 DEF Filled
  <2>4. Sound(t, n, h, o, r, g, u + 1)
    BY <1>3, <1>5, SoundUncut
  <2>5. Paying(p)'
    BY <1>1, <1>2, <1>3, <1>4, <1>6, <2>1, <2>2, <2>3, <2>4 DEF Paying
  <2> QED
    BY <1>7, <2>1, <2>2, <2>5 DEF Holds
<1> QED
  BY <1>8, <1>9

\* The rollback says what it did.
LEMMA HoldsBanner ==
  ASSUME TypeInv, NEW p \in Procs, Holds(p), Banner(p)
  PROVE  Holds(p)'
<1>1. PICK s, t, n : s = stack[p] /\ t = stack'[p] /\ n = Len(stack[p])
  OBVIOUS
<1>2. Told(s, t, n) /\ Len(t) = n + 1
  BY <1>1, BannerTells DEF TypeInv
<1>3. /\ pos'[p] = Len(file) /\ file' = file /\ written' = written
      /\ signals' = signals /\ uncut' = uncut
  BY DEF Banner, bounds, history, TypeInv, TypeOK
<1>4. PICK f \in Nat, o \in Nat, r \in Nat, g \in Nat, u \in Nat, h \in Nat :
        /\ f = Filled(p) /\ o = Lines(p) /\ r = Others(p) /\ g = signals /\ u = uncut[p]
        /\ h = Len(file) /\ h <= f
  BY NumbersAre
<1>5. Sound(s, n, f, o, r, g, u)
  BY <1>1, <1>4 DEF Holds, Paying
<1>6. Lines(p)' = o /\ Others(p)' = r /\ Filled(p)' = h
  <2>1. Filled(p)' = h
    BY <1>3, <1>4 DEF Filled
  <2> QED
    BY <1>3, <1>4, <2>1, LinesStay
<1>7. Capped(h) <= Capped(f)
  BY <1>4, LoggerAssumption DEF Capped
<1>8. Sound(t, n + 1, h, o, r, g, u)
  BY <1>2, <1>5, <1>7, SoundTold
<1>9. Paying(p)'
  BY <1>1, <1>2, <1>3, <1>4, <1>6, <1>8 DEF Paying
<1>10. Ahead(p)' /\ Lines(p)' <= Len(file')
  BY <1>3, <1>4, <1>6 DEF Holds, Ahead
<1> QED
  BY <1>9, <1>10 DEF Holds

\* The line is written, if the stream is open.
LEMMA HoldsWrite ==
  ASSUME TypeInv, NEW p \in Procs, Holds(p), Write(p)
  PROVE  Holds(p)'
<1>1. PICK s, t, n : s = stack[p] /\ t = stack'[p] /\ n = Len(stack[p])
  OBVIOUS
<1>2. /\ s[n].at = "write" /\ n \in DOMAIN s /\ stack[p] # <<>>
      /\ IF p \in Locked THEN Goto(p, "unlock") ELSE Pop(p)
      /\ signals' = signals /\ uncut' = uncut
  <2>1. /\ Is(p, "write") /\ (IF p \in Locked THEN Goto(p, "unlock") ELSE Pop(p))
        /\ signals' = signals /\ uncut' = uncut
    BY DEF Write, bounds
  <2> QED
    BY <1>1, <2>1, TopAt DEF TypeInv
<1>3. PICK f \in Nat, o \in Nat, r \in Nat, g \in Nat, u \in Nat :
        f = Filled(p) /\ o = Lines(p) /\ r = Others(p) /\ g = signals /\ u = uncut[p]
  BY NumbersAre
<1>4. Sound(s, n, f, o, r, g, u)
  BY <1>1, <1>3 DEF Holds, Paying
<1>5. PICK h \in Nat, l \in Nat :
        /\ h = Filled(p)' /\ l = Lines(p)' /\ Others(p)' = r /\ h <= f + 1 /\ l <= o + 1
        /\ l <= Len(file')
        /\ l <= pos'[p] \/ (l = o /\ pos' = pos)
  <2>1. CASE state[p] = "closed"
    <3>1. UNCHANGED <<file, pos, written>>
      BY <2>1 DEF Write
    <3>2. Lines(p)' = Lines(p) /\ Others(p)' = Others(p) /\ Filled(p)' = Filled(p)
      BY <3>1, LinesStay DEF Filled
    <3>3. f <= f + 1 /\ o <= o + 1 /\ o <= Len(file')
      BY <1>3, <3>1 DEF Holds
    <3> QED
      BY <1>3, <3>1, <3>2, <3>3
  <2>2. CASE state[p] # "closed"
    <3>1. /\ written' = Append(written, p) /\ file' = Append(file, Len(written) + 1)
          /\ pos'[p] = Len(file')
      BY <2>2 DEF Write, TypeInv, TypeOK
    <3>2. Lines(p)' = Lines(p) + 1 /\ Others(p)' = Others(p) /\ Len(file') = Len(file) + 1
      BY <3>1, LineCounts
    <3>3. Filled(p)' = Len(file) + 1
      BY <3>1, <3>2 DEF Filled
    <3>4. Len(file) \in Nat /\ Len(file) <= Filled(p) /\ Lines(p) <= Len(file)
      BY NumbersAre DEF Holds
    <3>5. /\ Len(file) + 1 \in Nat /\ o + 1 \in Nat /\ Len(file) + 1 <= f + 1
          /\ o + 1 <= o + 1 /\ o + 1 <= Len(file) + 1
      BY <1>3, <3>4
    <3> QED
      BY <1>3, <3>1, <3>2, <3>3, <3>5
  <2> QED
    BY <2>1, <2>2
<1>6. Capped(h) <= Capped(f) + 1
  BY <1>5, LoggerAssumption DEF Capped
<1>7. CASE p \in Locked
  <2>1. TopMoves(s, t, n) /\ Len(t) = n /\ t[n].at = "unlock" /\ DOMAIN t = DOMAIN s
        /\ \A i \in DOMAIN s : i # n => t[i] = s[i]
    <3>1. PICK place \in Places : place = "unlock"
      BY DEF Places
    <3>2. Goto(p, place)
      BY <1>2, <1>7, <3>1
    <3>3. /\ TopMoves(stack[p], stack'[p], Len(stack[p]))
          /\ Len(stack'[p]) = Len(stack[p]) /\ stack'[p][Len(stack[p])].at = place
          /\ DOMAIN stack'[p] = DOMAIN stack[p]
          /\ \A i \in DOMAIN stack[p] : i # Len(stack[p]) => stack'[p][i] = stack[p][i]
      BY <1>2, <3>2, GotoMoves DEF TypeInv
    <3> QED
      BY <1>1, <3>1, <3>3
  <2>2. Sound(t, n, h, l, r, g, u)
    BY <1>2, <1>4, <1>5, <1>6, <2>1, SoundUnlock
  <2>3. Paying(p)'
    BY <1>1, <1>2, <1>3, <1>5, <2>1, <2>2 DEF Paying
  <2>4. Ahead(p)'
    BY <1>1, <1>2, <1>3, <1>5, <2>1 DEF Holds, Ahead
  <2> QED
    BY <1>5, <2>3, <2>4 DEF Holds
<1>8. CASE p \notin Locked
  <2>1. /\ Returns(s, t, n) /\ Len(t) = n - 1 /\ DOMAIN s = DOMAIN t \cup {n}
        /\ \A i \in DOMAIN t : t[i] = s[i]
    BY <1>1, <1>2, <1>8, PopReturns DEF TypeInv
  <2>2. ~Cutting(s, n) /\ s[n].at # "banner" /\ Owes(s, n) = 1
    BY <1>2 DEF Cutting, Owes
  <2>3. Sound(t, n - 1, h, l, r, g, u)
    BY <1>2, <1>4, <1>5, <1>6, <2>1, <2>2, SoundReturn
  <2>4. Paying(p)'
    BY <1>1, <1>2, <1>3, <1>5, <2>1, <2>3 DEF Paying
  <2>5. Ahead(p)'
    BY <1>1, <1>2, <1>3, <1>5, <2>1, <2>2 DEF Holds, Ahead
  <2> QED
    BY <1>5, <2>4, <2>5 DEF Holds
<1> QED
  BY <1>7, <1>8

\* The program or a handler calls.
LEMMA HoldsCall ==
  ASSUME TypeInv, NEW p \in Procs, Holds(p), Open(p) \/ Call(p) \/ Signal(p)
  PROVE  Holds(p)'
<1>1. PICK s, t, n : s = stack[p] /\ t = stack'[p] /\ n = Len(stack[p])
  OBVIOUS
<1>2. PICK frame \in Frames :
        /\ Push(p, frame) /\ frame.at = "enter" /\ (frame.handler \/ stack[p] = <<>>)
        /\ signals' = IF frame.handler THEN signals + 1 ELSE signals
  <2>1. ASSUME NEW level \in {WARN, INFO}, NEW handler \in BOOLEAN
        PROVE  /\ Frame(level, handler) \in Frames /\ Frame(level, handler).at = "enter"
               /\ Frame(level, handler).handler = handler
    BY DEF Frame, Frames, Places, WARN, INFO
  <2>2. CASE Open(p)
    <3>1. Push(p, Frame(INFO, FALSE)) /\ stack[p] = <<>> /\ signals' = signals
      BY <2>2 DEF Open, bounds, TypeInv, Counted
    <3> QED
      BY <2>1, <3>1
  <2>3. CASE Call(p)
    <3>1. PICK level \in {WARN, INFO} : Push(p, Frame(level, FALSE))
      BY <2>3 DEF Call
    <3>2. stack[p] = <<>> /\ signals' = signals
      BY <2>3 DEF Call
    <3> QED
      BY <2>1, <3>1, <3>2
  <2>4. CASE Signal(p)
    <3>1. Push(p, Frame(WARN, TRUE)) /\ signals' = signals + 1
      BY <2>4 DEF Signal
    <3> QED
      BY <2>1, <3>1
  <2> QED
    BY <2>2, <2>3, <2>4
<1>3. /\ Called(s, t, n) /\ Len(t) = n + 1 /\ t[n + 1] = frame
      /\ DOMAIN t = DOMAIN s \cup {n + 1} /\ \A i \in DOMAIN s : t[i] = s[i]
  BY <1>1, <1>2, PushCalls DEF TypeInv
<1>4. /\ file' = file /\ written' = written /\ uncut' = uncut
      /\ pos'[p] = pos[p] \/ pos'[p] = Len(file)
  BY DEF Open, Call, Signal, history, TypeInv, TypeOK
<1>5. PICK f \in Nat, o \in Nat, r \in Nat, g \in Nat, u \in Nat, h \in Nat :
        /\ f = Filled(p) /\ o = Lines(p) /\ r = Others(p) /\ g = signals /\ u = uncut[p]
        /\ h = Filled(p)' /\ h <= f
  <2>1. /\ Lines(p) \in Nat /\ Others(p) \in Nat /\ Filled(p) \in Nat
        /\ signals \in Nat /\ uncut[p] \in Nat
    BY NumbersAre
  <2>2. /\ Len(file) \in Nat /\ pos[p] \in Nat /\ pos[p] <= Filled(p) /\ Len(file) <= Filled(p)
    BY NumbersAre
  <2>3. Filled(p)' = pos[p] \/ Filled(p)' = Len(file)
    BY <1>4 DEF Filled
  <2>4. Filled(p)' \in Nat /\ Filled(p)' <= Filled(p)
    BY <2>2, <2>3
  <2> QED
    BY <2>1, <2>4
<1>6. Sound(s, n, f, o, r, g, u)
  BY <1>1, <1>5 DEF Holds, Paying
<1>7. Capped(h) <= Capped(f)
  BY <1>5, LoggerAssumption DEF Capped
<1>8. PICK g2 \in Nat : g2 = signals' /\ g2 = IF t[n + 1].handler THEN g + 1 ELSE g
  BY <1>2, <1>3, <1>5
<1>9. Sound(t, n + 1, h, o, r, g2, u)
  BY <1>3, <1>6, <1>7, <1>8, SoundCalled
<1>10. Lines(p)' = o /\ Others(p)' = r
  BY <1>4, <1>5, LinesStay
<1>11. Paying(p)'
  BY <1>1, <1>3, <1>4, <1>5, <1>8, <1>9, <1>10 DEF Paying
<1>12. Lines(p)' <= Len(file')
  BY <1>4, <1>5, <1>10 DEF Holds
<1>13. Ahead(p)'
  <2>1. (\A i \in DOMAIN t : t[i].at # "banner") => \A i \in DOMAIN s : s[i].at # "banner"
    BY <1>3
  <2> QED
    BY <1>1, <1>4, <1>5, <1>10, <1>12, <2>1 DEF Holds, Ahead
<1> QED
  BY <1>11, <1>12, <1>13 DEF Holds

-----------------------------------------------------------------------------
(* How deep the stacks are, and how many lines a process has in the file.   *)

\* A set of numbers has a least one.
LEMMA Least ==
  ASSUME NEW T \in SUBSET Nat, T # {}
  PROVE  \E m \in T : \A k \in T : m <= k
<1> DEFINE U == {0 .. k : k \in T}
<1>1. U \subseteq FiniteSubsetsOf(Nat) /\ U # {}
  <2>1. \A k \in Nat : IsFiniteSet(0 .. k) /\ 0 .. k \subseteq Nat
    BY FS_Interval
  <2> QED
    BY <2>1 DEF FiniteSubsetsOf
<1>2. IsWellFoundedOn(StrictSubsetOrdering(Nat), FiniteSubsetsOf(Nat))
  BY FS_StrictSubsetOrderingWellFounded
<1>3. PICK x \in U : \A y \in U : ~ (<<y, x>> \in StrictSubsetOrdering(Nat))
  BY <1>1, <1>2, WFMin
<1>4. PICK m \in T : x = 0 .. m
  OBVIOUS
<1>5. ASSUME NEW k \in T, k < m PROVE FALSE
  <2>1. 0 .. k \in U /\ 0 .. k \subseteq 0 .. m /\ m \in 0 .. m /\ m \notin 0 .. k
    BY <1>5
  <2>2. 0 .. k # 0 .. m
    BY <2>1
  <2>3. <<0 .. k, 0 .. m>> \in StrictSubsetOrdering(Nat)
    BY <2>1, <2>2 DEF StrictSubsetOrdering
  <2> QED
    BY <1>3, <1>4, <2>1, <2>3
<1> QED
  BY <1>5

\* Only a rollback over a rollback, or a handler, makes a stack deeper.
Deep(s, k) == k + Need(s, k) > 2 * (1 + Signalled(s, k)) + Debt(s, k)

LEMMA NotDeep ==
  ASSUME NEW s, NEW n \in Nat, DOMAIN s = 1 .. n
  PROVE  \A k \in 0 .. n : ~Deep(s, k)
<1> SUFFICES ASSUME NEW k0 \in 0 .. n, Deep(s, k0) PROVE FALSE
  OBVIOUS
<1> DEFINE T == {k \in 0 .. n : Deep(s, k)}
<1>1. T \in SUBSET Nat /\ T # {}
  OBVIOUS
<1>2. PICK m \in T : \A k \in T : m <= k
  BY <1>1, Least
<1>3. Deep(s, m) /\ m \in 0 .. n
  OBVIOUS
<1>4. m # 0
  <2>1. Debt(s, 0) = 0 /\ Signalled(s, 0) = 0 /\ Need(s, 0) \in {0, 1}
    BY Unfolded, CertainIs
  <2>2. ~Deep(s, 0)
    BY <2>1 DEF Deep
  <2> QED
    BY <1>3, <2>2
<1>5. m \in Nat \ {0} /\ m - 1 \in 0 .. n /\ m - 1 \in Nat /\ m \in 1 .. n
  BY <1>3, <1>4
<1>6. ~Deep(s, m - 1)
  <2>1. m - 1 \notin T
    BY <1>2, <1>5
  <2> QED
    BY <1>5, <2>1
<1>7. /\ Debt(s, m - 1) \in Nat /\ Signalled(s, m - 1) \in Nat
      /\ Debt(s, m) = IF (Rolled(s, m) \/ Cutting(s, m)) /\ Primed(s, m - 1)
                      THEN Debt(s, m - 1) + 1 ELSE Debt(s, m - 1)
      /\ Signalled(s, m) = IF s[m].handler THEN Signalled(s, m - 1) + 1
                           ELSE Signalled(s, m - 1)
      /\ Primed(s, m) <=> Rolled(s, m) \/ (~Cutting(s, m) /\ Primed(s, m - 1))
  BY <1>5, Unfold
<1>8. Need(s, m) \in {0, 1} /\ Need(s, m - 1) \in {0, 1}
  BY CertainIs
<1>9. m - 1 + Need(s, m - 1) <= 2 * (1 + Signalled(s, m - 1)) + Debt(s, m - 1)
  BY <1>5, <1>6, <1>7, <1>8 DEF Deep
<1>10. CASE s[m].handler
  BY <1>3, <1>5, <1>7, <1>8, <1>9, <1>10 DEF Deep
<1>11. CASE ~s[m].handler /\ m = 1
  BY <1>3, <1>5, <1>7, <1>8, <1>11, Unfolded DEF Deep
<1>12. CASE ~s[m].handler /\ m > 1
  <2>1. (m - 1) + 1 = m /\ m - 1 \in Nat \ {0}
    BY <1>5, <1>12
  <2>2. Child(s, m - 1)
    BY <1>5, <1>12, <2>1 DEF Child
  <2>3. Need(s, m - 1) = 1 /\ Primed(s, m - 1)
    <3>1. Primed(s, m - 1)
      BY <2>1, <2>2, Unfold DEF Rolled
    <3> QED
      BY <2>2, <3>1, CertainIs
  <2>4. Need(s, m) = 1 => Rolled(s, m) \/ Cutting(s, m)
    BY <1>7, <2>3 DEF Need, Rolled
  <2> QED
    BY <1>3, <1>5, <1>7, <1>8, <1>9, <1>12, <2>3, <2>4 DEF Deep
<1> QED
  BY <1>5, <1>10, <1>11, <1>12

\* What is paid for is bounded.
LEMMA Boundary ==
  ASSUME TypeInv, BoundInv
  PROVE  Bounded
<1>1. ASSUME NEW p \in Procs
      PROVE  /\ Len(stack[p]) <= 2 * (1 + Handlers(p)) + uncut[p] + (Others(p) + signals) \div Limit
             /\ Lines(p) <= Limit + signals + Limit * uncut[p] + (Others(p) + signals) \div Limit
  <2> DEFINE s == stack[p]
  <2>1. PICK n \in Nat, f \in Nat, o \in Nat, r \in Nat, g \in Nat, u \in Nat :
          /\ n = Len(stack[p]) /\ DOMAIN s = 1 .. n
          /\ f = Filled(p) /\ o = Lines(p) /\ r = Others(p) /\ g = signals /\ u = uncut[p]
    BY NumbersAre
  <2>2. Sound(s, n, f, o, r, g, u)
    BY <2>1 DEF BoundInv, Holds, Paying
  <2>3. Handlers(p) = Signalled(s, n)
    BY <2>1 DEF Handlers, Signalled, Handling
  <2>4. PICK z \in Nat : z = (r + g) \div Limit
    <3>1. r + g \in Nat
      OBVIOUS
    <3> QED
      BY <3>1, Division
  <2>5. Signalled(s, n) \in Nat /\ Debt(s, n) \in Nat /\ Need(s, n) \in {0, 1}
    BY CountsAre, CertainIs
  <2>6. Debt(s, n) <= u + z
    <3>1. CASE n = 0
      BY <3>1, Unfolded
    <3>2. CASE n # 0
      <4>1. n \in Nat \ {0}
        BY <3>2
      <4> QED
        BY <2>1, <2>2, <2>4, <4>1, SoundCovers
    <3> QED
      BY <3>1, <3>2
  <2>7. n + Need(s, n) <= 2 * (1 + Signalled(s, n)) + Debt(s, n)
    <3>1. ~Deep(s, n)
      BY <2>1, NotDeep
    <3> QED
      BY <2>5, <3>1 DEF Deep
  <2>8. n <= 2 * (1 + Signalled(s, n)) + u + z
    BY <2>5, <2>6, <2>7
  <2>9. o <= Ceiling(r, g, u)
    <3>1. PICK a \in [Nat -> Nat] : Fits(s, n, o, Ceiling(r, g, u), a)
      BY <2>2 DEF Sound, Allowed
    <3>2. o <= a[n] /\ a[n] <= Ceiling(r, g, u) /\ a[n] \in Nat
      BY <3>1 DEF Fits, Grant
    <3>3. Ceiling(r, g, u) \in Nat
      BY CeilingIs
    <3> QED
      BY <3>2, <3>3
  <2>10. Ceiling(r, g, u) = Limit + g + Limit * u + z
    BY <2>4 DEF Ceiling
  <2> QED
    BY <2>1, <2>3, <2>4, <2>8, <2>9, <2>10
<1> QED
  BY <1>1 DEF Bounded, NestingBounded, ShareBounded, Lines, Own

-----------------------------------------------------------------------------
(* Every step.                                                              *)

\* A step of p in its own stack.
LEMMA HoldsStep ==
  ASSUME TypeInv, NEW p \in Procs, Holds(p),
         Open(p) \/ Call(p) \/ Close(p) \/ Signal(p) \/ LogStep(p)
  PROVE  Holds(p)'
<1>1. CASE Open(p) \/ Call(p) \/ Signal(p)
  BY <1>1, HoldsCall
<1>2. CASE Close(p)
  <2>1. /\ stack' = stack /\ pos' = pos /\ file' = file /\ written' = written
        /\ signals' = signals /\ uncut' = uncut
    BY <1>2 DEF Close, bounds, history
  <2>2. Sound(stack'[p], Len(stack[p]), Filled(p), Lines(p), Others(p), signals', uncut'[p])
    BY <2>1 DEF Holds, Paying
  <2>3. Len(stack'[p]) = Len(stack[p])
    BY <2>1
  <2> QED
    BY <2>1, <2>2, <2>3, HoldsQuiet
<1>3. CASE Enter(p)
  <2>1. /\ Is(p, "enter") /\ pos' = pos /\ file' = file /\ written' = written
        /\ signals' = signals /\ uncut' = uncut
        /\ Pop(p) \/ Goto(p, IF p \in Locked THEN "lock" ELSE "size")
    BY <1>3 DEF Enter, bounds, history
  <2>2. stack[p] # <<>> /\ stack[p][Len(stack[p])].at = "enter"
    BY <2>1, TopAt DEF TypeInv
  <2>3. CASE Pop(p)
    BY <2>1, <2>2, <2>3, HoldsPop
  <2>4. CASE Goto(p, IF p \in Locked THEN "lock" ELSE "size")
    <3>1. PICK place \in Places : place \in {"lock", "size"} /\ Goto(p, place)
      BY <2>4 DEF Places
    <3> QED
      BY <2>1, <2>2, <3>1, HoldsGoto
  <2> QED
    BY <2>1, <2>3, <2>4
<1>4. CASE Lock(p)
  <2>1. /\ Is(p, "lock") /\ pos' = pos /\ file' = file /\ written' = written
        /\ signals' = signals /\ uncut' = uncut /\ Goto(p, "size") /\ "size" \in Places
    BY <1>4 DEF Lock, bounds, history, Places
  <2>2. stack[p] # <<>> /\ stack[p][Len(stack[p])].at = "lock"
    BY <2>1, TopAt DEF TypeInv
  <2> QED
    BY <2>1, <2>2, HoldsGoto
<1>5. CASE CheckSize(p)
  <2>1. /\ Is(p, "size") /\ pos' = pos /\ file' = file /\ written' = written
        /\ signals' = signals /\ uncut' = uncut
        /\ Goto(p, IF pos[p] >= Limit THEN "copy" ELSE "write")
    BY <1>5 DEF CheckSize, bounds, history
  <2>2. stack[p] # <<>> /\ stack[p][Len(stack[p])].at = "size"
    BY <2>1, TopAt DEF TypeInv
  <2>3. PICK place \in Places : /\ Goto(p, place)
                                /\ \/ pos[p] >= Limit /\ place = "copy"
                                   \/ pos[p] < Limit /\ place = "write"
    <3>1. pos[p] \in Nat /\ Limit \in Nat
      BY NumbersAre, LoggerAssumption
    <3>2. "copy" \in Places /\ "write" \in Places
      BY DEF Places
    <3>3. CASE pos[p] >= Limit
      BY <2>1, <3>2, <3>3
    <3>4. CASE pos[p] < Limit
      <4>1. ~(pos[p] >= Limit)
        BY <3>1, <3>4
      <4> QED
        BY <2>1, <3>2, <3>4, <4>1
    <3> QED
      BY <3>1, <3>3, <3>4
  <2> QED
    BY <2>1, <2>2, <2>3, HoldsGoto
<1>6. CASE Copy(p) \/ CopyFails(p)
  <2>1. /\ Is(p, "copy") /\ pos' = pos /\ file' = file /\ written' = written
        /\ signals' = signals /\ uncut' = uncut /\ Goto(p, "truncate") /\ "truncate" \in Places
    BY <1>6 DEF Copy, CopyFails, bounds, Places
  <2>2. stack[p] # <<>> /\ stack[p][Len(stack[p])].at = "copy"
    BY <2>1, TopAt DEF TypeInv
  <2> QED
    BY <2>1, <2>2, HoldsGoto
<1>7. CASE Truncate(p) \/ TruncateFails(p)
  BY <1>7, HoldsCut
<1>8. CASE Banner(p)
  BY <1>8, HoldsBanner
<1>9. CASE Write(p)
  BY <1>9, HoldsWrite
<1>10. CASE Unlock(p)
  <2>1. /\ Is(p, "unlock") /\ pos' = pos /\ file' = file /\ written' = written
        /\ signals' = signals /\ uncut' = uncut /\ Pop(p)
    BY <1>10 DEF Unlock, bounds, history
  <2>2. stack[p] # <<>> /\ stack[p][Len(stack[p])].at = "unlock"
    BY <2>1, TopAt DEF TypeInv
  <2> QED
    BY <2>1, <2>2, HoldsPop
<1> QED
  BY <1>1, <1>2, <1>3, <1>4, <1>5, <1>6, <1>7, <1>8, <1>9, <1>10 DEF LogStep

\* What a step of p does to what the others count.
LEMMA SeenBeside ==
  ASSUME TypeInv, NEW p \in Procs, NEW q \in Procs \ {p},
         Open(p) \/ Call(p) \/ Close(p) \/ Signal(p) \/ LogStep(p)
  PROVE  /\ stack'[q] = stack[q] /\ pos'[q] = pos[q] /\ uncut'[q] = uncut[q]
         /\ \/ signals' = signals /\ written' = written /\ (file' = file \/ file' = <<>>)
            \/ signals' = signals + 1 /\ written' = written /\ file' = file
            \/ /\ signals' = signals /\ written' = Append(written, p)
               /\ file' = Append(file, Len(written) + 1)
<1>1. stack'[q] = stack[q]
  BY StepOf DEF Beside
<1>2. pos \in [Procs -> Nat] /\ uncut \in [Procs -> Nat]
  BY DEF TypeInv, TypeOK
<1>3. CASE Open(p) \/ Call(p) \/ Close(p) \/ Signal(p)
  <2>1. /\ file' = file /\ written' = written /\ uncut' = uncut
        /\ pos' = pos \/ pos' = [pos EXCEPT ![p] = Len(file)]
        /\ signals' = signals \/ signals' = signals + 1
    BY <1>3 DEF Open, Call, Close, Signal, bounds, history
  <2>2. pos'[q] = pos[q]
    BY <1>2, <2>1
  <2> QED
    BY <1>1, <2>1, <2>2
<1>4. CASE Enter(p) \/ Lock(p) \/ CheckSize(p) \/ Copy(p) \/ CopyFails(p) \/ Banner(p) \/ Unlock(p)
  <2>1. /\ file' = file /\ written' = written /\ uncut' = uncut /\ signals' = signals
        /\ pos' = pos \/ pos' = [pos EXCEPT ![p] = Len(file)]
    BY <1>4 DEF Enter, Lock, CheckSize, Copy, CopyFails, Banner, Unlock, bounds, history
  <2>2. pos'[q] = pos[q]
    BY <1>2, <2>1
  <2> QED
    BY <1>1, <2>1, <2>2
<1>5. CASE Truncate(p) \/ TruncateFails(p)
  <2>1. /\ file' = file \/ file' = <<>>
        /\ written' = written /\ signals' = signals
        /\ uncut' = uncut \/ uncut' = [uncut EXCEPT ![p] = @ + 1]
        /\ pos' = [pos EXCEPT ![p] = 0]
    BY <1>5 DEF Truncate, TruncateFails, bounds
  <2>2. pos'[q] = pos[q] /\ uncut'[q] = uncut[q]
    BY <1>2, <2>1
  <2> QED
    BY <1>1, <2>1, <2>2
<1>6. CASE Write(p)
  <2>1. /\ \/ written' = written /\ file' = file /\ pos' = pos
           \/ /\ written' = Append(written, p) /\ file' = Append(file, Len(written) + 1)
              /\ pos' = [pos EXCEPT ![p] = Len(file')]
        /\ uncut' = uncut /\ signals' = signals
    BY <1>6 DEF Write, bounds
  <2>2. pos'[q] = pos[q]
    BY <1>2, <2>1
  <2> QED
    BY <1>1, <2>1, <2>2
<1> QED
  BY <1>3, <1>4, <1>5, <1>6 DEF LogStep

\* A process does not nest its rollbacks deeper than the lines of others, handlers and
\* truncates that failed make it, and has no more lines in the file than the limit and
\* those allow, whatever processes share the log and whatever its limit
\* (logger.c:137-177).
THEOREM LoggerBounded == Spec => []Bounded
<1>1. Init => BoundInv
  <2> SUFFICES ASSUME Init, NEW p \in Procs PROVE Holds(p)
    BY DEF BoundInv
  <2>1. /\ stack[p] = <<>> /\ pos[p] = 0 /\ file = <<>> /\ written = <<>>
        /\ signals = 0 /\ uncut[p] = 0
    BY DEF Init
  <2>2. Lines(p) = 0 /\ Others(p) = 0
    <3>1. Own(p) = {} /\ {i \in DOMAIN written : written[i] \in Procs \ {p}} = {}
      BY <2>1 DEF Own, Range
    <3> QED
      BY <3>1, FS_EmptySet DEF Lines, Others
  <2>3. Filled(p) = 0 /\ Len(stack[p]) = 0 /\ Len(file) = 0
    BY <2>1 DEF Filled
  <2>4. Paying(p)
    BY <2>1, <2>2, <2>3, SoundFirst DEF Paying
  <2> QED
    BY <2>1, <2>2, <2>3, <2>4 DEF Holds, Ahead
<1>2. IInv /\ BoundInv /\ [Next]_vars => BoundInv'
  <2> SUFFICES ASSUME IInv, BoundInv, [Next]_vars PROVE BoundInv'
    OBVIOUS
  <2>1. TypeInv
    BY DEF IInv
  <2>2. ASSUME NEW p \in Procs, Open(p) \/ Call(p) \/ Close(p) \/ Signal(p) \/ LogStep(p)
        PROVE  BoundInv'
    <3> SUFFICES ASSUME NEW q \in Procs PROVE Holds(q)'
      BY DEF BoundInv
    <3>1. Holds(q)
      BY DEF BoundInv
    <3>2. CASE q = p
      BY <2>1, <2>2, <3>1, <3>2, HoldsStep
    <3>3. CASE q # p
      <4>1. q \in Procs \ {p}
        BY <3>3
      <4>2. /\ stack'[q] = stack[q] /\ pos'[q] = pos[q] /\ uncut'[q] = uncut[q]
            /\ \/ signals' = signals /\ written' = written /\ (file' = file \/ file' = <<>>)
               \/ signals' = signals + 1 /\ written' = written /\ file' = file
               \/ /\ signals' = signals /\ written' = Append(written, p)
                  /\ file' = Append(file, Len(written) + 1)
        BY <2>1, <2>2, <4>1, SeenBeside
      <4> QED
        BY <2>1, <3>1, <4>1, <4>2, HoldsBeside
    <3> QED
      BY <3>2, <3>3
  <2>3. CASE UNCHANGED vars
    <3>1. UNCHANGED <<stack, pos, file, written, signals, uncut>>
      BY <2>3 DEF vars, bounds, history
    <3> QED
      BY <3>1 DEF BoundInv, Holds, Paying, Ahead, Filled, Lines, Own, Others
  <2> QED
    BY <2>2, <2>3 DEF Next
<1>3. IInv /\ BoundInv => Bounded
  BY Boundary DEF IInv
<1> QED
  BY <1>1, <1>2, <1>3, Invariance, PTL DEF Spec

=============================================================================
