-------------------------- MODULE SchedulerProofs ---------------------------
(***************************************************************************)
(* Proofs about Scheduler, for every capacity, array length, set of        *)
(* callbacks and nesting of pumps.                                         *)
(***************************************************************************)
EXTENDS Scheduler, SequenceTheorems, TLAPS

\* The % operator under a name, so that the solver treats it as a function.
Mod(x, n) == x % n

\* What % does within two turns of the ring.
LEMMA ModWrap ==
  ASSUME NEW n \in Nat \ {0}, NEW x \in Nat, x < n + n
  PROVE  Mod(x, n) = IF x < n THEN x ELSE x - n
  BY DEF Mod

\* The cell of the i-th waiting callback, and the invariant without %.
Cell(i) == IF head + i - 1 < cap THEN head + i - 1 ELSE head + i - 1 - cap

IInv == TypeOK /\ RingInv

\* The conjuncts of RingInv with the % operator resolved: cell i of the ring
\* holds the i-th waiting callback.
LEMMA RingCells ==
  ASSUME IInv, cap > 0
  PROVE  /\ cap \in 1 .. MAXQ /\ head \in 0 .. cap - 1 /\ tail \in 0 .. cap - 1
         /\ count \in 0 .. cap
         /\ tail = IF head + count < cap THEN head + count ELSE head + count - cap
         /\ Waiting = [i \in 1 .. count |-> q[Cell(i)]]
         /\ \A i \in 1 .. count : q[Cell(i)] \in Task
         /\ NextCell(head) = IF head + 1 < cap THEN head + 1 ELSE 0
         /\ NextCell(tail) = IF tail + 1 < cap THEN tail + 1 ELSE 0
  <1> USE MaxqAssumption
  <1>1. cap \in Nat \ {0} /\ cap <= MAXQ /\ head \in Nat /\ tail \in Nat /\ count \in Nat
        /\ head < cap /\ tail < cap /\ count <= cap /\ tail = Mod(head + count, cap)
    BY DEF IInv, TypeOK, RingInv, Mod
  <1>2. tail = IF head + count < cap THEN head + count ELSE head + count - cap
    BY <1>1, ModWrap
  <1>3. \A i \in 1 .. count : Mod(head + i - 1, cap) = Cell(i)
    BY <1>1, ModWrap DEF Cell
  <1>4. Waiting = [i \in 1 .. count |-> q[Cell(i)]]
    BY <1>3 DEF Waiting, Mod
  <1>5. \A i \in 1 .. count : q[Cell(i)] \in Task
    BY <1>4 DEF IInv, RingInv
  <1>6. Mod(head + 1, cap) = IF head + 1 < cap THEN head + 1 ELSE 0
    BY <1>1, ModWrap
  <1>7. Mod(tail + 1, cap) = IF tail + 1 < cap THEN tail + 1 ELSE 0
    BY <1>1, ModWrap
  <1> QED BY <1>1, <1>2, <1>4, <1>5, <1>6, <1>7 DEF NextCell, Mod

-----------------------------------------------------------------------------
\* The first n elements of a sequence.
LEMMA Prefix ==
  ASSUME NEW S, NEW s \in Seq(S), NEW n \in Nat, n <= Len(s)
  PROVE  /\ SubSeq(s, 1, n) \in Seq(S) /\ Len(SubSeq(s, 1, n)) = n
         /\ \A i \in 1 .. n : SubSeq(s, 1, n)[i] = s[i]
  <1>1. SubSeq(s, 1, n) = [i \in 1 .. n |-> s[i]]
    OBVIOUS
  <1> QED BY <1>1

\* The pump stack after each of the three ways a step changes it.
LEMMA PumpStack ==
  ASSUME pumps \in Seq(Frame), pumps # << >>
  PROVE  /\ Len(pumps) \in Nat \ {0} /\ Top \in Frame
         /\ \A i \in 1 .. Len(pumps) : pumps[i] \in Frame
         /\ SubSeq(pumps, 1, Len(pumps) - 1) \in Seq(Frame)
         /\ Len(SubSeq(pumps, 1, Len(pumps) - 1)) = Len(pumps) - 1
         /\ \A i \in 1 .. Len(pumps) - 1 : SubSeq(pumps, 1, Len(pumps) - 1)[i] = pumps[i]
  <1>1. Len(pumps) \in Nat \ {0} /\ \A i \in 1 .. Len(pumps) : pumps[i] \in Frame
    OBVIOUS
  <1>2. /\ SubSeq(pumps, 1, Len(pumps) - 1) \in Seq(Frame)
        /\ Len(SubSeq(pumps, 1, Len(pumps) - 1)) = Len(pumps) - 1
        /\ \A i \in 1 .. Len(pumps) - 1 : SubSeq(pumps, 1, Len(pumps) - 1)[i] = pumps[i]
    <2>1. PICK n \in Nat : n = Len(pumps) - 1
      BY <1>1
    <2> QED BY <2>1, <1>1, Prefix
  <1>3. Top \in Frame
    BY <1>1 DEF Top
  <1> QED BY <1>1, <1>2, <1>3

\* Replacing the innermost frame leaves the others and the depth alone.
LEMMA PumpReplace ==
  ASSUME pumps \in Seq(Frame), pumps # << >>, NEW f \in Frame,
         pumps' = [pumps EXCEPT ![Len(pumps)] = f]
  PROVE  /\ pumps' \in Seq(Frame) /\ Len(pumps') = Len(pumps)
         /\ pumps'[Len(pumps)] = f
         /\ \A i \in 1 .. Len(pumps) - 1 : pumps'[i] = pumps[i]
  OBVIOUS

\* A step that touches neither the ring nor the pumps keeps the invariant.
LEMMA RingUnchanged ==
  ASSUME IInv, UNCHANGED <<cap, q, head, tail, count, pumps>>,
         ret' \in [st : Status, didWork : BOOLEAN]
  PROVE  IInv'
  <1>1. Waiting' = Waiting
    BY DEF Waiting
  <1> QED BY <1>1 DEF IInv, TypeOK, RingInv

\* Every step of the scheduler (a create, destroy, enqueue, or any point of a
\* nested pump) keeps the record well typed and the ring well formed.
THEOREM InvInductive == IInv /\ [Next]_vars => IInv'
  <1> SUFFICES ASSUME IInv, [Next]_vars PROVE IInv'
    OBVIOUS
  <1> USE MaxqAssumption, ArgsAssumption
  <1>t. TypeOK /\ RingInv
    BY DEF IInv
  <1>n. cap \in Nat /\ head \in Nat /\ tail \in Nat /\ count \in Nat
    BY DEF IInv, TypeOK
  <1>1. ASSUME NEW n \in Capacities, SchedulerCreate(n) PROVE IInv'
    <2>1. CASE UNCHANGED <<ring, pumps>> /\ ret' \in [st : Status, didWork : BOOLEAN]
      BY <2>1, <1>t, RingUnchanged DEF ring
    <2>2. CASE UNCHANGED pumps /\ cap' = Clamp(n) /\ n > 0 /\ head' = 0 /\ tail' = 0 /\ count' = 0
               /\ q' = [i \in 0 .. MAXQ - 1 |-> NoTask] /\ Return("OK")
      <3>1. cap' \in Nat \ {0} /\ cap' <= MAXQ
        BY <2>2 DEF Clamp
      <3>2. (head' + count') % cap' = 0
        <4>1. \A k \in Nat \ {0} : Mod(0 + 0, k) = 0
          BY ModWrap
        <4> QED BY <4>1, <2>2, <3>1 DEF Mod
      <3>3. TypeOK'
        BY <2>2, <3>1, <1>t DEF TypeOK, Return, Status
      <3> QED BY <2>2, <3>1, <3>2, <3>3, <1>t DEF IInv, RingInv
    <2>3. \/ UNCHANGED <<ring, pumps>> /\ (Return("Invalid") \/ Return("OutOfMemory"))
          \/ UNCHANGED pumps /\ cap' = Clamp(n) /\ n > 0 /\ head' = 0 /\ tail' = 0 /\ count' = 0
              /\ q' = [i \in 0 .. MAXQ - 1 |-> NoTask] /\ Return("OK")
      BY <1>1 DEF SchedulerCreate
    <2>4. ASSUME Return("Invalid") \/ Return("OutOfMemory")
          PROVE  ret' \in [st : Status, didWork : BOOLEAN]
      <3>1. \A st \in Status : [st |-> st, didWork |-> FALSE] \in [st : Status, didWork : BOOLEAN]
        OBVIOUS
      <3>2. "Invalid" \in Status /\ "OutOfMemory" \in Status
        BY DEF Status
      <3> QED BY <2>4, <3>1, <3>2 DEF Return
    <2> QED BY <2>1, <2>2, <2>3, <2>4
  <1>2. CASE SchedulerDestroy
    BY <1>2, <1>t DEF SchedulerDestroy, Return, IInv, TypeOK, RingInv, Status, Waiting
  <1>3. ASSUME NEW t \in Task, SchedulerEnqueue(t) PROVE IInv'
    <2>1. CASE count >= cap
      <3>1. cap \in Nat /\ count \in Nat
        BY <1>t DEF TypeOK
      <3>2. UNCHANGED <<cap, q, head, tail, count, pumps>> /\ ret' = [st |-> "OutOfMemory", didWork |-> FALSE]
        BY <1>3, <2>1, <3>1 DEF SchedulerEnqueue, ring, Return
      <3> QED BY <3>2, RingUnchanged DEF Status
    <2>2. CASE count < cap
      <3>1. /\ cap > 0 /\ cap' = cap /\ head' = head /\ count' = count + 1 /\ pumps' = pumps
            /\ tail' = NextCell(tail) /\ q' = [q EXCEPT ![tail] = t]
            /\ ret' = [st |-> "OK", didWork |-> FALSE]
        BY <1>3, <1>t, <2>2 DEF SchedulerEnqueue, Return, TypeOK, RingInv
      <3>2. TypeOK'
        BY <1>t, <3>1, RingCells DEF TypeOK, Status
      <3>r. /\ cap \in Nat \ {0} /\ head \in 0 .. cap - 1 /\ tail \in 0 .. cap - 1 /\ count \in 0 .. cap
            /\ tail = (IF head + count < cap THEN head + count ELSE head + count - cap)
            /\ NextCell(tail) = (IF tail + 1 < cap THEN tail + 1 ELSE 0)
            /\ \A i \in 1 .. count : q[Cell(i)] \in Task
        BY <3>1, RingCells
      <3>3. count' <= cap' /\ head' < cap' /\ tail' < cap' /\ tail' = (head' + count') % cap'
        <4>1. NextCell(tail) = Mod(head + (count + 1), cap)
          BY <3>r, <2>2, ModWrap
        <4> QED BY <4>1, <3>1, <3>r, <2>2 DEF Mod
      <3>4. \A i \in 1 .. count' : Waiting'[i] \in Task
        <4> SUFFICES ASSUME NEW i \in 1 .. count + 1 PROVE q'[(head + i - 1) % cap] \in Task
          BY <3>1 DEF Waiting
        <4>2. (head + i - 1) % cap = Cell(i)
          <5>1. Mod(head + i - 1, cap) = Cell(i)
            BY <3>r, <2>2, ModWrap DEF Cell
          <5> QED BY <5>1 DEF Mod
        <4>3. Cell(i) \in 0 .. MAXQ - 1 /\ DOMAIN q = 0 .. MAXQ - 1
          BY <3>r, <2>2, <1>t DEF Cell, TypeOK
        <4>4. CASE i \in 1 .. count
          <5>1. Cell(i) # tail
            BY <3>r, <4>4, <2>2 DEF Cell
          <5> QED BY <5>1, <4>2, <4>3, <4>4, <3>1, <3>r
        <4>5. CASE i = count + 1
          <5>1. Cell(i) = tail
            BY <3>r, <4>5, <2>2 DEF Cell
          <5> QED BY <5>1, <4>2, <4>3, <3>1
        <4> QED BY <4>4, <4>5, <3>r
      <3> QED BY <3>1, <3>2, <3>3, <3>4, <1>t DEF IInv, RingInv
    <2> QED BY <2>1, <2>2, <1>t DEF TypeOK
  <1>4. ASSUME NEW n \in Budgets, PumpCall(n) PROVE IInv'
    BY <1>4, <1>t DEF PumpCall, InClient, Top, IInv, TypeOK, RingInv, Waiting, Frame
  <1>5. CASE PumpStep
    <2>1. /\ pumps # << >> /\ count > 0 /\ cap' = cap /\ q' = q /\ tail' = tail /\ ret' = ret
          /\ head' = NextCell(head) /\ count' = count - 1
          /\ pumps' = [pumps EXCEPT ![Len(pumps)].task = q[head]]
      BY <1>5 DEF PumpStep, PumpTurn, GoesOn
    <2>2. cap > 0
      BY <1>t, <2>1 DEF TypeOK, RingInv
    <2>3. /\ pumps' \in Seq(Frame) /\ Len(pumps') = Len(pumps)
          /\ \A i \in 1 .. Len(pumps) - 1 : pumps'[i] = pumps[i]
      <3>1. q[head] \in Task \cup {NoTask}
        BY <1>t, <2>2, RingCells DEF TypeOK
      <3> DEFINE f == [Top EXCEPT !.task = q[head]]
      <3>2. f \in Frame
        BY <3>1, <2>1, <1>t, PumpStack DEF TypeOK, Frame
      <3>3. pumps' = [pumps EXCEPT ![Len(pumps)] = f]
        BY <2>1 DEF Top
      <3> QED BY <3>2, <3>3, <2>1, <1>t, PumpReplace DEF TypeOK
    <2>r. /\ cap \in Nat \ {0} /\ head \in 0 .. cap - 1 /\ tail \in 0 .. cap - 1 /\ count \in 0 .. cap
          /\ tail = (IF head + count < cap THEN head + count ELSE head + count - cap)
          /\ NextCell(head) = (IF head + 1 < cap THEN head + 1 ELSE 0)
          /\ \A i \in 1 .. count : q[Cell(i)] \in Task
      BY <2>2, RingCells
    <2>h. PICK h \in 0 .. cap - 1 : h = NextCell(head) /\ h = IF head + 1 < cap THEN head + 1 ELSE 0
      BY <2>r
    <2>4. count' <= cap' /\ head' < cap' /\ tail' < cap' /\ tail' = (head' + count') % cap'
      <3>1. tail = Mod(h + (count - 1), cap)
        <4>1. h + (count - 1) \in Nat /\ h + (count - 1) < cap + cap
          BY <2>h, <2>r, <2>1
        <4>2. Mod(h + (count - 1), cap) = IF h + (count - 1) < cap THEN h + (count - 1)
                                          ELSE h + (count - 1) - cap
          BY <4>1, <2>r, ModWrap
        <4> QED BY <4>2, <2>h, <2>r, <2>1
      <3> QED BY <3>1, <2>h, <2>1, <2>r DEF Mod
    <2>5. \A i \in 1 .. count' : Waiting'[i] \in Task
      <3> SUFFICES ASSUME NEW i \in 1 .. count - 1 PROVE q[(h + i - 1) % cap] \in Task
        BY <2>1, <2>h DEF Waiting
      <3>1. Mod(h + i - 1, cap) = Cell(i + 1)
        BY <2>h, <2>r, ModWrap DEF Cell
      <3>2. i + 1 \in 1 .. count
        BY <2>r
      <3> QED BY <3>1, <3>2, <2>r DEF Mod
    <2>6. TypeOK'
      BY <1>t, <2>1, <2>2, <2>3, RingCells DEF TypeOK
    <2> QED BY <2>1, <2>2, <2>3, <2>4, <2>5, <2>6, <1>t DEF IInv, RingInv
  <1>6. CASE TaskReturn
    <2> DEFINE f == [Top EXCEPT !.task = NoTask, !.steps = @ + 1]
    <2>1. pumps # << >> /\ UNCHANGED <<cap, q, head, tail, count, ret>>
      BY <1>6 DEF TaskReturn
    <2>2. pumps' = [pumps EXCEPT ![Len(pumps)] = f]
      BY <1>6 DEF TaskReturn, Top
    <2>3. f \in Frame
      <3>1. Top \in Frame
        BY <2>1, <1>t, PumpStack DEF TypeOK
      <3>2. Top.steps + 1 \in Nat
        BY <3>1 DEF Frame
      <3> QED BY <3>1, <3>2, Zenon DEF Frame
    <2>4. /\ pumps' \in Seq(Frame) /\ Len(pumps') = Len(pumps)
          /\ \A i \in 1 .. Len(pumps) - 1 : pumps'[i] = pumps[i]
      BY <2>1, <2>2, <2>3, <1>t, PumpReplace DEF TypeOK
    <2>5. Waiting' = Waiting
      BY <2>1 DEF Waiting
    <2> QED BY <2>1, <2>4, <2>5, <1>t DEF IInv, TypeOK, RingInv
  <1>7. CASE PumpReturn
    BY <1>7, <1>t, PumpStack DEF PumpReturn, PumpTurn, GoesOn, DidWork, ring, IInv, TypeOK, RingInv,
       Waiting, Status, Frame
  <1>8. CASE UNCHANGED vars
    BY <1>8, <1>t DEF vars, IInv, TypeOK, RingInv, Waiting
  <1>9. CASE NilHandle
    BY <1>9, <1>t, RingUnchanged DEF NilHandle, Return, Status
  <1> QED BY <1>1, <1>2, <1>3, <1>4, <1>5, <1>6, <1>7, <1>8, <1>9 DEF Next

\* SchedulerCreate, Enqueue and Pump keep the record well typed and the ring
\* well formed in every execution: for every array length and capacity no
\* index leaves the used part of the array and no unwritten cell is read.
THEOREM RingIsSafe == Spec => [](TypeOK /\ RingInv)
  <1>1. Init => IInv
    BY MaxqAssumption DEF Init, IInv, TypeOK, RingInv, Status, Waiting
  <1> QED BY <1>1, InvInductive, PTL DEF Spec, IInv

-----------------------------------------------------------------------------
\* How a sequence is recognised as an Append, a Tail or all but the last.
LEMMA IsAppend ==
  ASSUME NEW S, NEW s \in Seq(S), NEW e \in S, NEW f \in Seq(S), Len(f) = Len(s) + 1,
         f[Len(s) + 1] = e, \A i \in 1 .. Len(s) : f[i] = s[i]
  PROVE  f = Append(s, e)
  <1>1. /\ Append(s, e) \in Seq(S) /\ Len(Append(s, e)) = Len(s) + 1
        /\ Append(s, e)[Len(s) + 1] = e /\ \A i \in 1 .. Len(s) : Append(s, e)[i] = s[i]
    OBVIOUS
  <1>2. \A i \in 1 .. Len(f) : f[i] = Append(s, e)[i]
    BY <1>1
  <1> QED BY <1>1, <1>2, SeqEqual

\* The ring without its oldest callback is the Tail of the waiting ones.
LEMMA IsTail ==
  ASSUME NEW S, NEW s \in Seq(S), s # << >>, NEW f \in Seq(S), Len(f) = Len(s) - 1,
         \A i \in 1 .. Len(f) : f[i] = s[i + 1]
  PROVE  f = Tail(s)
  <1>1. /\ Tail(s) \in Seq(S) /\ Len(Tail(s)) = Len(s) - 1
        /\ \A i \in 1 .. Len(Tail(s)) : Tail(s)[i] = s[i + 1]
    BY HeadTailProperties
  <1> QED BY <1>1, SeqEqual

\* The pump stack without its innermost pump is a prefix of it.
LEMMA IsFront ==
  ASSUME NEW S, NEW s \in Seq(S), NEW f \in Seq(S), s # << >>, Len(f) = Len(s) - 1,
         \A i \in 1 .. Len(f) : f[i] = s[i]
  PROVE  f = SubSeq(s, 1, Len(s) - 1)
  <1>1. PICK n \in Nat : n = Len(s) - 1
    OBVIOUS
  <1>2. SubSeq(s, 1, n) \in Seq(S) /\ Len(SubSeq(s, 1, n)) = n
        /\ \A i \in 1 .. n : SubSeq(s, 1, n)[i] = s[i]
    BY <1>1, Prefix
  <1> QED BY <1>1, <1>2, SeqEqual

\* The abstract queue and call stack are sequences, of length count and of the
\* number of pumps inside a callback.
Depth == IF PumpTurn THEN Len(pumps) - 1 ELSE Len(pumps)

AbsState ==
  /\ Waiting \in Seq(Task) /\ Len(Waiting) = count
  /\ Depth \in Nat /\ Calls \in Seq(Task \cup {NoTask}) /\ Len(Calls) = Depth
  /\ Calls = [i \in 1 .. Depth |-> pumps[i].task]
  /\ (count = 0) <=> (Waiting = << >>)
  /\ (Depth = 0) <=> (Calls = << >>)
  /\ cap > 0 => Waiting = [i \in 1 .. count |-> q[Cell(i)]]

\* In a well formed state the waiting callbacks and the calls in progress are
\* sequences, as long as count and the depth of the pumps say.
LEMMA AbstractState == IInv => AbsState
  <1> SUFFICES ASSUME IInv PROVE AbsState
    OBVIOUS
  <1>1. count \in Nat /\ pumps \in Seq(Frame) /\ \A i \in 1 .. count : Waiting[i] \in Task
    BY DEF IInv, TypeOK, RingInv
  <1>2. Waiting \in Seq(Task) /\ Len(Waiting) = count
    BY <1>1 DEF Waiting
  <1>3. Depth \in Nat /\ Depth <= Len(pumps)
    BY <1>1 DEF Depth, PumpTurn
  <1>4. Calls = [i \in 1 .. Depth |-> pumps[i].task]
    BY DEF Calls, Depth
  <1>5. \A i \in 1 .. Depth : pumps[i].task \in Task \cup {NoTask}
    <2> TAKE i \in 1 .. Depth
    <2>1. pumps[i] \in Frame
      BY <1>1, <1>3
    <2> QED BY <2>1 DEF Frame
  <1>6. Calls \in Seq(Task \cup {NoTask}) /\ Len(Calls) = Depth
    BY <1>3, <1>4, <1>5
  <1>7. (count = 0) <=> (Waiting = << >>)
    BY <1>2
  <1>8. (Depth = 0) <=> (Calls = << >>)
    BY <1>6
  <1>9. cap > 0 => Waiting = [i \in 1 .. count |-> q[Cell(i)]]
    BY RingCells
  <1> QED BY <1>2, <1>3, <1>4, <1>6, <1>7, <1>8, <1>9 DEF AbsState

\* The same of the state after a step.
LEMMA AbstractStateNext == (IInv => AbsState)'
  BY AbstractState, PTL

\* Every step of the ring buffer is a step of the abstract queue or leaves it
\* alone.
LEMMA StepRefines == IInv /\ IInv' /\ [Next]_vars => [Fifo!Next]_(Fifo!vars)
  <1> SUFFICES ASSUME IInv, IInv', [Next]_vars PROVE [Fifo!Next]_(Fifo!vars)
    OBVIOUS
  <1> USE MaxqAssumption, ArgsAssumption
  <1>t. TypeOK /\ RingInv
    BY DEF IInv
  <1>p. AbsState /\ AbsState'
    BY AbstractState, AbstractStateNext
  <1>a. UNCHANGED pumps => UNCHANGED Calls
    BY DEF Calls, PumpTurn, Top
  <1>w. UNCHANGED <<cap, q, head, count>> => UNCHANGED Waiting
    BY DEF Waiting
  <1>s. UNCHANGED <<cap, Waiting, Calls>> => [Fifo!Next]_(Fifo!vars)
    BY DEF Fifo!vars
  <1>1. ASSUME NEW n \in Capacities, SchedulerCreate(n) PROVE [Fifo!Next]_(Fifo!vars)
    <2>1. CASE UNCHANGED ring
      BY <2>1, <1>1, <1>a, <1>w, <1>s DEF SchedulerCreate, ring
    <2>2. CASE n > 0 /\ cap' = Clamp(n) /\ count' = 0
      <3>1. cap = 0 /\ cap' \in Nat \ {0} /\ UNCHANGED Calls
        BY <2>2, <1>1, <1>a DEF SchedulerCreate, Clamp
      <3>2. Waiting' = << >>
        BY <2>2 DEF Waiting
      <3> QED BY <3>1, <3>2 DEF Fifo!Next, Fifo!Open
    <2> QED BY <2>1, <2>2, <1>1 DEF SchedulerCreate
  <1>2. CASE SchedulerDestroy
    <2>1. cap > 0 /\ cap' = 0 /\ count' = 0 /\ pumps = << >> /\ UNCHANGED Calls
      BY <1>2, <1>a DEF SchedulerDestroy
    <2>2. Waiting' = << >> /\ Calls = << >>
      BY <2>1 DEF Waiting, Calls, PumpTurn
    <2> QED BY <2>1, <2>2 DEF Fifo!Next, Fifo!Close
  <1>3. ASSUME NEW t \in Task, SchedulerEnqueue(t) PROVE [Fifo!Next]_(Fifo!vars)
    <2>1. CASE UNCHANGED ring
      BY <2>1, <1>3, <1>a, <1>w, <1>s DEF SchedulerEnqueue, ring
    <2>2. CASE count < cap /\ q' = [q EXCEPT ![tail] = t] /\ count' = count + 1 /\ UNCHANGED <<cap, head>>
      <3>r. /\ cap > 0 /\ cap \in Nat \ {0} /\ cap <= MAXQ /\ head \in 0 .. cap - 1
            /\ tail \in 0 .. cap - 1 /\ count \in 0 .. cap
            /\ tail = (IF head + count < cap THEN head + count ELSE head + count - cap)
            /\ Waiting = [i \in 1 .. count |-> q[Cell(i)]]
        BY <1>3, RingCells DEF SchedulerEnqueue
      <3>1. Waiting' = [i \in 1 .. count + 1 |-> q'[Cell(i)]]
        <4>1. Waiting' = [i \in 1 .. count' |-> q'[Cell(i)']]
          BY <3>r, <2>2, <1>p DEF AbsState
        <4>2. \A i : Cell(i)' = Cell(i)
          BY <2>2 DEF Cell
        <4> QED BY <4>1, <4>2, <2>2
      <3>2. Waiting'[count + 1] = t
        <4>1. Cell(count + 1) = tail
          BY <3>r, <2>2 DEF Cell
        <4> QED BY <4>1, <3>1, <3>r, <2>2, <1>t DEF TypeOK
      <3>3. ASSUME NEW i \in 1 .. count PROVE Waiting'[i] = Waiting[i]
        <4>1. Cell(i) # tail
          BY <3>r, <2>2 DEF Cell
        <4> QED BY <4>1, <3>1, <3>r, <2>2, <1>t DEF TypeOK
      <3>4. Waiting \in Seq(Task) /\ Waiting' \in Seq(Task) /\ Len(Waiting) = count /\ Len(Waiting') = count + 1
        BY <2>2, <1>p DEF AbsState
      <3>5. Waiting' = Append(Waiting, t)
        BY <3>2, <3>3, <3>4, IsAppend
      <3> QED BY <3>5, <3>4, <2>2, <1>3, <1>a DEF SchedulerEnqueue, Fifo!Next, Fifo!Put
    <2> QED BY <2>1, <2>2, <1>3 DEF SchedulerEnqueue
  <1>4. ASSUME NEW n \in Budgets, PumpCall(n) PROVE [Fifo!Next]_(Fifo!vars)
    <2>1. PumpTurn' /\ Len(pumps') = Len(pumps) + 1 /\ \A i \in 1 .. Len(pumps) : pumps'[i] = pumps[i]
      <3> DEFINE f == [max |-> n, steps |-> 0, task |-> NoTask]
      <3>1. f \in Frame /\ f.task = NoTask /\ pumps \in Seq(Frame)
        BY <1>t DEF Frame, TypeOK
      <3>2. pumps' = Append(pumps, f)
        BY <1>4 DEF PumpCall
      <3> HIDE DEF f
      <3>3. /\ Len(pumps) \in Nat /\ Len(pumps') = Len(pumps) + 1 /\ pumps'[Len(pumps) + 1] = f
            /\ \A i \in 1 .. Len(pumps) : pumps'[i] = pumps[i]
        BY <3>1, <3>2
      <3>4. pumps' # << >>
        BY <3>1, <3>2
      <3> QED BY <3>1, <3>3, <3>4 DEF PumpTurn, Top
    <2>2. ~ PumpTurn /\ Len(pumps) \in Nat
      BY <1>4, <1>t DEF PumpCall, InClient, PumpTurn, TypeOK
    <2>3. UNCHANGED Calls
      BY <2>1, <2>2 DEF Calls
    <2> QED BY <2>3, <1>4, <1>w, <1>s DEF PumpCall
  <1>5. CASE PumpStep
    <2>1. /\ PumpTurn /\ pumps # << >> /\ count > 0 /\ cap' = cap /\ q' = q
          /\ head' = NextCell(head) /\ count' = count - 1
          /\ pumps' = [pumps EXCEPT ![Len(pumps)].task = q[head]]
      BY <1>5 DEF PumpStep, PumpTurn, GoesOn
    <2>2. cap > 0
      BY <1>t, <2>1 DEF TypeOK, RingInv
    <2>r. /\ cap \in Nat \ {0} /\ head \in 0 .. cap - 1 /\ count \in 1 .. cap
          /\ NextCell(head) = (IF head + 1 < cap THEN head + 1 ELSE 0)
          /\ Waiting = [i \in 1 .. count |-> q[Cell(i)]]
      BY <2>1, <2>2, RingCells
    <2>3. Waiting' = Tail(Waiting)
      <3>1. Waiting' = [i \in 1 .. count' |-> q'[Cell(i)']]
        BY <2>2, <2>1, <1>p DEF AbsState
      <3>2. ASSUME NEW i \in 1 .. count - 1 PROVE Waiting'[i] = Waiting[i + 1]
        <4>1. Cell(i)' = Cell(i + 1)
          BY <2>r, <2>1 DEF Cell
        <4> QED BY <4>1, <3>1, <2>1, <2>r
      <3>3. /\ Waiting \in Seq(Task) /\ Waiting' \in Seq(Task) /\ Len(Waiting) = count
            /\ Len(Waiting') = count - 1 /\ Waiting # << >>
        BY <2>1, <1>p DEF AbsState
      <3> QED BY <3>2, <3>3, IsTail
    <2>4. Head(Waiting) = q[head] /\ q[head] \in Task
      <3>1. Cell(1) = head
        BY <2>r DEF Cell
      <3>2. Waiting \in Seq(Task) /\ Waiting # << >>
        BY <2>1, <1>p, <1>t DEF AbsState, TypeOK
      <3> QED BY <3>1, <3>2, <2>r, <1>t DEF RingInv
    <2>5. /\ Len(pumps) \in Nat \ {0} /\ Len(pumps') = Len(pumps)
          /\ \A i \in 1 .. Len(pumps) - 1 : pumps'[i] = pumps[i]
          /\ pumps'[Len(pumps)].task = q[head]
      <3> DEFINE f == [Top EXCEPT !.task = q[head]]
      <3>1. Top \in Frame /\ Len(pumps) \in Nat \ {0} /\ pumps \in Seq(Frame)
        BY <2>1, <1>t, PumpStack DEF TypeOK
      <3>2. f \in Frame /\ f.task = q[head]
        BY <3>1, <2>4 DEF Frame
      <3>3. pumps' = [pumps EXCEPT ![Len(pumps)] = f]
        BY <2>1 DEF Top
      <3> HIDE DEF f
      <3> QED BY <3>1, <3>2, <3>3, <2>1, PumpReplace
    <2>6. ~ PumpTurn'
      BY <2>5, <2>4, NoTaskAssumption DEF PumpTurn, Top
    <2>7. Depth = Len(pumps) - 1 /\ Depth' = Len(pumps)
      BY <2>1, <2>5, <2>6 DEF Depth
    <2>8. Calls' = Append(Calls, q[head])
      <3>1. /\ Calls \in Seq(Task \cup {NoTask}) /\ Calls' \in Seq(Task \cup {NoTask})
            /\ Len(Calls) = Len(pumps) - 1 /\ Len(Calls') = Len(pumps)
            /\ Calls = [i \in 1 .. Len(pumps) - 1 |-> pumps[i].task]
            /\ Calls' = [i \in 1 .. Len(pumps) |-> pumps'[i].task]
        BY <2>7, <1>p DEF AbsState
      <3>2. Calls'[Len(pumps)] = q[head] /\ \A i \in 1 .. Len(pumps) - 1 : Calls'[i] = Calls[i]
        BY <3>1, <2>5
      <3> QED BY <3>1, <3>2, <2>4, <2>5, IsAppend
    <2>9. Waiting # << >>
      BY <2>1, <1>p, <1>t DEF AbsState, TypeOK
    <2> QED BY <2>1, <2>3, <2>4, <2>8, <2>9 DEF Fifo!Next, Fifo!Start
  <1>6. CASE TaskReturn
    <2>1. pumps # << >> /\ Top.task # NoTask /\ UNCHANGED <<cap, q, head, tail, count>>
          /\ pumps' = [pumps EXCEPT ![Len(pumps)].task = NoTask, ![Len(pumps)].steps = @ + 1]
      BY <1>6 DEF TaskReturn
    <2>2. /\ Len(pumps) \in Nat \ {0} /\ Len(pumps') = Len(pumps)
          /\ \A i \in 1 .. Len(pumps) - 1 : pumps'[i] = pumps[i]
          /\ pumps'[Len(pumps)].task = NoTask
      <3> DEFINE f == [Top EXCEPT !.task = NoTask, !.steps = @ + 1]
      <3>1. Top \in Frame /\ Len(pumps) \in Nat \ {0} /\ pumps \in Seq(Frame)
        BY <2>1, <1>t, PumpStack DEF TypeOK
      <3>2. Top.steps + 1 \in Nat
        BY <3>1 DEF Frame
      <3>3. f \in Frame
        BY <3>1, <3>2, Zenon DEF Frame
      <3>4. f.task = NoTask
        BY <3>1 DEF Frame
      <3>5. pumps' = [pumps EXCEPT ![Len(pumps)] = f]
        BY <2>1 DEF Top
      <3> HIDE DEF f
      <3> QED BY <3>1, <3>3, <3>4, <3>5, <2>1, PumpReplace
    <2>3. Depth = Len(pumps) /\ Depth' = Len(pumps) - 1
      BY <2>1, <2>2 DEF Depth, PumpTurn, Top
    <2>4. /\ Calls \in Seq(Task \cup {NoTask}) /\ Calls' \in Seq(Task \cup {NoTask}) /\ Calls # << >>
          /\ Len(Calls) = Len(pumps) /\ Len(Calls') = Len(pumps) - 1
          /\ Calls = [i \in 1 .. Len(pumps) |-> pumps[i].task]
          /\ Calls' = [i \in 1 .. Len(pumps) - 1 |-> pumps'[i].task]
      BY <2>2, <2>3, <1>p DEF AbsState
    <2>5. Calls' = SubSeq(Calls, 1, Len(Calls) - 1)
      <3>1. \A i \in 1 .. Len(Calls') : Calls'[i] = Calls[i]
        BY <2>4, <2>2
      <3> QED BY <3>1, <2>4, IsFront
    <2> QED BY <2>1, <2>4, <2>5, <1>w DEF Fifo!Next, Fifo!Finish
  <1>7. CASE PumpReturn
    <2>1. PumpTurn /\ pumps # << >> /\ pumps' = SubSeq(pumps, 1, Len(pumps) - 1)
          /\ UNCHANGED <<cap, q, head, tail, count>>
      BY <1>7 DEF PumpReturn, PumpTurn, ring
    <2>2. /\ Len(pumps) \in Nat \ {0} /\ Len(pumps') = Len(pumps) - 1
          /\ \A i \in 1 .. Len(pumps) - 1 : pumps'[i] = pumps[i]
      BY <2>1, <1>t, PumpStack DEF TypeOK
    <2>3. ~ PumpTurn'
      <3>1. pumps' \in Seq(Frame)
        BY DEF IInv, TypeOK
      <3> QED BY <3>1, <2>2, <1>t DEF PumpTurn, Top, RingInv
    <2>4. UNCHANGED Calls
      BY <2>1, <2>2, <2>3 DEF Calls
    <2> QED BY <2>1, <2>4, <1>w, <1>s
  <1>8. CASE UNCHANGED vars
    BY <1>8, <1>a, <1>w, <1>s DEF vars
  <1>9. CASE NilHandle
    BY <1>9, <1>a, <1>w, <1>s DEF NilHandle
  <1> QED BY <1>1, <1>2, <1>3, <1>4, <1>5, <1>6, <1>7, <1>8, <1>9 DEF Next

\* The ring buffer with its nested pumps implements the bounded FIFO queue of
\* Scheduler.def, for every capacity, array length and nesting of pumps.
THEOREM RingImplementsFifo == Spec => ImplementsFifo
  <1>1. Init => IInv
    BY MaxqAssumption DEF Init, IInv, TypeOK, RingInv, Status, Waiting
  <1>2. Init => Fifo!Init
    BY DEF Init, Fifo!Init, Waiting, Calls, PumpTurn
  <1> QED BY <1>1, <1>2, InvInductive, StepRefines, PTL DEF Spec, ImplementsFifo, Fifo!Spec

\* The answer didWork = FALSE of a pump with a budget means an empty queue, in
\* every execution: EventLoop.RunOnce may stop draining on it.
THEOREM IdlePumpDrained == Spec => IdleMeansDrained
  <1> DEFINE A == PumpReturn /\ Top.max > 0 /\ ~ ret'.didWork => count = 0
  <1>1. Init => IInv
    BY MaxqAssumption DEF Init, IInv, TypeOK, RingInv, Status, Waiting
  <1>2. IInv /\ [Next]_vars => [A]_vars
    <2> SUFFICES ASSUME IInv, PumpReturn, Top.max > 0, ~ ret'.didWork PROVE count = 0
      OBVIOUS
    <2>1. pumps \in Seq(Frame) /\ count \in Nat /\ pumps # << >>
      BY DEF IInv, TypeOK, PumpReturn, PumpTurn
    <2>2. Top.max \in Nat /\ Top.steps \in Nat
      <3>1. Top \in Frame
        BY <2>1, PumpStack
      <3> QED BY <3>1 DEF Frame
    <2>3. ~ (Top.steps > 0)
      BY DEF PumpReturn, DidWork
    <2>4. ~ (Top.steps < Top.max /\ count > 0)
      BY DEF PumpReturn, GoesOn
    <2> QED BY <2>1, <2>2, <2>3, <2>4
  <1>3. IInv /\ [Next]_vars => IInv'
    BY InvInductive
  <1>4. Spec => [][A]_vars
    BY <1>1, <1>2, <1>3, PTL DEF Spec
  <1> QED BY <1>4 DEF IdleMeansDrained
=============================================================================
