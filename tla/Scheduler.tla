----------------------------- MODULE Scheduler ------------------------------
(***************************************************************************)
(* libs/m2futures/src/Scheduler.mod: the microtask queue every callback of *)
(* the runtime (promise continuations, timers, cancellations) goes         *)
(* through.  A fixed array used as a ring, and a pump that takes callbacks *)
(* from its head and calls them.  The program is single-threaded: client   *)
(* code runs at top level or inside a callback, never while a pump is      *)
(* between two callbacks.  A callback may enqueue and may pump again.      *)
(***************************************************************************)
EXTENDS Naturals, Sequences

CONSTANTS
  Task,         \* the callbacks (TaskProc and user pointer together)
  NoTask,       \* "no callback": an array cell never written, a pump between callbacks
  MAXQ,         \* length of the array
  Capacities,   \* the capacities clients ask for
  Budgets,      \* the maxSteps values clients pump with
  MaxDepth      \* bound: how deep pumps nest

ASSUME NoTaskAssumption == NoTask \notin Task
ASSUME MaxqAssumption == MAXQ \in Nat \ {0}
ASSUME ArgsAssumption == Capacities \subseteq Nat /\ Budgets \subseteq Nat

VARIABLES
  cap, q, head, tail, count,   \* SchedulerRec; cap = 0 when there is none
  pumps,                       \* the SchedulerPump activations, innermost last
  ret                          \* what the last call returned

vars == <<cap, q, head, tail, count, pumps, ret>>
ring == <<cap, q, head, tail, count>>

Status == {"OK", "Invalid", "OutOfMemory"}

\* A pump's local state: its budget, the callbacks it has run, the one it is in.
Frame == [max : Nat, steps : Nat, task : Task \cup {NoTask}]

Init ==
  /\ cap = 0 /\ head = 0 /\ tail = 0 /\ count = 0
  /\ q = [i \in 0 .. MAXQ - 1 |-> NoTask]
  /\ pumps = << >>
  /\ ret = [st |-> "OK", didWork |-> FALSE]

Top == pumps[Len(pumps)]

\* Client code has control: at top level, or in the callback of the top pump.
InClient == pumps # << >> => Top.task # NoTask

Return(st) == ret' = [st |-> st, didWork |-> FALSE]

\* The ring's successor of cell i; it wraps at the capacity, not at the array's end.
NextCellOfArray(i) == (i + 1) % MAXQ
NextCell(i) == (i + 1) % cap

\* A capacity beyond the array is cut down to it.
Clamp(capacity) == IF capacity > MAXQ THEN MAXQ ELSE capacity

\* The condition of the pump's loop.
GoesOnOneShort(f) == f.steps + 1 < f.max /\ count > 0
GoesOn(f) == f.steps < f.max /\ count > 0

\* What the pump answers in didWork.
DidMoreWork(f) == f.steps > 1
DidWork(f) == f.steps > 0

-----------------------------------------------------------------------------
\* Every other procedure refuses the NIL handle.
NilHandle ==
  /\ cap = 0
  /\ Return("Invalid")
  /\ UNCHANGED <<cap, q, head, tail, count, pumps>>

SchedulerCreate(capacity) ==
  /\ cap = 0
  /\ \/ /\ capacity = 0
        /\ Return("Invalid")
        /\ UNCHANGED ring
     \/ /\ capacity > 0            \* NEW gave NIL
        /\ Return("OutOfMemory")
        /\ UNCHANGED ring
     \/ /\ capacity > 0
        /\ cap' = Clamp(capacity)
        /\ head' = 0 /\ tail' = 0 /\ count' = 0
        /\ q' = [i \in 0 .. MAXQ - 1 |-> NoTask]
        /\ Return("OK")
  /\ UNCHANGED pumps

\* The handle is only given up at top level: a pump keeps using the record.
SchedulerDestroy ==
  /\ cap > 0
  /\ pumps = << >>
  /\ cap' = 0 /\ head' = 0 /\ tail' = 0 /\ count' = 0
  /\ q' = [i \in 0 .. MAXQ - 1 |-> NoTask]
  /\ Return("OK")
  /\ UNCHANGED pumps

SchedulerEnqueue(t) ==
  /\ cap > 0
  /\ InClient
  /\ \/ /\ count >= cap
        /\ Return("OutOfMemory")
        /\ UNCHANGED ring
     \/ /\ count < cap
        /\ q' = [q EXCEPT ![tail] = t]
        /\ tail' = NextCell(tail)
        /\ count' = count + 1
        /\ Return("OK")
        /\ UNCHANGED <<cap, head>>
  /\ UNCHANGED pumps

\* Entry of SchedulerPump.
PumpCall(maxSteps) ==
  /\ cap > 0
  /\ InClient
  /\ Len(pumps) < MaxDepth
  /\ pumps' = Append(pumps, [max |-> maxSteps, steps |-> 0, task |-> NoTask])
  /\ UNCHANGED <<cap, q, head, tail, count, ret>>

PumpTurn == pumps # << >> /\ Top.task = NoTask

\* One turn of the pump's loop, up to the call fn(arg).
PumpStep ==
  /\ PumpTurn
  /\ GoesOn(Top)
  /\ pumps' = [pumps EXCEPT ![Len(pumps)].task = q[head]]
  /\ head' = NextCell(head)
  /\ count' = count - 1
  /\ UNCHANGED <<cap, q, tail, ret>>

\* The callback returns and the loop counts the step.
TaskReturn ==
  /\ pumps # << >>
  /\ Top.task # NoTask
  /\ pumps' = [pumps EXCEPT ![Len(pumps)].task = NoTask, ![Len(pumps)].steps = @ + 1]
  /\ UNCHANGED <<cap, q, head, tail, count, ret>>

\* The loop's condition is false: SchedulerPump returns to its caller.
PumpReturn ==
  /\ PumpTurn
  /\ ~ GoesOn(Top)
  /\ ret' = [st |-> "OK", didWork |-> DidWork(Top)]
  /\ pumps' = SubSeq(pumps, 1, Len(pumps) - 1)
  /\ UNCHANGED ring

Next ==
  \/ \E n \in Capacities : SchedulerCreate(n)
  \/ NilHandle
  \/ SchedulerDestroy
  \/ \E t \in Task : SchedulerEnqueue(t)
  \/ \E n \in Budgets : PumpCall(n)
  \/ PumpStep
  \/ TaskReturn
  \/ PumpReturn

Spec == Init /\ [][Next]_vars

\* The loop keeps pumping at top level with a budget (EventLoop.Run: 256), a
\* pump does not stop between callbacks, and every callback returns.
Fairness ==
  /\ SF_vars(pumps = << >> /\ \E n \in Budgets \ {0} : PumpCall(n))
  /\ WF_vars(PumpStep)
  /\ SF_vars(TaskReturn)
  /\ WF_vars(PumpReturn)

FairSpec == Spec /\ Fairness
-----------------------------------------------------------------------------
\* The type invariant: the fields of SchedulerRec and the frames of the pumps
\* under way stay in their ranges.
TypeOK ==
  /\ cap \in 0 .. MAXQ
  /\ q \in [0 .. MAXQ - 1 -> Task \cup {NoTask}]
  /\ head \in Nat /\ tail \in Nat /\ count \in Nat
  /\ pumps \in Seq(Frame)
  /\ ret \in [st : Status, didWork : BOOLEAN]

\* The waiting callbacks, oldest first, read off the ring.
Waiting == [i \in 1 .. count |-> q[(head + i - 1) % cap]]

\* Indices stay inside the used part of the array, tail is count cells after
\* head, only the innermost pump can be between two callbacks, and every
\* waiting callback was really enqueued (no cell is read before it is written).
RingInv ==
  /\ count <= cap
  /\ cap > 0 => head < cap /\ tail < cap /\ tail = (head + count) % cap
  /\ cap = 0 => pumps = << >>
  /\ \A i \in 1 .. Len(pumps) - 1 : pumps[i].task # NoTask
  /\ \A i \in 1 .. count : Waiting[i] \in Task

\* The callbacks in progress: one for each pump that is inside a callback.
Calls == [i \in 1 .. (IF PumpTurn THEN Len(pumps) - 1 ELSE Len(pumps)) |-> pumps[i].task]

Fifo == INSTANCE TaskFifo WITH limit <- cap, queue <- Waiting, calls <- Calls

\* The ring buffer and the pump implement the bounded first-in first-out
\* queue of Scheduler.def: no callback is lost, duplicated or overtaken by a
\* later one, whatever callbacks enqueue and however pumps nest.
ImplementsFifo == Fifo!Spec

\* A pump that had a budget and reports didWork = FALSE left nothing queued:
\* EventLoop.RunOnce ends its drain loop on that answer (EventLoop.mod:289).
IdleMeansDrained ==
  [][PumpReturn /\ Top.max > 0 /\ ~ ret'.didWork => count = 0]_vars

\* An enqueued callback is eventually called, unless the scheduler is
\* destroyed first (Scheduler.def: "cb(user) will execute during a future
\* SchedulerPump call").
QueuedTasksRun ==
  \A t \in Task :
    (\E i \in 1 .. count : Waiting[i] = t)
      ~> (cap = 0 \/ \E i \in 1 .. Len(pumps) : pumps[i].task = t)
=============================================================================
