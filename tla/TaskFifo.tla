------------------------------ MODULE TaskFifo ------------------------------
(***************************************************************************)
(* What Scheduler.def promises of the microtask queue, without the ring    *)
(* buffer: callbacks wait in a bounded first-in first-out queue, an        *)
(* enqueue is refused only when the queue is full, and callbacks are       *)
(* started one by one, oldest first.  A callback may pump the scheduler    *)
(* itself, so the callbacks in progress form a stack.                      *)
(***************************************************************************)
EXTENDS Naturals, Sequences

CONSTANT Task       \* the callbacks (a TaskProc with its user pointer)

VARIABLES
  limit,            \* capacity of the queue, 0 when there is no scheduler
  queue,            \* the callbacks waiting, oldest first
  calls             \* the callbacks in progress, innermost last

vars == <<limit, queue, calls>>

Init ==
  /\ limit = 0
  /\ queue = << >>
  /\ calls = << >>

\* A scheduler comes into being empty.
Open ==
  /\ limit = 0
  /\ limit' \in Nat \ {0}
  /\ queue' = << >>
  /\ UNCHANGED calls

\* Destroying a scheduler discards what is still queued.
Close ==
  /\ limit > 0
  /\ calls = << >>
  /\ limit' = 0
  /\ queue' = << >>
  /\ UNCHANGED calls

Put(t) ==
  /\ Len(queue) < limit
  /\ queue' = Append(queue, t)
  /\ UNCHANGED <<limit, calls>>

\* The oldest callback leaves the queue and starts.
Start ==
  /\ queue # << >>
  /\ calls' = Append(calls, Head(queue))
  /\ queue' = Tail(queue)
  /\ UNCHANGED limit

\* The innermost callback returns.
Finish ==
  /\ calls # << >>
  /\ calls' = SubSeq(calls, 1, Len(calls) - 1)
  /\ UNCHANGED <<limit, queue>>

Next ==
  \/ Open
  \/ Close
  \/ \E t \in Task : Put(t)
  \/ Start
  \/ Finish

Spec == Init /\ [][Next]_vars
=============================================================================
