----------------------------- MODULE EventLoop ------------------------------
(***************************************************************************)
(* libs/m2evloop/src/EventLoop.mod over Poller.mod and the epoll branch of *)
(* poller_bridge.c: the loop that owns a poller, a timer queue and a       *)
(* scheduler, and calls client code from two places, watcher callbacks     *)
(* inline and everything else as microtasks.                               *)
(*                                                                         *)
(* The scheduler is the bounded queue of TaskFifo.  The timer queue is the *)
(* set of armed timers and what Cancel left in its heap: a client that     *)
(* sets a timer while an old entry is there may put the heap out of order  *)
(* or run it over, as module Timers shows in detail.  The kernel is free:  *)
(* a wait returns any events of registered descriptors, in any order, or   *)
(* none (timeout, EINTR, error), and registering may fail.                 *)
(* Client code runs while the loop is idle and inside every callback, and  *)
(* may call every operation but RunOnce, Run and Destroy there.  Refused   *)
(* calls change nothing and are not steps.                                 *)
(***************************************************************************)
EXTENDS Naturals, FiniteSets, Sequences, SequencesExt, FiniteSetsExt, Functions

CONSTANTS
  Fd,             \* file descriptors
  Mask,           \* interest sets a client asks for
  MaxWatchers,    \* length of the watcher array
  SchedCapacity,  \* capacity of the scheduler
  PumpBudget,     \* maxSteps of every SchedulerPump call (256)
  MaxTimers,      \* armed timers the queue holds
  Delays,         \* delays and intervals
  MaxClock,       \* bound: time stops here
  MaxCalls        \* bound: client calls that create a task, a timer or a watcher

ASSUME SizesAssumption ==
  {MaxWatchers, SchedCapacity, PumpBudget, MaxTimers} \subseteq Nat \ {0}
ASSUME FdAssumption == IsFiniteSet(Fd)
ASSUME TimeAssumption == Delays \subseteq Nat /\ MaxClock \in Nat /\ MaxCalls \in Nat

Watcher == 1 .. MaxWatchers
Id == 1 .. MaxCalls

VARIABLES
  alive,                  \* the loop exists
  watchers, nWatchers,    \* the watcher array and its counter
  interest,               \* the kernel's registrations: descriptor -> interest set
  timers,                 \* the armed timers
  old,                    \* other entries of the timers' heap, and is it out of order?
  queue,                  \* the scheduler's queue, by task id
  running, stopFlag,      \* LoopRec
  pc,                     \* where RunOnce is, or which client code runs
  buf,                    \* the events of the last wait not yet dispatched
  pump,                   \* locals of RunOnce: callbacks of this pump, is it the only one?
  now,                    \* the time Tick was given, 0 outside Tick
  cur,                    \* the task that is running
  clock, calls

loopRec == <<watchers, nWatchers, interest, timers, old, queue>>
vars == <<alive, loopRec, running, stopFlag, pc, buf, pump, now, cur, clock, calls>>

NoWatcher == [active |-> FALSE]
NoPump == [steps |-> 0, only |-> FALSE]
NoOld == [entries |-> 0, tangled |-> FALSE]
EmptyLoop ==
  /\ watchers' = [w \in Watcher |-> NoWatcher] /\ nWatchers' = 0
  /\ interest' = << >> /\ timers' = {} /\ old' = NoOld /\ queue' = << >>

Init ==
  /\ alive = FALSE
  /\ watchers = [w \in Watcher |-> NoWatcher] /\ nWatchers = 0
  /\ interest = << >> /\ timers = {} /\ old = NoOld /\ queue = << >>
  /\ running = FALSE /\ stopFlag = FALSE
  /\ pc = "idle" /\ buf = << >> /\ pump = NoPump /\ now = 0 /\ cur = 0
  /\ clock = 0 /\ calls = 0

Active == {w \in Watcher : watchers[w].active}
FindWatcher(fd) == {w \in Active : watchers[w].fd = fd}      \* the code takes the least

\* Client code has control.
Client == alive /\ pc \in {"idle", "watcher", "task"}
NewCall == calls < MaxCalls /\ calls' = calls + 1
control == <<alive, running, pc, buf, pump, now, cur, clock>>
-----------------------------------------------------------------------------
\* Create undoes its own steps when one of them fails, so it makes all or nothing.
Create ==
  /\ ~ alive
  /\ alive' = TRUE
  /\ EmptyLoop
  /\ running' = FALSE /\ stopFlag' = FALSE
  /\ UNCHANGED <<pc, buf, pump, now, cur, clock, calls>>

Destroy ==
  /\ alive /\ pc = "idle"
  /\ alive' = FALSE
  /\ EmptyLoop
  /\ running' = FALSE /\ stopFlag' = FALSE
  /\ UNCHANGED <<pc, buf, pump, now, cur, clock, calls>>

\* The slot taken may be that of a cancelled timer whose entry is in the heap:
\* that entry now has the new deadline where the heap had the old one.
Retaken == {old} \cup (IF old.entries > 0 THEN {[old EXCEPT !.tangled = TRUE]} ELSE {})

\* The heap's array has as many cells as there are timers, and old entries use them.
HeapFull == Cardinality(timers) + old.entries >= MaxTimers

\* SetTimeout (interval 0) and SetInterval.  HeapPush writes past the end of a
\* full heap, and the program is lost.
SetTimer(delay, interval) ==
  /\ Client /\ NewCall
  /\ Cardinality(timers) < MaxTimers
  /\ timers' = timers \cup {[id |-> calls', deadline |-> clock + delay, interval |-> interval]}
  /\ old' \in Retaken
  /\ pc' = IF HeapFull THEN "lost" ELSE pc
  /\ UNCHANGED <<alive, running, buf, pump, now, cur, clock, stopFlag, watchers, nWatchers, interest, queue>>

SetTimeout(delay) == SetTimer(delay, 0)
SetInterval(interval) == SetTimer(interval, interval)

\* The heap keeps the entry.
CancelTimer(id) ==
  /\ Client
  /\ \E t \in timers : t.id = id /\ timers' = timers \ {t}
  /\ old' = [old EXCEPT !.entries = @ + 1]
  /\ UNCHANGED <<control, calls, stopFlag, watchers, nWatchers, interest, queue>>

\* epoll refuses a descriptor it already has.
WatchFd(fd, events) ==
  /\ Client /\ NewCall
  /\ nWatchers < MaxWatchers
  /\ fd \notin DOMAIN interest
  /\ interest' = [f \in DOMAIN interest \cup {fd} |-> IF f = fd THEN events ELSE interest[f]]
  /\ watchers' = [watchers EXCEPT ![Min(Watcher \ Active)] = [active |-> TRUE, fd |-> fd, events |-> events]]
  /\ nWatchers' = nWatchers + 1
  /\ UNCHANGED <<control, stopFlag, timers, old, queue>>

ModifyFd(fd, events) ==
  /\ Client
  /\ FindWatcher(fd) # {} /\ fd \in DOMAIN interest
  /\ interest' = [interest EXCEPT ![fd] = events]
  /\ watchers' = [watchers EXCEPT ![Min(FindWatcher(fd))].events = events]
  /\ UNCHANGED <<control, calls, stopFlag, nWatchers, timers, old, queue>>

\* Poller.Remove.
LeavesRegistered(fd) == interest
Removed(fd) == Restrict(interest, DOMAIN interest \ {fd})

UnwatchFd(fd) ==
  /\ Client
  /\ FindWatcher(fd) # {}
  /\ interest' = Removed(fd)
  /\ watchers' = [watchers EXCEPT ![Min(FindWatcher(fd))] = NoWatcher]
  /\ nWatchers' = nWatchers - 1
  /\ UNCHANGED <<control, calls, stopFlag, timers, old, queue>>

HasRoom == Len(queue) < SchedCapacity

Enqueue ==
  /\ Client /\ NewCall
  /\ HasRoom
  /\ queue' = Append(queue, calls')
  /\ UNCHANGED <<control, stopFlag, watchers, nWatchers, interest, timers, old>>

Stop ==
  /\ Client
  /\ stopFlag' = TRUE
  /\ UNCHANGED <<control, calls, loopRec>>

ClientCall ==
  \/ \E d \in Delays : SetTimeout(d) \/ SetInterval(d)
  \/ \E id \in Id : CancelTimer(id)
  \/ \E fd \in Fd : \E m \in Mask : WatchFd(fd, m) \/ ModifyFd(fd, m)
  \/ \E fd \in Fd : UnwatchFd(fd)
  \/ Enqueue
  \/ Stop
-----------------------------------------------------------------------------
\* Run resets the stop flag; RunOnce may also be called by itself.
Run ==
  /\ alive /\ pc = "idle"
  /\ running' = TRUE /\ stopFlag' = FALSE
  /\ pc' = "begin"
  /\ UNCHANGED <<alive, loopRec, buf, pump, now, cur, clock, calls>>

RunOnce ==
  /\ alive /\ pc = "idle"
  /\ pc' = "begin"
  /\ UNCHANGED <<alive, loopRec, running, stopFlag, buf, pump, now, cur, clock, calls>>

\* Steps 1 and 2 of RunOnce, up to the wait.  NextDeadline has no answer when
\* no timer is armed; a timer that is due leaves nothing to wait for.
Due(t, time) == t.deadline <= time

\* RunOnce reads the clock once for Tick.
ReadsClock == now' = IF pc' = "tick" THEN clock ELSE 0

\* NextDeadline and Tick drop the inactive entries they meet at the top.
Purged ==
  IF timers = {} THEN {NoOld} ELSE {[old EXCEPT !.entries = n] : n \in 0 .. old.entries}

\* In a heap out of order a timer that is not due may be at the top.
Hidden(time) == old.tangled /\ \E t \in timers : ~ Due(t, time)
NothingDue(time) == \A t \in timers : ~ Due(t, time)

Begin ==
  /\ pc = "begin"
  /\ IF timers = {} /\ nWatchers = 0
     THEN pc' = "pump" /\ pump' = [steps |-> 0, only |-> TRUE]
     ELSE /\ \/ pc' = "wait" /\ (nWatchers > 0 \/ NothingDue(clock) \/ Hidden(clock))
             \/ pc' = "tick" /\ nWatchers = 0 /\ ~ NothingDue(clock)
          /\ UNCHANGED pump
  /\ old' \in Purged
  /\ ReadsClock
  /\ UNCHANGED <<alive, watchers, nWatchers, interest, timers, queue, running, stopFlag, buf, cur, clock, calls>>

\* Poller.Wait returns; only a loop with watchers looks at the events.
Wait ==
  /\ pc = "wait"
  /\ IF nWatchers > 0
     THEN pc' = "dispatch" /\ buf' \in {s \in SeqOf(DOMAIN interest, Cardinality(Fd)) : IsInjective(s)}
     ELSE pc' = "tick" /\ UNCHANGED buf
  /\ ReadsClock
  /\ UNCHANGED <<alive, loopRec, running, stopFlag, pump, cur, clock, calls>>

\* Step 3: the next event.  Its descriptor is looked up now, after the earlier
\* callbacks of the batch.
Dispatch ==
  /\ pc = "dispatch" /\ buf # << >>
  /\ buf' = Tail(buf)
  /\ pc' = IF FindWatcher(Head(buf)) # {} THEN "watcher" ELSE "dispatch"
  /\ UNCHANGED <<alive, loopRec, running, stopFlag, pump, now, cur, clock, calls>>

WatcherReturn ==
  /\ pc = "watcher"
  /\ pc' = "dispatch"
  /\ UNCHANGED <<alive, loopRec, running, stopFlag, buf, pump, now, cur, clock, calls>>

Dispatched ==
  /\ pc = "dispatch" /\ buf = << >>
  /\ pc' = "tick" /\ ReadsClock
  /\ UNCHANGED <<alive, loopRec, running, stopFlag, buf, pump, cur, clock, calls>>

\* Step 4: Timers.Tick, one timer at a time, earliest first unless the heap is
\* out of order.  A callback the queue refuses is lost.
Rearmed(t) == IF t.interval > 0 THEN {[t EXCEPT !.deadline = @ + t.interval]} ELSE {}

TickFire ==
  /\ pc = "tick"
  /\ \E t \in timers :
       /\ Due(t, now) /\ (old.tangled \/ \A u \in timers : t.deadline <= u.deadline)
       /\ timers' = (timers \ {t}) \cup Rearmed(t)
       /\ queue' = IF HasRoom THEN Append(queue, t.id) ELSE queue
  /\ old' \in Purged
  /\ UNCHANGED <<control, stopFlag, watchers, nWatchers, interest, calls>>

TickReturn ==
  /\ pc = "tick"
  /\ NothingDue(now) \/ Hidden(now)
  /\ old' \in Purged
  /\ pc' = "pump" /\ pump' = NoPump /\ now' = 0
  /\ UNCHANGED <<alive, watchers, nWatchers, interest, timers, queue, running, stopFlag, buf, cur, clock, calls>>

\* Step 5: SchedulerPump.
PumpStep ==
  /\ pc = "pump"
  /\ pump.steps < PumpBudget /\ queue # << >>
  /\ cur' = Head(queue) /\ queue' = Tail(queue)
  /\ pump' = [pump EXCEPT !.steps = @ + 1]
  /\ pc' = "task"
  /\ UNCHANGED <<alive, watchers, nWatchers, interest, timers, old, running, stopFlag, buf, now, clock, calls>>

TaskReturn ==
  /\ pc = "task"
  /\ cur' = 0
  /\ pc' = "pump"
  /\ UNCHANGED <<alive, loopRec, running, stopFlag, buf, pump, now, clock, calls>>

\* A pump has ended: does RunOnce pump again, and if not, what does it answer?
PumpsAgain(p) == ~ p.only /\ p.steps > 0

WatchersOnly == nWatchers > 0
WorkLeft == nWatchers > 0 \/ timers # {}

AnswersWorkLeft(p) == WorkLeft
HasWork(p) == IF p.only THEN p.steps > 0 ELSE WorkLeft

\* Run's loop after RunOnce answered.
ExitsWhenIdle(hasWork) == ~ hasWork
Exits(hasWork) == stopFlag \/ ~ hasWork

PumpEnds == pc = "pump" /\ (pump.steps >= PumpBudget \/ queue = << >>)

PumpAgain ==
  /\ PumpEnds /\ PumpsAgain(pump)
  /\ pump' = NoPump
  /\ UNCHANGED <<alive, loopRec, running, stopFlag, pc, buf, now, cur, clock, calls>>

\* RunOnce returns, to its client or to Run, which goes on or returns.
RunOnceReturn ==
  /\ PumpEnds /\ ~ PumpsAgain(pump)
  /\ pump' = NoPump
  /\ LET more == running /\ ~ Exits(HasWork(pump)) IN
     /\ pc' = IF more THEN "begin" ELSE "idle"
     /\ running' = more
  /\ UNCHANGED <<alive, loopRec, stopFlag, buf, now, cur, clock, calls>>

Advance ==
  /\ clock < MaxClock
  /\ clock' = clock + 1
  /\ UNCHANGED <<alive, loopRec, running, stopFlag, pc, buf, pump, now, cur, calls>>

LoopStep ==
  \/ Begin \/ Wait \/ Dispatch \/ Dispatched \/ WatcherReturn
  \/ TickFire \/ TickReturn
  \/ PumpStep \/ TaskReturn \/ PumpAgain \/ RunOnceReturn

Next ==
  \/ Create \/ Destroy
  \/ ClientCall
  \/ Run \/ RunOnce
  \/ LoopStep
  \/ Advance

Spec == Init /\ [][Next]_vars

\* RunOnce does not stop by itself, every callback returns (client calls are
\* bounded), waits end, and time passes.
FairSpec == Spec /\ WF_vars(LoopStep) /\ WF_vars(Advance)
-----------------------------------------------------------------------------
\* The type invariant: the watcher array, the kernel's registrations, the
\* queue and the phase of RunOnce stay in their ranges.
TypeOK ==
  /\ {alive, running, stopFlag} \subseteq BOOLEAN
  /\ \A w \in Active : watchers[w].fd \in Fd /\ watchers[w].events \in Mask
  /\ nWatchers \in 0 .. MaxWatchers
  /\ DOMAIN interest \subseteq Fd /\ \A f \in DOMAIN interest : interest[f] \in Mask
  /\ \A t \in timers : t.id \in Id /\ t.deadline \in Nat /\ t.interval \in Delays \cup {0}
  /\ old.entries \in Nat /\ old.tangled \in BOOLEAN
  /\ queue \in Seq(Id) /\ Len(queue) <= SchedCapacity /\ Cardinality(timers) <= MaxTimers
  /\ pc \in {"idle", "begin", "wait", "dispatch", "watcher", "tick", "pump", "task", "lost"}
  /\ buf \in Seq(Fd) /\ pump \in [steps : 0 .. PumpBudget, only : BOOLEAN] /\ cur \in Id \cup {0}
  /\ clock \in 0 .. MaxClock /\ now \in 0 .. MaxClock /\ calls \in 0 .. MaxCalls

\* The watcher array, its counter and the kernel agree: one watcher for every
\* registration, with its interest set.  RunOnce decides by the counter whether
\* it may block and Run whether it may return.
WatchersInSync ==
  /\ nWatchers = Cardinality(Active)
  /\ DOMAIN interest = {watchers[w].fd : w \in Active}
  /\ \A w \in Active : interest[watchers[w].fd] = watchers[w].events
  /\ \A w, v \in Active : watchers[w].fd = watchers[v].fd => w = v

\* Run begins no iteration after a Stop (EventLoop.def: "Signal the event loop
\* to stop after the current iteration").
StopHonoured == running /\ stopFlag => pc # "begin"

\* Run returns by itself only with no watcher, no timer and no task left
\* (EventLoop.def: "The loop runs until Stop is called or there are no more
\* active watchers, timers, or scheduled tasks").
ExitMeansIdle ==
  [][running /\ ~ running' /\ ~ stopFlag => nWatchers = 0 /\ timers = {} /\ queue = << >>]_vars

\* An iteration that came to the timers leaves no task queued: what the timer
\* callbacks enqueue runs in the same iteration (EventLoop.md:160).
TickedIterationDrains ==
  [][RunOnceReturn /\ ~ pump.only => queue = << >>]_vars

\* Every iteration leaves no task queued (EventLoop.md:160, "The scheduler is
\* pumped to completion each iteration").
PumpedToCompletion == [][RunOnceReturn => queue = << >>]_vars

\* A client ran over the timers' heap (Timers.mod:90).
Lost == pc = "lost"

\* A task queued while Run runs is called, unless Stop is.
TasksRun ==
  \A id \in Id : (running /\ id \in Range(queue)) ~> (stopFlag \/ Lost \/ cur = id)

\* A timer armed while Run runs fires when it is due or is cancelled, unless Stop
\* is called.  A client that set a timer while a cancelled one was in the heap
\* (the slot is taken again under its old entry, Timers.mod:113) has less: its
\* timer may be left behind, by every Tick as long as one due later is armed.
TimersFire ==
  \A id \in Id : \A d \in 0 .. MaxClock :
    (running /\ \E t \in timers : t.id = id /\ t.deadline = d)
      ~> (stopFlag \/ Lost \/ Hidden(clock) \/ \A t \in timers : t.id = id => t.deadline # d)

\* Run returns after a Stop, also when a callback calls it.
StopEnds == (running /\ stopFlag) ~> (Lost \/ ~ running)

\* The watcher array, its counter and the kernel agree after every outcome of
\* every call, made inside a dispatch or outside, and no iteration begins
\* after a Stop.
LoopInv == TypeOK /\ WatchersInSync /\ StopHonoured

\* Neither Run nor an iteration that came to the timers leaves work behind
\* that a callback of it added.
NothingLeftBehind == ExitMeansIdle /\ TickedIterationDrains
=============================================================================
