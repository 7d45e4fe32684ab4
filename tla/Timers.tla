------------------------------- MODULE Timers -------------------------------
(***************************************************************************)
(* libs/m2evloop/src/Timers.mod: the timer queue of the event loop, a pool *)
(* of timers and a binary heap of pool indices ordered by deadline.        *)
(* Cancelling only marks the pool entry; its heap entry stays until it     *)
(* comes to the top.  Times are machine words and compared by their signed *)
(* difference.  Slots and heap positions count from 1 here.                *)
(***************************************************************************)
EXTENDS Integers, FiniteSets, Sequences, SequencesExt, FiniteSetsExt

CONSTANTS
  MaxTimers,    \* length of the pool, and of the heap's array
  Wrap,         \* the number of INTEGER values, 2^32
  Start,        \* the clock when the queue is created
  MaxClock,     \* bound: the clock stops here
  Delays,       \* the delays and intervals clients ask for
  MaxSets       \* bound: how many timers are ever set

ASSUME SizesAssumption == MaxTimers \in Nat \ {0} /\ Delays \subseteq Nat /\ MaxSets \in Nat
ASSUME ClockAssumption == /\ Start \in Nat /\ MaxClock \in Nat /\ Start <= MaxClock /\ Wrap \in Nat \ {0}
                          /\ \A d \in Delays : 2 * (MaxClock - Start + d) < Wrap

Slot == 1 .. MaxTimers

VARIABLES
  heap, pool, nextId,   \* QueueRec
  clock,                \* the true time; the code sees it modulo Wrap
  ticking,              \* Tick is in its loop
  fired,                \* id of the timer whose callback the last step enqueued, or 0
  wait,                 \* what NextDeadline answered last
  due,                  \* history: the true deadline of each slot
  gone,                 \* history: the ids cancelled, and of one-shots that expired
  clean,                \* history: no timer was set in a slot whose old entry was in the heap
  overrun               \* the heap's array was written past its end: the program is lost

vars == <<heap, pool, nextId, clock, ticking, fired, wait, due, gone, clean, overrun>>

NoAnswer == -2
Word(t) == t % Wrap
now == Word(clock)

Init ==
  /\ heap = << >>
  /\ pool = [s \in Slot |-> [deadline |-> 0, interval |-> 0, id |-> 0, active |-> FALSE]]
  /\ nextId = 1
  /\ clock = Start
  /\ ticking = FALSE /\ fired = 0 /\ wait = NoAnswer
  /\ due = [s \in Slot |-> 0]
  /\ gone = {}
  /\ clean = TRUE
  /\ overrun = FALSE

-----------------------------------------------------------------------------
\* The sign bit of the difference of two words.
PlainBefore(a, b) == a < b
TimeBefore(a, b) == 2 * Word(a - b) >= Wrap

\* The heap operations, for a pool p.
Earlier(p, h, i, j) == TimeBefore(p[h[i]].deadline, p[h[j]].deadline)
HeapSwap(h, i, j) == [h EXCEPT ![i] = h[j], ![j] = h[i]]

\* The loops of the code as recursive functions of the number of rounds.  A
\* round of SiftUp moves the entry at pos one level up, or not.
SiftUpRound(p, a) ==
  IF a.pos > 1 /\ Earlier(p, a.h, a.pos, a.pos \div 2)
  THEN [h |-> HeapSwap(a.h, a.pos, a.pos \div 2), pos |-> a.pos \div 2]
  ELSE a

SiftUp(p, h, from) ==
  LET loop[n \in 0 .. Len(h)] ==
        IF n = 0 THEN [h |-> h, pos |-> from] ELSE SiftUpRound(p, loop[n - 1])
  IN loop[Len(h)].h

Smallest(p, h, pos) ==
  LET l == 2 * pos
      r == 2 * pos + 1
      s == IF l <= Len(h) /\ Earlier(p, h, l, pos) THEN l ELSE pos
  IN IF r <= Len(h) /\ Earlier(p, h, r, s) THEN r ELSE s

SiftDownRound(p, a) ==
  LET s == Smallest(p, a.h, a.pos) IN [h |-> HeapSwap(a.h, a.pos, s), pos |-> s]

SiftDown(p, h, from) ==
  LET loop[n \in 0 .. Len(h)] ==
        IF n = 0 THEN [h |-> h, pos |-> from] ELSE SiftDownRound(p, loop[n - 1])
  IN loop[Len(h)].h

\* The code's array has MaxTimers cells and no check: see overrun in Set.
HeapPush(p, h, s) == SiftUp(p, Append(h, s), Len(h) + 1)

HeapPop(p, h) ==
  IF Len(h) = 1 THEN << >> ELSE SiftDown(p, [Front(h) EXCEPT ![1] = Last(h)], 1)

\* Drop the inactive entries at the top.
PurgeRound(p, h) == IF h # << >> /\ ~ p[h[1]].active THEN HeapPop(p, h) ELSE h

Purge(p, h) ==
  LET loop[n \in 0 .. Len(h)] == IF n = 0 THEN h ELSE PurgeRound(p, loop[n - 1])
  IN loop[Len(h)]

Inactive == {s \in Slot : ~ pool[s].active}
AllocSlot == Min(Inactive)
-----------------------------------------------------------------------------
\* SetTimeout and SetInterval differ in the interval they store.
Set(delay, interval) ==
  /\ ~ ticking /\ ~ overrun
  /\ nextId <= MaxSets
  /\ Inactive # {}
  /\ LET p == [pool EXCEPT ![AllocSlot] = [deadline |-> Word(now + delay), interval |-> interval,
                                           id |-> nextId, active |-> TRUE]] IN
     /\ pool' = p
     /\ heap' = HeapPush(p, heap, AllocSlot)
  /\ due' = [due EXCEPT ![AllocSlot] = clock + delay]
  /\ nextId' = nextId + 1
  /\ fired' = 0 /\ wait' = NoAnswer
  /\ overrun' = (Len(heap) = MaxTimers)
  /\ clean' = (clean /\ AllocSlot \notin Range(heap))
  /\ UNCHANGED <<clock, ticking, gone>>

SetTimeout(delay) == Set(delay, 0)
SetInterval(interval) == Set(interval, interval)

\* The timer of this id, among all slots.
HasId(s, id) == pool[s].active /\ pool[s].id = id

\* Cancelling frees the slot and leaves its heap entry where it is.
Cancelled(e) == [e EXCEPT !.active = FALSE]

\* Cancel, of any id a client was ever given.
Cancel(id) ==
  /\ ~ ticking /\ ~ overrun
  /\ \E s \in Slot :
       /\ HasId(s, id)
       /\ pool' = [pool EXCEPT ![s] = Cancelled(@)]
  /\ gone' = gone \cup {id}
  /\ fired' = 0 /\ wait' = NoAnswer
  /\ UNCHANGED <<heap, nextId, clock, ticking, due, clean, overrun>>

NextDeadline ==
  /\ ~ ticking /\ ~ overrun
  /\ LET h == Purge(pool, heap)
         diff == pool[h[1]].deadline - now IN
     /\ heap' = h
     /\ wait' = IF h = << >> THEN -1
                ELSE IF TimeBefore(pool[h[1]].deadline, now) THEN 0 ELSE Word(diff)
  /\ fired' = 0
  /\ UNCHANGED <<pool, nextId, clock, ticking, due, gone, clean, overrun>>

\* Tick is called; its loop runs to the end before anything else happens.
Tick ==
  /\ ~ ticking /\ ~ overrun
  /\ ticking' = TRUE
  /\ fired' = 0 /\ wait' = NoAnswer
  /\ UNCHANGED <<heap, pool, nextId, clock, due, gone, clean, overrun>>

EarlyByOne(h) == h # << >> /\ ~ TimeBefore(Word(now + 1), pool[h[1]].deadline)
LateOnly(h) == h # << >> /\ TimeBefore(pool[h[1]].deadline, now)
RootDue(h) == h # << >> /\ ~ TimeBefore(now, pool[h[1]].deadline)

\* One turn of Tick's loop that fires a timer.  The scheduler's queue may be
\* full: the callback is lost and the timer goes on as if it had been enqueued.
TickFire ==
  /\ ticking
  /\ LET h == Purge(pool, heap)
         s == h[1]
         t == pool[s]
         p == IF t.interval > 0 THEN [pool EXCEPT ![s].deadline = Word(@ + t.interval)]
              ELSE [pool EXCEPT ![s].active = FALSE] IN
     /\ RootDue(h)
     /\ fired' \in {t.id, 0}
     /\ pool' = p
     /\ IF t.interval > 0
        THEN /\ heap' = HeapPush(p, HeapPop(pool, h), s)
             /\ due' = [due EXCEPT ![s] = @ + t.interval]
             /\ UNCHANGED gone
        ELSE /\ heap' = HeapPop(pool, h)
             /\ gone' = gone \cup {t.id}
             /\ UNCHANGED due
  /\ UNCHANGED <<nextId, clock, ticking, wait, clean, overrun>>

\* The turn that leaves the loop.
TickReturn ==
  /\ ticking
  /\ heap' = Purge(pool, heap)
  /\ ~ RootDue(heap')
  /\ ticking' = FALSE
  /\ fired' = 0
  /\ UNCHANGED <<pool, nextId, clock, wait, due, gone, clean, overrun>>

\* Time passes between calls.
Advance ==
  /\ ~ ticking /\ ~ overrun
  /\ clock < MaxClock
  /\ clock' = clock + 1
  /\ fired' = 0 /\ wait' = NoAnswer
  /\ UNCHANGED <<heap, pool, nextId, ticking, due, gone, clean, overrun>>

Next ==
  \/ \E d \in Delays : SetTimeout(d) \/ SetInterval(d)
  \/ \E id \in 1 .. MaxSets : Cancel(id)
  \/ NextDeadline
  \/ Tick \/ TickFire \/ TickReturn
  \/ Advance

Spec == Init /\ [][Next]_vars
-----------------------------------------------------------------------------
\* The type invariant: pool, heap and clock stay in the ranges of QueueRec's
\* fields and of the 32-bit word (scaled down).
TypeOK ==
  /\ \A i \in DOMAIN heap : heap[i] \in Slot
  /\ \A s \in Slot :
       /\ pool[s].deadline \in 0 .. Wrap - 1 /\ pool[s].interval \in Delays \cup {0}
       /\ pool[s].id \in 0 .. MaxSets /\ pool[s].active \in BOOLEAN
  /\ nextId \in 1 .. MaxSets + 1 /\ clock \in Start .. MaxClock
  /\ ticking \in BOOLEAN /\ fired \in 0 .. MaxSets /\ wait \in -2 .. Wrap
  /\ due \in [Slot -> Nat] /\ gone \subseteq 1 .. MaxSets /\ clean \in BOOLEAN /\ overrun \in BOOLEAN

Active == {s \in Slot : pool[s].active}

\* As long as no slot was taken again while its old entry was in the heap, a
\* slot has one entry, so the heap fits its array, however often Tick pops
\* and pushes again, and it is ordered by the true deadlines.
CleanHeap == clean => ~ overrun /\ IsInjective(heap)
InDeadlineOrder == clean => \A i \in 2 .. Len(heap) : due[heap[i \div 2]] <= due[heap[i]]

\* An id names one armed timer.
IdsUnique == \A s, t \in Active : pool[s].id = pool[t].id => s = t

\* A timer that is set, and neither cancelled nor expired, is in the heap:
\* Tick will come to it.
ActiveInHeap == \A s \in Active : s \in Range(heap)

\* A callback is enqueued not before its time, also when the clock's word
\* wraps; for a cancelled timer never, for a one-shot only once, whatever
\* timers have used its slot since.
FiresWhenDue ==
  [][fired' # 0 => fired' \notin gone /\ \E s \in Slot : pool[s].id = fired' /\ due[s] <= clock]_vars

\* Tick leaves no due timer behind, although it looks only at the root of the
\* heap, as long as no slot was taken again while its old entry was in the heap;
\* after that it may, where Timers.def says "Fire all timers whose deadline <= now".
CleanTickComplete == [][clean /\ ticking /\ ~ ticking' => \A s \in Active : due[s] > clock]_vars

\* Up to then NextDeadline tells exactly how long the loop may sleep.
CleanNextDeadline ==
  clean /\ wait # NoAnswer =>
    IF Active = {} THEN wait = -1
    ELSE wait = Max({0, Min({due[s] : s \in Active}) - clock})

\* What Tick and NextDeadline rest on: every armed timer is in the heap, under an
\* id of its own, and until a slot is taken again while its old entry is there
\* (AllocSlot looks at the pool only), each is there once, the heap is in the order
\* of deadlines and the root is the next one, also when the clock's word wraps.
HeapInv == TypeOK /\ CleanHeap /\ InDeadlineOrder /\ IdsUnique /\ ActiveInHeap /\ CleanNextDeadline
=============================================================================
