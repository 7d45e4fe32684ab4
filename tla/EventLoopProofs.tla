-------------------------- MODULE EventLoopProofs ---------------------------
(***************************************************************************)
(* Proofs about EventLoop, for every set of descriptors, length of the     *)
(* watcher array, capacity of the scheduler and of the timer queue, pump   *)
(* budget, and bound on time and on client calls.                          *)
(***************************************************************************)
EXTENDS EventLoop, DataLemmas

watch == <<watchers, nWatchers, interest>>

WatcherRec == [active : {TRUE}, fd : Fd, events : Mask]
TimerRec == [id : Id, deadline : Nat, interval : Delays \cup {0}]
OldRec == [entries : Nat, tangled : BOOLEAN]

\* The watcher array and the kernel's registrations, which only the client's
\* watch calls change.
WatchInv ==
  /\ watchers \in [Watcher -> WatcherRec \cup {NoWatcher}]
  /\ interest \in [DOMAIN interest -> Mask] /\ DOMAIN interest \subseteq Fd
  /\ nWatchers \in 0 .. MaxWatchers
  /\ WatchersInSync

\* The other variables' types.
CoreType ==
  /\ alive \in BOOLEAN /\ running \in BOOLEAN /\ stopFlag \in BOOLEAN
  /\ timers \subseteq TimerRec /\ IsFiniteSet(timers) /\ Cardinality(timers) <= MaxTimers
  /\ old \in OldRec /\ queue \in Seq(Id) /\ Len(queue) <= SchedCapacity
  /\ pc \in {"idle", "begin", "wait", "dispatch", "watcher", "tick", "pump", "task", "lost"}
  /\ buf \in Seq(Fd) /\ pump \in [steps : 0 .. PumpBudget, only : BOOLEAN] /\ cur \in Id \cup {0}
  /\ clock \in 0 .. MaxClock /\ now \in 0 .. MaxClock /\ calls \in 0 .. MaxCalls

\* Run runs only inside an iteration of a loop that exists, a task has been
\* counted by its pump, and an iteration that only pumps had nothing else to do
\* until its first task ran.
PhaseInv ==
  /\ pc # "idle" => alive
  /\ running => pc # "idle"
  /\ pc = "task" => pump.steps > 0
  /\ pc = "pump" /\ pump.only /\ pump.steps = 0 => nWatchers = 0 /\ timers = {}

IInv == WatchInv /\ CoreType /\ PhaseInv /\ StopHonoured

-----------------------------------------------------------------------------
\* The sizes, one by one.
LEMMA Sizes ==
  /\ MaxWatchers \in Nat /\ MaxWatchers > 0 /\ SchedCapacity \in Nat /\ SchedCapacity > 0
  /\ PumpBudget \in Nat /\ PumpBudget > 0 /\ MaxTimers \in Nat /\ MaxTimers > 0
  /\ Delays \subseteq Nat /\ MaxClock \in Nat /\ MaxCalls \in Nat
  BY SizesAssumption, TimeAssumption

\* An entry of the watcher array is a watcher or free, as its flag says.
LEMMA WatcherEntry ==
  ASSUME WatchInv, NEW w \in Watcher
  PROVE  /\ watchers[w].active <=> watchers[w] \in WatcherRec
         /\ w \in Active <=> watchers[w].active
         /\ watchers[w].active => watchers[w].fd \in Fd /\ watchers[w].events \in Mask
  <1>1. watchers[w] \in WatcherRec \/ watchers[w] = NoWatcher
    BY DEF WatchInv
  <1>2. \A r \in WatcherRec : r.active = TRUE /\ r.fd \in Fd /\ r.events \in Mask
    BY DEF WatcherRec
  <1>3. NoWatcher.active = FALSE
    BY DEF NoWatcher
  <1> QED BY <1>1, <1>2, <1>3 DEF Active

\* The inductive invariant implies what the run checks.
LEMMA InvImpliesLoopInv == IInv => LoopInv
  <1> SUFFICES ASSUME IInv PROVE LoopInv
    OBVIOUS
  <1>1. WatchInv /\ CoreType /\ StopHonoured
    BY DEF IInv
  <1>2. \A w \in Active : watchers[w].fd \in Fd /\ watchers[w].events \in Mask
    BY <1>1, WatcherEntry DEF Active
  <1>3. \A t \in timers : t.id \in Id /\ t.deadline \in Nat /\ t.interval \in Delays \cup {0}
    BY <1>1 DEF CoreType, TimerRec
  <1>4. {alive, running, stopFlag} \subseteq BOOLEAN
    BY <1>1, Zenon DEF CoreType
  <1>5. old.entries \in Nat /\ old.tangled \in BOOLEAN
    BY <1>1 DEF CoreType, OldRec
  <1> QED BY <1>1, <1>2, <1>3, <1>4, <1>5 DEF LoopInv, TypeOK, CoreType, WatchInv

\* An empty loop has no watcher and no registration.
LEMMA EmptyWatch ==
  ASSUME EmptyLoop
  PROVE  WatchInv'
  <1>1. watchers' = [w \in Watcher |-> NoWatcher] /\ nWatchers' = 0 /\ interest' = << >>
    BY DEF EmptyLoop
  <1>2. Active' = {}
    BY <1>1 DEF Active, NoWatcher
  <1>3. DOMAIN (interest') = {} /\ interest' \in [{} -> Mask]
    BY <1>1
  <1>4. WatchersInSync'
    BY <1>1, <1>2, <1>3, FS_EmptySet DEF WatchersInSync
  <1> QED BY <1>1, <1>3, <1>4, SizesAssumption DEF WatchInv

\* Nothing but the watch calls touches the watchers.
LEMMA WatchSame ==
  ASSUME WatchInv, UNCHANGED watch
  PROVE  WatchInv'
  <1>1. Active' = Active
    BY DEF watch, Active
  <1> QED BY <1>1 DEF watch, WatchInv, WatchersInSync

\* An empty pump record.
LEMMA NoPumpType == NoPump \in [steps : 0 .. PumpBudget, only : BOOLEAN]
                    /\ NoPump.steps = 0 /\ NoPump.only = FALSE
  BY SizesAssumption DEF NoPump

\* What the heap holds beside the armed timers, after each of its operations.
LEMMA OldType ==
  /\ NoOld \in OldRec
  /\ old \in OldRec => /\ Retaken \subseteq OldRec /\ Purged \subseteq OldRec
                        /\ [old EXCEPT !.entries = @ + 1] \in OldRec
  <1>1. NoOld \in OldRec
    BY DEF NoOld, OldRec
  <1>2. ASSUME old \in OldRec PROVE Retaken \subseteq OldRec
    BY <1>2 DEF Retaken, OldRec
  <1>3. ASSUME old \in OldRec PROVE Purged \subseteq OldRec
    <2>1. \A n \in 0 .. old.entries : [old EXCEPT !.entries = n] \in OldRec
      BY <1>3 DEF OldRec
    <2> QED BY <1>1, <2>1 DEF Purged
  <1>4. ASSUME old \in OldRec PROVE [old EXCEPT !.entries = @ + 1] \in OldRec
    BY <1>4 DEF OldRec
  <1> QED BY <1>1, <1>2, <1>3, <1>4

\* There is no loop yet.
LEMMA InitInv == Init => IInv
  <1> SUFFICES ASSUME Init PROVE IInv
    OBVIOUS
  <1>1. WatchInv
    <2>1. watchers = [w \in Watcher |-> NoWatcher] /\ nWatchers = 0 /\ interest = << >>
      BY DEF Init
    <2>2. Active = {}
      BY <2>1 DEF Active, NoWatcher
    <2>3. DOMAIN interest = {} /\ interest \in [{} -> Mask]
      BY <2>1
    <2>4. WatchersInSync
      BY <2>1, <2>2, <2>3, FS_EmptySet DEF WatchersInSync
    <2> QED BY <2>1, <2>3, <2>4, SizesAssumption DEF WatchInv
  <1>2. CoreType
    <2>1. timers \subseteq TimerRec /\ IsFiniteSet(timers) /\ Cardinality(timers) <= MaxTimers
      BY FS_EmptySet, SizesAssumption DEF Init
    <2>2. queue \in Seq(Id) /\ Len(queue) <= SchedCapacity /\ buf \in Seq(Fd)
      BY SizesAssumption DEF Init
    <2>3. alive \in BOOLEAN /\ running \in BOOLEAN /\ stopFlag \in BOOLEAN
      BY DEF Init
    <2>4. pc \in {"idle", "begin", "wait", "dispatch", "watcher", "tick", "pump", "task", "lost"}
          /\ cur \in Id \cup {0} /\ clock \in 0 .. MaxClock /\ now \in 0 .. MaxClock /\ calls \in 0 .. MaxCalls
      BY Sizes DEF Init
    <2>5. pump \in [steps : 0 .. PumpBudget, only : BOOLEAN]
      BY NoPumpType DEF Init
    <2>6. old \in OldRec
      BY OldType DEF Init
    <2> QED BY <2>1, <2>2, <2>3, <2>4, <2>5, <2>6 DEF CoreType
  <1>3. PhaseInv /\ StopHonoured
    BY DEF Init, PhaseInv, StopHonoured
  <1> QED BY <1>1, <1>2, <1>3 DEF IInv

\* The timers after one more, and after one less.
LEMMA TimersChange ==
  ASSUME CoreType, NEW t
  PROVE  /\ IsFiniteSet(timers \cup {t}) /\ IsFiniteSet(timers \ {t})
         /\ Cardinality(timers) \in Nat /\ Cardinality(timers \ {t}) \in Nat
         /\ Cardinality(timers \cup {t}) <= Cardinality(timers) + 1
         /\ Cardinality(timers \ {t}) <= Cardinality(timers)
         /\ t \in timers => Cardinality(timers \ {t}) = Cardinality(timers) - 1
  <1>1. IsFiniteSet(timers)
    BY DEF CoreType
  <1>2. Cardinality(timers) \in Nat /\ IsFiniteSet(timers \ {t})
    BY <1>1, FS_CardinalityType, FS_RemoveElement
  <1>3. Cardinality(timers \ {t}) \in Nat
    BY <1>2, FS_CardinalityType
  <1> QED BY <1>1, <1>2, <1>3, FS_AddElement, FS_RemoveElement

\* Creating and destroying the loop.
LEMMA CreateInv ==
  ASSUME IInv, Create \/ Destroy
  PROVE  IInv'
  <1>1. CoreType /\ PhaseInv /\ StopHonoured
    BY DEF IInv
  <1>2. EmptyLoop /\ alive' \in BOOLEAN /\ running' = FALSE /\ stopFlag' = FALSE
        /\ UNCHANGED <<pc, buf, pump, now, cur, clock, calls>>
    BY DEF Create, Destroy
  <1>3. pc = "idle"
    BY <1>1 DEF Create, Destroy, PhaseInv
  <1>4. timers' = {} /\ queue' = << >> /\ old' \in OldRec
    BY <1>2, OldType DEF EmptyLoop
  <1>5. CoreType'
    <2>1. IsFiniteSet({}) /\ Cardinality({}) = 0
      BY FS_EmptySet
    <2>2. queue' \in Seq(Id) /\ Len(queue') = 0
      BY <1>4
    <2>3. running' \in BOOLEAN /\ stopFlag' \in BOOLEAN
      BY <1>2
    <2>4. timers' \subseteq TimerRec /\ IsFiniteSet(timers') /\ Cardinality(timers') <= MaxTimers
          /\ Len(queue') <= SchedCapacity
      BY <1>4, <2>1, <2>2, Sizes
    <2> QED BY <1>1, <1>2, <1>4, <2>2, <2>3, <2>4 DEF CoreType
  <1>6. PhaseInv' /\ StopHonoured'
    BY <1>2, <1>3 DEF PhaseInv, StopHonoured
  <1> QED BY <1>2, <1>5, <1>6, EmptyWatch DEF IInv

\* A client's call keeps the phase of RunOnce, and is never made between the
\* first look at the loop and the first task of an iteration that only pumps.
LEMMA ClientPhase ==
  ASSUME CoreType, PhaseInv, StopHonoured, Client, UNCHANGED control
  PROVE  PhaseInv' /\ StopHonoured'
  <1>1. pc \in {"idle", "watcher", "task"}
    BY DEF Client
  <1> QED BY <1>1 DEF PhaseInv, StopHonoured, control

\* SetTimeout and SetInterval.
LEMMA SetTimerInv ==
  ASSUME IInv, NEW d \in Delays, NEW i \in Delays \cup {0}, SetTimer(d, i)
  PROVE  IInv'
  <1>1. WatchInv /\ CoreType /\ PhaseInv /\ StopHonoured
    BY DEF IInv
  <1> DEFINE t == [id |-> calls', deadline |-> clock + d, interval |-> i]
  <1>2. /\ Client /\ calls < MaxCalls /\ calls' = calls + 1 /\ Cardinality(timers) < MaxTimers
        /\ timers' = timers \cup {t} /\ old' \in Retaken /\ pc' \in {pc, "lost"}
        /\ UNCHANGED <<alive, running, buf, pump, now, cur, clock, stopFlag, watchers, nWatchers, interest, queue>>
    BY DEF SetTimer, NewCall
  <1>3. calls' \in 1 .. MaxCalls /\ clock + d \in Nat
    BY <1>1, <1>2, TimeAssumption DEF CoreType
  <1>4. t \in TimerRec
    BY <1>3 DEF TimerRec, Id
  <1> HIDE DEF t
  <1>5. IsFiniteSet(timers') /\ Cardinality(timers') <= MaxTimers
    <2>1. IsFiniteSet(timers \cup {t}) /\ Cardinality(timers \cup {t}) \in Nat
      BY <1>1, TimersChange, FS_CardinalityType
    <2>2. Cardinality(timers \cup {t}) <= Cardinality(timers) + 1 /\ Cardinality(timers) \in Nat
      BY <1>1, TimersChange
    <2> QED BY <1>2, <2>1, <2>2, SizesAssumption
  <1>6. CoreType'
    <2>1. old' \in OldRec
      BY <1>1, <1>2, OldType DEF CoreType
    <2> QED BY <1>1, <1>2, <1>3, <1>4, <1>5, <2>1, TimeAssumption DEF CoreType
  <1>7. PhaseInv' /\ StopHonoured'
    <2>1. pc \in {"idle", "watcher", "task"} /\ alive
      BY <1>2 DEF Client
    <2> QED BY <1>1, <1>2, <2>1 DEF PhaseInv, StopHonoured
  <1> QED BY <1>1, <1>2, <1>6, <1>7, WatchSame DEF IInv, watch

\* Cancelling a timer.
LEMMA CancelTimerInv ==
  ASSUME IInv, NEW id \in Id, CancelTimer(id)
  PROVE  IInv'
  <1>1. WatchInv /\ CoreType /\ PhaseInv /\ StopHonoured
    BY DEF IInv
  <1>2. PICK t \in timers : timers' = timers \ {t}
    BY DEF CancelTimer
  <1>3. /\ Client /\ old' \in OldRec
        /\ UNCHANGED <<control, calls, stopFlag, watchers, nWatchers, interest, queue>>
    BY <1>1, OldType DEF CancelTimer, CoreType
  <1>4. IsFiniteSet(timers') /\ Cardinality(timers') <= MaxTimers
    <2>1. /\ IsFiniteSet(timers \ {t}) /\ Cardinality(timers) \in Nat /\ Cardinality(timers \ {t}) \in Nat
          /\ Cardinality(timers \ {t}) <= Cardinality(timers)
      BY <1>1, TimersChange
    <2>2. Cardinality(timers) <= MaxTimers
      BY <1>1 DEF CoreType
    <2> QED BY <1>2, <2>1, <2>2, Sizes
  <1>5. CoreType'
    BY <1>1, <1>2, <1>3, <1>4 DEF CoreType, control
  <1>6. PhaseInv' /\ StopHonoured'
    BY <1>1, <1>3, ClientPhase
  <1> QED BY <1>1, <1>3, <1>5, <1>6, WatchSame DEF IInv, watch

\* Enqueuing a task.
LEMMA EnqueueInv ==
  ASSUME IInv, Enqueue
  PROVE  IInv'
  <1>1. WatchInv /\ CoreType /\ PhaseInv /\ StopHonoured
    BY DEF IInv
  <1>2. /\ Client /\ calls < MaxCalls /\ calls' = calls + 1 /\ Len(queue) < SchedCapacity
        /\ queue' = Append(queue, calls')
        /\ UNCHANGED <<control, stopFlag, watchers, nWatchers, interest, timers, old>>
    BY DEF Enqueue, NewCall, HasRoom
  <1>3. calls' \in Id /\ calls' \in 0 .. MaxCalls
    BY <1>1, <1>2, TimeAssumption DEF CoreType, Id
  <1>4. queue' \in Seq(Id) /\ Len(queue') = Len(queue) + 1 /\ Len(queue) \in Nat
    BY <1>1, <1>2, <1>3, AppendElements, SeqElements DEF CoreType
  <1>5. CoreType'
    BY <1>1, <1>2, <1>3, <1>4, SizesAssumption DEF CoreType, control
  <1>6. PhaseInv' /\ StopHonoured'
    BY <1>1, <1>2, ClientPhase
  <1> QED BY <1>1, <1>2, <1>5, <1>6, WatchSame DEF IInv, watch

\* A Stop is seen by Run when the iteration ends.
LEMMA StopInv ==
  ASSUME IInv, Stop
  PROVE  IInv'
  <1>1. WatchInv /\ CoreType /\ PhaseInv /\ StopHonoured
    BY DEF IInv
  <1>2. Client /\ stopFlag' = TRUE /\ UNCHANGED <<control, calls, loopRec>>
    BY DEF Stop
  <1>3. CoreType' /\ WatchInv'
    BY <1>1, <1>2, WatchSame DEF CoreType, control, loopRec, watch
  <1>4. PhaseInv' /\ StopHonoured'
    BY <1>1, <1>2, ClientPhase
  <1> QED BY <1>3, <1>4 DEF IInv

\* WatchFd finds a free entry whenever the counter says there is one.
LEMMA FreeEntry ==
  ASSUME WatchInv, nWatchers < MaxWatchers
  PROVE  Min(Watcher \ Active) \in Watcher \ Active
  <1>1. IsFiniteSet(Watcher) /\ Cardinality(Watcher) = MaxWatchers
    BY Sizes, FS_Interval DEF Watcher
  <1>2. Watcher \ Active # {}
    <2>1. SUFFICES ASSUME Watcher \ Active = {} PROVE FALSE
      OBVIOUS
    <2>2. Active = Watcher
      BY <2>1 DEF Active
    <2> QED BY <1>1, <2>2, Sizes DEF WatchInv, WatchersInSync
  <1> QED BY <1>2, LeastNat DEF Watcher

\* The active watchers are finitely many.
LEMMA ActiveFinite == IsFiniteSet(Active) /\ Cardinality(Active) \in Nat
  <1>1. IsFiniteSet(Watcher)
    BY Sizes, FS_Interval DEF Watcher
  <1> QED BY <1>1, FS_Subset, FS_CardinalityType DEF Active

\* The one watcher of a descriptor.
LEMMA TheWatcher ==
  ASSUME WatchInv, NEW fd \in Fd, FindWatcher(fd) # {}
  PROVE  /\ Min(FindWatcher(fd)) \in Active /\ watchers[Min(FindWatcher(fd))].fd = fd
         /\ fd \in DOMAIN interest
         /\ \A w \in Active : watchers[w].fd = fd => w = Min(FindWatcher(fd))
  <1>1. Min(FindWatcher(fd)) \in FindWatcher(fd)
    BY LeastNat DEF FindWatcher, Active, Watcher
  <1> QED BY <1>1 DEF FindWatcher, WatchInv, WatchersInSync

\* A new watcher: one entry, one registration, one more in the counter.
LEMMA WatchFdInv ==
  ASSUME IInv, NEW fd \in Fd, NEW m \in Mask, WatchFd(fd, m)
  PROVE  IInv'
  <1>1. WatchInv /\ CoreType /\ PhaseInv /\ StopHonoured
    BY DEF IInv
  <1> DEFINE w0 == Min(Watcher \ Active)  r == [active |-> TRUE, fd |-> fd, events |-> m]
  <1>2. /\ Client /\ calls < MaxCalls /\ calls' = calls + 1 /\ nWatchers < MaxWatchers
        /\ fd \notin DOMAIN interest
        /\ interest' = [f \in DOMAIN interest \cup {fd} |-> IF f = fd THEN m ELSE interest[f]]
        /\ watchers' = [watchers EXCEPT ![w0] = r] /\ nWatchers' = nWatchers + 1
        /\ UNCHANGED <<control, stopFlag, timers, old, queue>>
    BY DEF WatchFd, NewCall
  <1>3. PICK w \in Watcher \ Active : w = w0
    BY <1>1, <1>2, FreeEntry
  <1>4. r \in WatcherRec /\ r.active = TRUE /\ r.fd = fd /\ r.events = m
    BY DEF WatcherRec
  <1> HIDE DEF w0, r
  <1>5. /\ watchers' \in [Watcher -> WatcherRec \cup {NoWatcher}] /\ watchers'[w] = r
        /\ \A v \in Watcher \ {w} : watchers'[v] = watchers[v]
    BY <1>1, <1>2, <1>3, <1>4 DEF WatchInv
  <1>6. Active' = Active \cup {w}
    BY <1>3, <1>4, <1>5 DEF Active
  <1>7. /\ DOMAIN (interest') = DOMAIN interest \cup {fd} /\ interest' \in [DOMAIN (interest') -> Mask]
        /\ interest'[fd] = m /\ \A f \in DOMAIN interest : interest'[f] = interest[f]
    BY <1>1, <1>2 DEF WatchInv
  <1>8. WatchersInSync'
    <2>1. nWatchers' = Cardinality(Active')
      <3>1. Cardinality(Active \cup {w}) = Cardinality(Active) + 1
        BY <1>3, ActiveFinite, FS_AddElement
      <3> QED BY <1>1, <1>2, <1>6, <3>1 DEF WatchInv, WatchersInSync
    <2>2. \A v \in Active : v # w /\ watchers'[v] = watchers[v] /\ watchers[v].fd \in DOMAIN interest
          /\ watchers[v].fd # fd
      BY <1>1, <1>2, <1>3, <1>5 DEF WatchInv, WatchersInSync, Active
    <2>3. DOMAIN (interest') = {watchers'[v].fd : v \in Active'}
      <3>1. DOMAIN interest = {watchers[v].fd : v \in Active}
        BY <1>1 DEF WatchInv, WatchersInSync
      <3> QED BY <1>4, <1>5, <1>6, <1>7, <2>2, <3>1
    <2>4. \A v \in Active' : interest'[watchers'[v].fd] = watchers'[v].events
      BY <1>1, <1>4, <1>5, <1>6, <1>7, <2>2 DEF WatchInv, WatchersInSync
    <2>5. \A u, v \in Active' : watchers'[u].fd = watchers'[v].fd => u = v
      BY <1>1, <1>4, <1>5, <1>6, <2>2 DEF WatchInv, WatchersInSync
    <2> QED BY <2>1, <2>3, <2>4, <2>5 DEF WatchersInSync
  <1>9. WatchInv'
    BY <1>1, <1>2, <1>5, <1>7, <1>8, Sizes DEF WatchInv
  <1>10. CoreType'
    <2>1. calls' \in 0 .. MaxCalls
      BY <1>1, <1>2, Sizes DEF CoreType
    <2> QED BY <1>1, <1>2, <2>1 DEF CoreType, control
  <1>11. PhaseInv' /\ StopHonoured'
    BY <1>1, <1>2, ClientPhase
  <1> QED BY <1>9, <1>10, <1>11 DEF IInv

\* A watcher's interest set changes in the array and in the kernel.
LEMMA ModifyFdInv ==
  ASSUME IInv, NEW fd \in Fd, NEW m \in Mask, ModifyFd(fd, m)
  PROVE  IInv'
  <1>1. WatchInv /\ CoreType /\ PhaseInv /\ StopHonoured
    BY DEF IInv
  <1>2. /\ Client /\ FindWatcher(fd) # {} /\ interest' = [interest EXCEPT ![fd] = m]
        /\ watchers' = [watchers EXCEPT ![Min(FindWatcher(fd))].events = m]
        /\ UNCHANGED <<control, calls, stopFlag, nWatchers, timers, old, queue>>
    BY DEF ModifyFd
  <1>3. PICK w \in Active : /\ w = Min(FindWatcher(fd)) /\ watchers[w].fd = fd /\ fd \in DOMAIN interest
                            /\ \A v \in Active : watchers[v].fd = fd => v = w
    BY <1>1, <1>2, TheWatcher
  <1>4. w \in Watcher
    BY DEF Active
  <1>5. PICK c \in WatcherRec : c = watchers[w]
    BY <1>1, <1>3, <1>4, WatcherEntry
  <1> DEFINE r == [c EXCEPT !.events = m]
  <1>6. r \in WatcherRec /\ r.active = TRUE /\ r.fd = c.fd /\ r.events = m
    BY DEF WatcherRec
  <1>7. watchers' = [watchers EXCEPT ![w] = r]
    BY <1>2, <1>3, <1>5
  <1> HIDE DEF r
  <1>8. /\ watchers' \in [Watcher -> WatcherRec \cup {NoWatcher}] /\ watchers'[w] = r
        /\ \A v \in Watcher \ {w} : watchers'[v] = watchers[v]
    BY <1>1, <1>4, <1>6, <1>7 DEF WatchInv
  <1>9. Active' = Active /\ \A v \in Active : watchers'[v].fd = watchers[v].fd /\ v \in Watcher
    BY <1>3, <1>4, <1>5, <1>6, <1>8 DEF Active
  <1>10. /\ DOMAIN (interest') = DOMAIN interest /\ interest' \in [DOMAIN interest -> Mask]
         /\ interest'[fd] = m /\ \A f \in DOMAIN interest \ {fd} : interest'[f] = interest[f]
    BY <1>1, <1>2, <1>3 DEF WatchInv
  <1>11. WatchersInSync'
    <2>1. nWatchers' = Cardinality(Active') /\ DOMAIN (interest') = {watchers'[v].fd : v \in Active'}
          /\ \A u, v \in Active' : watchers'[u].fd = watchers'[v].fd => u = v
      BY <1>1, <1>2, <1>9, <1>10 DEF WatchInv, WatchersInSync
    <2>2. ASSUME NEW v \in Active PROVE interest'[watchers'[v].fd] = watchers'[v].events
      <3>1. CASE v = w
        BY <1>3, <1>6, <1>8, <1>9, <1>10, <3>1
      <3>2. CASE v # w
        BY <1>1, <1>3, <1>8, <1>9, <1>10, <3>2 DEF WatchInv, WatchersInSync
      <3> QED BY <3>1, <3>2
    <2> QED BY <1>9, <2>1, <2>2 DEF WatchersInSync
  <1>12. WatchInv'
    BY <1>1, <1>2, <1>8, <1>10, <1>11 DEF WatchInv
  <1>13. CoreType'
    BY <1>1, <1>2 DEF CoreType, control
  <1>14. PhaseInv' /\ StopHonoured'
    BY <1>1, <1>2, ClientPhase
  <1> QED BY <1>12, <1>13, <1>14 DEF IInv

\* A watcher goes with its registration.
LEMMA UnwatchFdInv ==
  ASSUME IInv, NEW fd \in Fd, UnwatchFd(fd)
  PROVE  IInv'
  <1>1. WatchInv /\ CoreType /\ PhaseInv /\ StopHonoured
    BY DEF IInv
  <1>2. /\ Client /\ FindWatcher(fd) # {} /\ nWatchers' = nWatchers - 1
        /\ interest' = [f \in DOMAIN interest \ {fd} |-> interest[f]]
        /\ watchers' = [watchers EXCEPT ![Min(FindWatcher(fd))] = NoWatcher]
        /\ UNCHANGED <<control, calls, stopFlag, timers, old, queue>>
    BY DEF UnwatchFd, Removed, Restrict
  <1>3. PICK w \in Active : /\ w = Min(FindWatcher(fd)) /\ watchers[w].fd = fd /\ fd \in DOMAIN interest
                            /\ \A v \in Active : watchers[v].fd = fd => v = w
    BY <1>1, <1>2, TheWatcher
  <1>4. w \in Watcher /\ NoWatcher.active = FALSE
    BY DEF Active, NoWatcher
  <1>5. /\ watchers' \in [Watcher -> WatcherRec \cup {NoWatcher}] /\ watchers'[w] = NoWatcher
        /\ \A v \in Watcher \ {w} : watchers'[v] = watchers[v]
    BY <1>1, <1>2, <1>3, <1>4 DEF WatchInv
  <1>6. Active' = Active \ {w} /\ \A v \in Active \ {w} : watchers'[v] = watchers[v]
    BY <1>4, <1>5 DEF Active
  <1>7. /\ DOMAIN (interest') = DOMAIN interest \ {fd} /\ interest' \in [DOMAIN (interest') -> Mask]
        /\ \A f \in DOMAIN interest \ {fd} : interest'[f] = interest[f]
    BY <1>1, <1>2 DEF WatchInv
  <1>8. nWatchers' = Cardinality(Active') /\ nWatchers' \in 0 .. MaxWatchers
    <2>1. Cardinality(Active \ {w}) = Cardinality(Active) - 1
      BY ActiveFinite, FS_RemoveElement
    <2>2. Cardinality(Active \ {w}) \in Nat
      BY ActiveFinite, FS_RemoveElement, FS_CardinalityType
    <2> QED BY <1>1, <1>2, <1>6, <2>1, <2>2, ActiveFinite, Sizes DEF WatchInv, WatchersInSync
  <1>9. WatchersInSync'
    <2>1. DOMAIN (interest') = {watchers'[v].fd : v \in Active'}
      <3>1. DOMAIN interest = {watchers[v].fd : v \in Active}
        BY <1>1 DEF WatchInv, WatchersInSync
      <3> QED BY <1>3, <1>6, <1>7, <3>1
    <2>2. \A v \in Active' : interest'[watchers'[v].fd] = watchers'[v].events
      BY <1>1, <1>3, <1>6, <1>7, <2>1 DEF WatchInv, WatchersInSync
    <2>3. \A u, v \in Active' : watchers'[u].fd = watchers'[v].fd => u = v
      BY <1>1, <1>6 DEF WatchInv, WatchersInSync
    <2> QED BY <1>8, <2>1, <2>2, <2>3 DEF WatchersInSync
  <1>10. WatchInv'
    BY <1>1, <1>5, <1>7, <1>8, <1>9 DEF WatchInv
  <1>11. CoreType'
    BY <1>1, <1>2 DEF CoreType, control
  <1>12. PhaseInv' /\ StopHonoured'
    BY <1>1, <1>2, ClientPhase
  <1> QED BY <1>10, <1>11, <1>12 DEF IInv

-----------------------------------------------------------------------------
\* Run and RunOnce begin an iteration; Run forgets an earlier Stop.
LEMMA RunInv ==
  ASSUME IInv, Run \/ RunOnce
  PROVE  IInv'
  <1>1. WatchInv /\ CoreType /\ PhaseInv /\ StopHonoured
    BY DEF IInv
  <1>2. /\ alive /\ pc = "idle" /\ pc' = "begin"
        /\ (running' = TRUE /\ stopFlag' = FALSE) \/ UNCHANGED <<running, stopFlag>>
        /\ UNCHANGED <<alive, loopRec, buf, pump, now, cur, clock, calls>>
    BY DEF Run, RunOnce
  <1>3. WatchInv'
    BY <1>1, <1>2, WatchSame DEF loopRec, watch
  <1>4. CoreType'
    BY <1>1, <1>2 DEF CoreType, loopRec
  <1>5. PhaseInv' /\ StopHonoured'
    BY <1>1, <1>2 DEF PhaseInv, StopHonoured
  <1> QED BY <1>3, <1>4, <1>5 DEF IInv

\* The first look at the loop: with no timer and no watcher it only pumps.
LEMMA BeginInv ==
  ASSUME IInv, Begin
  PROVE  IInv'
  <1>1. WatchInv /\ CoreType /\ PhaseInv /\ StopHonoured
    BY DEF IInv
  <1>2. /\ pc = "begin" /\ now' = IF pc' = "tick" THEN clock ELSE 0
        /\ old' \in Purged
        /\ UNCHANGED <<alive, watchers, nWatchers, interest, timers, queue, running, stopFlag, buf, cur, clock, calls>>
    BY DEF Begin, ReadsClock
  <1>3. \/ pc' = "pump" /\ pump' = [steps |-> 0, only |-> TRUE] /\ timers = {} /\ nWatchers = 0
        \/ pc' \in {"wait", "tick"} /\ pump' = pump
    BY DEF Begin
  <1>4. pump' \in [steps : 0 .. PumpBudget, only : BOOLEAN]
    <2>1. [steps |-> 0, only |-> TRUE] \in [steps : 0 .. PumpBudget, only : BOOLEAN]
      BY Sizes
    <2>2. pump \in [steps : 0 .. PumpBudget, only : BOOLEAN]
      BY <1>1 DEF CoreType
    <2> QED BY <1>3, <2>1, <2>2
  <1>5. WatchInv'
    BY <1>1, <1>2, WatchSame DEF watch
  <1>6. CoreType'
    <2>1. now' \in 0 .. MaxClock
      BY <1>1, <1>2, Sizes DEF CoreType
    <2>2. old' \in OldRec
      BY <1>1, <1>2, OldType DEF CoreType
    <2> QED BY <1>1, <1>2, <1>3, <1>4, <2>1, <2>2 DEF CoreType
  <1>7. PhaseInv' /\ StopHonoured'
    BY <1>1, <1>2, <1>3 DEF PhaseInv, StopHonoured
  <1> QED BY <1>5, <1>6, <1>7 DEF IInv

\* The wait returns events of registered descriptors.
LEMMA WaitInv ==
  ASSUME IInv, Wait
  PROVE  IInv'
  <1>1. WatchInv /\ CoreType /\ PhaseInv /\ StopHonoured
    BY DEF IInv
  <1>2. /\ pc = "wait" /\ pc' \in {"dispatch", "tick"} /\ now' = IF pc' = "tick" THEN clock ELSE 0
        /\ UNCHANGED <<alive, loopRec, running, stopFlag, pump, cur, clock, calls>>
    BY DEF Wait, ReadsClock
  <1>3. buf' \in Seq(Fd)
    <2>1. CASE UNCHANGED buf
      BY <1>1, <2>1 DEF CoreType
    <2>2. CASE buf' \in SeqOf(DOMAIN interest, Cardinality(Fd))
      <3>1. Cardinality(Fd) \in Nat
        BY FdAssumption, FS_CardinalityType
      <3>2. PICK n \in 0 .. Cardinality(Fd) : buf' \in [1 .. n -> DOMAIN interest]
        BY <2>2, <3>1 DEF SeqOf
      <3>3. n \in Nat /\ buf' \in [1 .. n -> Fd]
        BY <1>1, <3>1, <3>2 DEF WatchInv
      <3> QED BY <3>3
    <2> QED BY <2>1, <2>2 DEF Wait
  <1>4. WatchInv'
    BY <1>1, <1>2, WatchSame DEF loopRec, watch
  <1>5. CoreType'
    <2>1. now' \in 0 .. MaxClock
      BY <1>1, <1>2, Sizes DEF CoreType
    <2> QED BY <1>1, <1>2, <1>3, <2>1 DEF CoreType, loopRec
  <1>6. PhaseInv' /\ StopHonoured'
    BY <1>1, <1>2 DEF PhaseInv, StopHonoured
  <1> QED BY <1>4, <1>5, <1>6 DEF IInv

\* An event is dispatched to its watcher, if there still is one.
LEMMA DispatchInv ==
  ASSUME IInv, Dispatch \/ WatcherReturn \/ Dispatched
  PROVE  IInv'
  <1>1. WatchInv /\ CoreType /\ PhaseInv /\ StopHonoured
    BY DEF IInv
  <1>2. /\ pc \in {"dispatch", "watcher"} /\ pc' \in {"dispatch", "watcher", "tick"}
        /\ UNCHANGED <<alive, loopRec, running, stopFlag, pump, cur, clock, calls>>
    BY DEF Dispatch, WatcherReturn, Dispatched
  <1>3. buf' \in Seq(Fd)
    <2>1. CASE UNCHANGED buf
      BY <1>1, <2>1 DEF CoreType
    <2>2. CASE buf # << >> /\ buf' = Tail(buf)
      BY <1>1, <2>2, TailElements DEF CoreType
    <2> QED BY <2>1, <2>2 DEF Dispatch, WatcherReturn, Dispatched
  <1>4. now' \in 0 .. MaxClock
    BY <1>1, Sizes DEF Dispatch, WatcherReturn, Dispatched, ReadsClock, CoreType
  <1>5. WatchInv'
    BY <1>1, <1>2, WatchSame DEF loopRec, watch
  <1>6. CoreType'
    BY <1>1, <1>2, <1>3, <1>4 DEF CoreType, loopRec
  <1>7. PhaseInv' /\ StopHonoured'
    BY <1>1, <1>2 DEF PhaseInv, StopHonoured
  <1> QED BY <1>5, <1>6, <1>7 DEF IInv

\* A timer fires: it goes, or comes back with its next deadline.
LEMMA TickFireInv ==
  ASSUME IInv, TickFire
  PROVE  IInv'
  <1>1. WatchInv /\ CoreType /\ PhaseInv /\ StopHonoured
    BY DEF IInv
  <1>2. PICK t \in timers : /\ timers' = (timers \ {t}) \cup Rearmed(t)
                            /\ queue' = IF HasRoom THEN Append(queue, t.id) ELSE queue
    BY DEF TickFire
  <1>3. /\ pc = "tick" /\ old' \in OldRec
        /\ UNCHANGED <<control, stopFlag, watchers, nWatchers, interest, calls>>
    BY <1>1, OldType DEF TickFire, CoreType
  <1>4. t \in TimerRec /\ t.id \in Id /\ t.deadline \in Nat /\ t.interval \in Nat
    <2>1. t \in TimerRec
      BY <1>1 DEF CoreType
    <2>2. t.id \in Id /\ t.deadline \in Nat /\ t.interval \in Delays \cup {0}
      BY <2>1 DEF TimerRec
    <2>3. Delays \cup {0} \subseteq Nat
      BY Sizes
    <2> QED BY <2>1, <2>2, <2>3, Zenon
  <1>5. queue' \in Seq(Id) /\ Len(queue') <= SchedCapacity
    <2>1. Append(queue, t.id) \in Seq(Id) /\ Len(Append(queue, t.id)) = Len(queue) + 1 /\ Len(queue) \in Nat
      BY <1>1, <1>4, AppendElements, SeqElements DEF CoreType
    <2> QED BY <1>1, <1>2, <2>1, Sizes DEF CoreType, HasRoom
  <1>6. timers' \subseteq TimerRec /\ IsFiniteSet(timers') /\ Cardinality(timers') <= MaxTimers
    <2>1. /\ IsFiniteSet(timers \ {t}) /\ Cardinality(timers \ {t}) = Cardinality(timers) - 1
          /\ Cardinality(timers) \in Nat
      BY <1>1, TimersChange
    <2>2. Cardinality(timers) <= MaxTimers /\ timers \subseteq TimerRec
      BY <1>1 DEF CoreType
    <2>3. CASE t.interval > 0
      <3> DEFINE u == [t EXCEPT !.deadline = @ + t.interval]
      <3>1. u \in TimerRec
        <4>1. t.deadline + t.interval \in Nat
          BY <1>4
        <4> QED BY <1>4, <4>1 DEF TimerRec
      <3>2. timers' = (timers \ {t}) \cup {u}
        BY <1>2, <2>3 DEF Rearmed
      <3> HIDE DEF u
      <3>3. IsFiniteSet(timers') /\ Cardinality(timers') <= Cardinality(timers \ {t}) + 1
        <4>1. PICK S : S = timers \ {t}
          OBVIOUS
        <4>2. IsFiniteSet(S) /\ Cardinality(S) \in Nat
          BY <2>1, <4>1, FS_CardinalityType
        <4>3. IsFiniteSet(S \cup {u}) /\ (Cardinality(S \cup {u}) = Cardinality(S) \/ Cardinality(S \cup {u}) = Cardinality(S) + 1)
          <5>1. /\ IsFiniteSet(S \cup {u})
                /\ Cardinality(S \cup {u}) = IF u \in S THEN Cardinality(S) ELSE Cardinality(S) + 1
            BY <4>2, FS_AddElement, Zenon
          <5> QED BY <5>1
        <4> QED BY <3>2, <4>1, <4>2, <4>3
      <3>4. Cardinality(timers') \in Nat /\ Cardinality(timers \ {t}) \in Nat
        BY <2>1, <3>3, FS_CardinalityType
      <3> QED BY <2>1, <2>2, <3>1, <3>2, <3>3, <3>4, Sizes
    <2>4. CASE ~ (t.interval > 0)
      <3>1. timers' = timers \ {t}
        BY <1>2, <2>4 DEF Rearmed
      <3> QED BY <2>1, <2>2, <3>1, Sizes
    <2> QED BY <2>3, <2>4
  <1>7. WatchInv'
    BY <1>1, <1>3, WatchSame DEF watch
  <1>8. CoreType'
    BY <1>1, <1>3, <1>5, <1>6 DEF CoreType, control
  <1>9. PhaseInv' /\ StopHonoured'
    BY <1>1, <1>3 DEF PhaseInv, StopHonoured, control
  <1> QED BY <1>7, <1>8, <1>9 DEF IInv

\* The timers are done and the pump begins.
LEMMA TickReturnInv ==
  ASSUME IInv, TickReturn
  PROVE  IInv'
  <1>1. WatchInv /\ CoreType /\ PhaseInv /\ StopHonoured
    BY DEF IInv
  <1>2. /\ pc = "tick" /\ pc' = "pump" /\ pump' = NoPump /\ now' = 0
        /\ old' \in OldRec
        /\ UNCHANGED <<alive, watchers, nWatchers, interest, timers, queue, running, stopFlag, buf, cur, clock, calls>>
    BY <1>1, OldType DEF TickReturn, CoreType
  <1>3. WatchInv'
    BY <1>1, <1>2, WatchSame DEF watch
  <1>4. CoreType'
    BY <1>1, <1>2, NoPumpType, Sizes DEF CoreType
  <1>5. PhaseInv' /\ StopHonoured'
    BY <1>1, <1>2, NoPumpType DEF PhaseInv, StopHonoured
  <1> QED BY <1>3, <1>4, <1>5 DEF IInv

\* The pump takes the oldest task and counts it.
LEMMA PumpStepInv ==
  ASSUME IInv, PumpStep
  PROVE  IInv'
  <1>1. WatchInv /\ CoreType /\ PhaseInv /\ StopHonoured
    BY DEF IInv
  <1>2. /\ pc = "pump" /\ pump.steps < PumpBudget /\ queue # << >> /\ cur' = Head(queue)
        /\ queue' = Tail(queue) /\ pump' = [pump EXCEPT !.steps = @ + 1] /\ pc' = "task"
        /\ UNCHANGED <<alive, watchers, nWatchers, interest, timers, old, running, stopFlag, buf, now, clock, calls>>
    BY DEF PumpStep
  <1>3. cur' \in Id /\ queue' \in Seq(Id) /\ Len(queue') <= SchedCapacity
    BY <1>1, <1>2, TailElements, SeqElements, Sizes DEF CoreType
  <1>4. pump' \in [steps : 0 .. PumpBudget, only : BOOLEAN] /\ pump'.steps > 0
    <2>1. PICK p \in [steps : 0 .. PumpBudget, only : BOOLEAN] : p = pump
      BY <1>1 DEF CoreType
    <2>2. p.steps + 1 \in 0 .. PumpBudget /\ p.steps + 1 > 0
      BY <1>2, <2>1, Sizes
    <2>3. [p EXCEPT !.steps = p.steps + 1] \in [steps : 0 .. PumpBudget, only : BOOLEAN]
          /\ [p EXCEPT !.steps = p.steps + 1].steps = p.steps + 1
      BY <2>1, <2>2
    <2> QED BY <1>2, <2>1, <2>2, <2>3
  <1>5. WatchInv'
    BY <1>1, <1>2, WatchSame DEF watch
  <1>6. CoreType'
    BY <1>1, <1>2, <1>3, <1>4 DEF CoreType
  <1>7. PhaseInv' /\ StopHonoured'
    BY <1>1, <1>2, <1>4 DEF PhaseInv, StopHonoured
  <1> QED BY <1>5, <1>6, <1>7 DEF IInv

\* A task returns, and RunOnce pumps again.
LEMMA PumpOnInv ==
  ASSUME IInv, TaskReturn \/ PumpAgain
  PROVE  IInv'
  <1>1. WatchInv /\ CoreType /\ PhaseInv /\ StopHonoured
    BY DEF IInv
  <1>2. CASE TaskReturn
    <2>1. /\ pc = "task" /\ pc' = "pump" /\ cur' = 0
          /\ UNCHANGED <<alive, loopRec, running, stopFlag, buf, pump, now, clock, calls>>
      BY <1>2 DEF TaskReturn
    <2>2. WatchInv'
      BY <1>1, <2>1, WatchSame DEF loopRec, watch
    <2>3. CoreType'
      BY <1>1, <2>1 DEF CoreType, loopRec
    <2>4. PhaseInv' /\ StopHonoured'
      BY <1>1, <2>1, Sizes DEF CoreType, PhaseInv, StopHonoured
    <2> QED BY <2>2, <2>3, <2>4 DEF IInv
  <1>3. CASE PumpAgain
    <2>1. /\ pc = "pump" /\ pump' = NoPump
          /\ UNCHANGED <<alive, loopRec, running, stopFlag, pc, buf, now, cur, clock, calls>>
      BY <1>3 DEF PumpAgain, PumpEnds
    <2>2. WatchInv'
      BY <1>1, <2>1, WatchSame DEF loopRec, watch
    <2>3. CoreType'
      BY <1>1, <2>1, NoPumpType DEF CoreType, loopRec
    <2>4. PhaseInv' /\ StopHonoured'
      BY <1>1, <2>1, NoPumpType DEF PhaseInv, StopHonoured
    <2> QED BY <2>2, <2>3, <2>4 DEF IInv
  <1> QED BY <1>2, <1>3

\* RunOnce returns, and Run goes on only without a Stop.
LEMMA RunOnceReturnInv ==
  ASSUME IInv, RunOnceReturn
  PROVE  IInv'
  <1>1. WatchInv /\ CoreType /\ PhaseInv /\ StopHonoured
    BY DEF IInv
  <1> DEFINE more == running /\ ~ Exits(HasWork(pump))
  <1>2. /\ pc = "pump" /\ pump' = NoPump /\ pc' = (IF more THEN "begin" ELSE "idle")
        /\ running' = more
        /\ UNCHANGED <<alive, loopRec, stopFlag, buf, now, cur, clock, calls>>
    BY DEF RunOnceReturn, PumpEnds
  <1>3. running' \in BOOLEAN /\ (running' => ~ stopFlag) /\ (running' <=> pc' = "begin")
        /\ (~ running' <=> pc' = "idle")
    BY <1>2 DEF Exits
  <1>4. pc' \in {"begin", "idle"}
    BY <1>2
  <1> HIDE DEF more
  <1>5. WatchInv'
    BY <1>1, <1>2, WatchSame DEF loopRec, watch
  <1>6. CoreType'
    BY <1>1, <1>2, <1>3, <1>4, NoPumpType DEF CoreType, loopRec
  <1>7. PhaseInv' /\ StopHonoured'
    BY <1>1, <1>2, <1>3, <1>4 DEF PhaseInv, StopHonoured
  <1> QED BY <1>5, <1>6, <1>7 DEF IInv

\* Time passes, or nothing happens.
LEMMA AdvanceInv ==
  ASSUME IInv, Advance \/ UNCHANGED vars
  PROVE  IInv'
  <1>1. WatchInv /\ CoreType /\ PhaseInv /\ StopHonoured
    BY DEF IInv
  <1>2. UNCHANGED <<alive, loopRec, running, stopFlag, pc, buf, pump, now, cur, calls>>
        /\ clock' \in 0 .. MaxClock
    BY <1>1, Sizes DEF Advance, vars, CoreType
  <1>3. WatchInv'
    BY <1>1, <1>2, WatchSame DEF loopRec, watch
  <1>4. CoreType'
    BY <1>1, <1>2 DEF CoreType, loopRec
  <1>5. PhaseInv' /\ StopHonoured'
    BY <1>1, <1>2 DEF PhaseInv, StopHonoured, loopRec
  <1> QED BY <1>3, <1>4, <1>5 DEF IInv

-----------------------------------------------------------------------------
\* Every call of a client, from a callback or from outside, and every step of
\* RunOnce keeps the inductive invariant.
THEOREM InvInductive == IInv /\ [Next]_vars => IInv'
  <1> SUFFICES ASSUME IInv, [Next]_vars PROVE IInv'
    OBVIOUS
  <1>1. CASE Create \/ Destroy
    BY <1>1, CreateInv
  <1>2. CASE ClientCall
    <2>1. ASSUME NEW d \in Delays, SetTimeout(d) \/ SetInterval(d) PROVE IInv'
      BY <2>1, SetTimerInv DEF SetTimeout, SetInterval
    <2>2. ASSUME NEW id \in Id, CancelTimer(id) PROVE IInv'
      BY <2>2, CancelTimerInv
    <2>3. ASSUME NEW fd \in Fd, NEW m \in Mask, WatchFd(fd, m) PROVE IInv'
      BY <2>3, WatchFdInv
    <2>4. ASSUME NEW fd \in Fd, NEW m \in Mask, ModifyFd(fd, m) PROVE IInv'
      BY <2>4, ModifyFdInv
    <2>5. ASSUME NEW fd \in Fd, UnwatchFd(fd) PROVE IInv'
      BY <2>5, UnwatchFdInv
    <2> QED BY <1>2, <2>1, <2>2, <2>3, <2>4, <2>5, EnqueueInv, StopInv DEF ClientCall
  <1>3. CASE Run \/ RunOnce
    BY <1>3, RunInv
  <1>4. CASE LoopStep
    BY <1>4, BeginInv, WaitInv, DispatchInv, TickFireInv, TickReturnInv, PumpStepInv, PumpOnInv,
       RunOnceReturnInv DEF LoopStep
  <1>5. CASE Advance \/ UNCHANGED vars
    BY <1>5, AdvanceInv
  <1> QED BY <1>1, <1>2, <1>3, <1>4, <1>5 DEF Next

\* For every bound: the watcher array, its counter and the kernel's
\* registrations agree after every call, also one made while a batch of events
\* is dispatched, and no iteration begins after a Stop.
THEOREM LoopSafe == Spec => []LoopInv
  <1>1. Init => IInv
    BY InitInv
  <1>2. IInv /\ [Next]_vars => IInv'
    BY InvInductive
  <1>3. IInv => LoopInv
    BY InvImpliesLoopInv
  <1> QED BY <1>1, <1>2, <1>3, PTL DEF Spec

\* An iteration that ends pumped until a pump found nothing.
LEMMA LastPumpIdle ==
  ASSUME IInv, RunOnceReturn, pump.steps = 0
  PROVE  queue = << >>
  <1>1. pump.steps >= PumpBudget \/ queue = << >>
    BY DEF RunOnceReturn, PumpEnds
  <1> QED BY <1>1, Sizes

\* Run returns by itself only when no watcher, timer or task is left, and an
\* iteration that came to the timers leaves no task queued, whatever the
\* callbacks of the iteration did.
THEOREM LeavesNothingBehind == Spec => NothingLeftBehind
  <1> DEFINE Exit == running /\ ~ running' /\ ~ stopFlag => nWatchers = 0 /\ timers = {} /\ queue = << >>
             Drain == RunOnceReturn /\ ~ pump.only => queue = << >>
  <1>1. Init => IInv
    BY InitInv
  <1>2. IInv /\ [Next]_vars => IInv'
    BY InvInductive
  <1>3. IInv /\ [Next]_vars => [Exit]_vars
    <2> SUFFICES ASSUME IInv, Next, running, ~ running', ~ stopFlag
                 PROVE  nWatchers = 0 /\ timers = {} /\ queue = << >>
      OBVIOUS
    <2>1. CoreType /\ PhaseInv /\ WatchInv
      BY DEF IInv
    <2>2. alive /\ pc # "idle"
      BY <2>1 DEF PhaseInv
    <2>3. RunOnceReturn
      <3>1. ~ (Create \/ Destroy \/ Run \/ RunOnce)
        BY <2>2 DEF Create, Destroy, Run, RunOnce
      <3>2. ASSUME UNCHANGED control PROVE FALSE
        BY <3>2 DEF control
      <3>3. ~ ClientCall
        <4>1. SUFFICES ASSUME ClientCall PROVE UNCHANGED control
          BY <3>2
        <4> QED BY <4>1 DEF ClientCall, SetTimeout, SetInterval, SetTimer, CancelTimer, WatchFd, ModifyFd,
                            UnwatchFd, Enqueue, Stop
      <3>4. ~ Advance
        BY DEF Advance
      <3>5. ~ (Begin \/ Wait \/ Dispatch \/ Dispatched \/ WatcherReturn \/ TickReturn)
        BY DEF Begin, Wait, Dispatch, Dispatched, WatcherReturn, TickReturn
      <3>6. ~ (TickFire \/ PumpStep \/ TaskReturn \/ PumpAgain)
        BY <3>2 DEF TickFire, PumpStep, TaskReturn, PumpAgain
      <3> QED BY <3>1, <3>3, <3>4, <3>5, <3>6 DEF Next, LoopStep
    <2>4. ~ HasWork(pump) /\ ~ PumpsAgain(pump) /\ pc = "pump"
      BY <2>3 DEF RunOnceReturn, Exits, PumpEnds
    <2>5. pump.steps \in Nat /\ pump.only \in BOOLEAN /\ nWatchers \in Nat
      BY <2>1, Sizes DEF CoreType, WatchInv
    <2>6. pump.steps = 0
      BY <2>4, <2>5 DEF HasWork, PumpsAgain
    <2>7. nWatchers = 0 /\ timers = {}
      BY <2>1, <2>4, <2>5, <2>6 DEF HasWork, WorkLeft, PhaseInv
    <2> QED BY <2>3, <2>6, <2>7, LastPumpIdle
  <1>4. IInv /\ [Next]_vars => [Drain]_vars
    <2> SUFFICES ASSUME IInv, RunOnceReturn, ~ pump.only PROVE queue = << >>
      OBVIOUS
    <2>1. ~ PumpsAgain(pump) /\ pump.steps \in Nat
      BY Sizes DEF RunOnceReturn, IInv, CoreType
    <2>2. pump.steps = 0
      BY <2>1 DEF PumpsAgain
    <2> QED BY <2>2, LastPumpIdle
  <1>5. Spec => [][Exit]_vars /\ [][Drain]_vars
    BY <1>1, <1>2, <1>3, <1>4, PTL DEF Spec
  <1> QED BY <1>5 DEF NothingLeftBehind, ExitMeansIdle, TickedIterationDrains
=============================================================================
