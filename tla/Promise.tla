------------------------------- MODULE Promise ------------------------------
(***************************************************************************)
(* libs/m2futures/src/Promise.mod: promises and futures over two fixed     *)
(* pools, reference counted, with continuations that run as microtasks.    *)
(*                                                                         *)
(* A future is an index into the pool of shared states; Promise and Future *)
(* handles alias it and share one reference.  The scheduler is the bounded *)
(* queue TaskFifo (Scheduler implements it); here it only holds            *)
(* continuations.  ExecuteCont is cut in two where it calls the user's     *)
(* procedure, which may itself call any operation of the module.  Refused  *)
(* calls (a NIL handle, an empty pool, a settled promise) return a status  *)
(* and change nothing; they are not steps.                                 *)
(***************************************************************************)
EXTENDS Naturals, FiniteSets, Sequences, SequencesExt, FiniteSetsExt

CONSTANTS
  Slots,         \* length of shPool (POOL_SH)
  Conts,         \* length of cnPool (POOL_CN)
  Limits,        \* capacities of the scheduler's queue
  MaxAllSize     \* bound on the futures a client joins (MAX_ALL_SIZE)

ASSUME PoolsAssumption == Slots \in Nat \ {0} /\ Conts \in Nat \ {0}
ASSUME LimitsAssumption == Limits \subseteq Nat \ {0} /\ MaxAllSize \in Nat \ {0}

Slot == 1 .. Slots
Cont == 1 .. Conts

VARIABLES
  heap,      \* the two pools with their free lists, and the scheduler's queue
  limit,     \* capacity of the scheduler's queue
  held,      \* the handle a client has on each slot: none, a promise, a future
  frame,     \* the continuation whose user procedure is running
  early,     \* history: the slots a client released while continuations still read them
  crashed    \* the pools are lost: an undefined access, or a slot freed twice

vars == <<heap, limit, held, frame, early, crashed>>

Fate == {"Pending", "Fulfilled", "Rejected"}
Result == {"ok", "err"}      \* a Result by its isOk field; InitResult makes it "err"
IsOk(r) == r = "ok"
Kind == {"Then", "Catch", "Finally", "All", "Race"}

NoComb == [kind |-> "None"]
NoCont == [kind |-> "Free"]
NoFrame == [cont |-> 0]

\* Combiner states: the AllStateRec and the RaceStateRec.
AllState(n) == [kind |-> "All", total |-> n, done |-> 0, failed |-> FALSE,
                results |-> [i \in 1 .. n |-> "unset"]]
\* first is history: the first result that was delivered to the race.
RaceState == [kind |-> "Race", settled |-> FALSE, first |-> "unset"]

Shared(fate, res, ref) == [fate |-> fate, res |-> res, conts |-> << >>, ref |-> ref, comb |-> NoComb]

\* InitPools: every slot free, the last one on top of the free list.
Init ==
  /\ heap = [sh |-> [s \in Slot |-> Shared("Pending", "err", 0)],
             shFree |-> [i \in Slot |-> i],
             cn |-> [c \in Cont |-> NoCont],
             cnFree |-> [i \in Cont |-> i],
             queue |-> << >>]
  /\ limit \in Limits
  /\ held = [s \in Slot |-> "none"]
  /\ frame = NoFrame
  /\ early = {} /\ crashed = FALSE

-----------------------------------------------------------------------------
(* The internal procedures, as functions from a heap to a heap.            *)

\* AllocShared followed by the initialisation of PromiseCreate.
NewShared(h) == Last(h.shFree)
AllocShared(h) ==
  [h EXCEPT !.shFree = Front(@), !.sh[NewShared(h)] = Shared("Pending", "err", 1)]

FreeShared(h, s) ==
  [h EXCEPT !.sh[s] = Shared("Pending", @.res, 0), !.shFree = Append(@, s)]

FreeCont(h, c) == [h EXCEPT !.cn[c] = NoCont, !.cnFree = Append(@, c)]

\* A slot can be reclaimed when nobody refers to it and no continuation is linked.
LinklessOnly(sh) == sh.conts = << >>
Reclaimable(sh) == sh.ref = 0 /\ sh.conts = << >>

TryReclaim(h, s) == IF Reclaimable(h.sh[s]) THEN FreeShared(h, s) ELSE h

Release(h, s) ==
  IF h.sh[s].ref = 0 THEN h ELSE TryReclaim([h EXCEPT !.sh[s].ref = @ - 1], s)

\* How many continuations of s the queue still takes.
Drained(h, s) == Min({Len(h.sh[s].conts), limit - Len(h.queue)})

\* Enqueue the continuations in order; those the queue refuses stay linked.
DropsRefused(h, s) ==
  [h EXCEPT !.queue = @ \o SubSeq(h.sh[s].conts, 1, Drained(h, s)), !.sh[s].conts = << >>]
DrainConts(h, s) ==
  LET k == Drained(h, s) IN
  [h EXCEPT !.queue = @ \o SubSeq(h.sh[s].conts, 1, k),
            !.sh[s].conts = SubSeq(@, k + 1, Len(@))]

SettlesAnyFate(fate) == TRUE
Settles(fate) == fate = "Pending"

FateOf(r) == IF IsOk(r) THEN "Fulfilled" ELSE "Rejected"

SettleWith(h, s, r) ==
  IF ~ Settles(h.sh[s].fate) THEN h
  ELSE DrainConts([h EXCEPT !.sh[s].fate = FateOf(r), !.sh[s].res = r], s)

\* One input of All or Race has settled with r; c borrows the state of its output.
OneMissing(st) == st.done + 1 >= st.total
AllDone(st) == st.done >= st.total

HandleAll(h, c, r) ==
  LET out == h.cn[c].out
      st  == h.sh[out].comb
      st1 == [st EXCEPT !.results[h.cn[c].idx] = r, !.done = @ + 1] IN
  IF st.failed THEN h
  ELSE IF ~ IsOk(r) THEN SettleWith([h EXCEPT !.sh[out].comb.failed = TRUE], out, r)
  ELSE IF AllDone(st1) THEN SettleWith([h EXCEPT !.sh[out].comb = st1], out, "ok")
  ELSE [h EXCEPT !.sh[out].comb = st1]

HandleRace(h, c, r) ==
  LET out == h.cn[c].out
      st  == h.sh[out].comb
      st1 == [st EXCEPT !.settled = TRUE, !.first = IF @ = "unset" THEN r ELSE @] IN
  IF st.settled THEN h ELSE SettleWith([h EXCEPT !.sh[out].comb = st1], out, r)

\* The tail of ExecuteCont: the continuation goes, then its reference to the
\* output, then the input is tried.
EndCont(h, c, in, out) == TryReclaim(Release(FreeCont(h, c), out), in)

\* A continuation of the given kind from in to out, linked or enqueued.
NotRetained(ref) == ref
Retained(ref) == ref + 1
CanAttach(h, in) == h.sh[in].fate = "Pending" \/ Len(h.queue) < limit
AppendCont(h, in, c) == [h EXCEPT !.sh[in].conts = Append(@, c)]
Attach(h, c, kind, in, out, idx) ==
  LET h1 == [h EXCEPT !.cn[c] = [kind |-> kind, in |-> in, out |-> out, idx |-> idx],
                      !.sh[out].ref = Retained(@)] IN
  IF h.sh[in].fate = "Pending" THEN AppendCont(h1, in, c)
  ELSE [h1 EXCEPT !.queue = Append(@, c)]

\* The n continuations All and Race take from the pool, first allocated first.
Taken(h, n) == [i \in 1 .. n |-> h.cnFree[Len(h.cnFree) + 1 - i]]

\* Continuations that were taken and not used go back in turn.
FreeConts(h, cs) ==
  [h EXCEPT !.cn = [c \in Cont |-> IF c \in Range(cs) THEN NoCont ELSE @[c]], !.cnFree = @ \o cs]

\* Attach the continuations cs to the futures fs in turn.  When the queue
\* refuses one, it and the later ones go back and so does the creation reference.
AttachNext(acc, kind, cs, fs, out, i) ==
  IF ~ acc.ok THEN acc
  ELSE IF CanAttach(acc.h, fs[i]) THEN [ok |-> TRUE, h |-> Attach(acc.h, cs[i], kind, fs[i], out, i)]
  ELSE [ok |-> FALSE, h |-> Release(FreeConts(acc.h, SubSeq(cs, i, Len(cs))), out)]

AttachAll(h, kind, cs, fs, out) ==
  LET att[i \in 0 .. Len(fs)] ==
        IF i = 0 THEN [ok |-> TRUE, h |-> h] ELSE AttachNext(att[i - 1], kind, cs, fs, out, i)
  IN att[Len(fs)]
-----------------------------------------------------------------------------
(* The operations of the module.                                           *)

Handle(s) == held[s] # "none"

\* A live continuation reads its input when it runs.
Live(c) == heap.cn[c] # NoCont
HasReader(s) == \E c \in Cont : Live(c) /\ heap.cn[c].in = s

\* A continuation that ends frees a slot twice, or leaves its input to those
\* that still read it.
Ended ==
  /\ crashed' = ~ IsInjective(heap'.shFree)
  /\ early' = IF crashed' THEN early ELSE {s \in early : HasReader(s)'}

PromiseCreate ==
  /\ ~ crashed /\ heap.shFree # << >>
  /\ heap' = AllocShared(heap)
  /\ held' = [held EXCEPT ![NewShared(heap)] = "promise"]
  /\ UNCHANGED <<limit, frame, early, crashed>>

\* PromiseRelease and FutureRelease are one operation.
PromiseRelease(s) ==
  /\ ~ crashed /\ Handle(s)
  /\ heap' = Release(heap, s)
  /\ held' = [held EXCEPT ![s] = "none"]
  /\ early' = IF HasReader(s) THEN early \cup {s} ELSE early
  /\ UNCHANGED <<limit, frame, crashed>>

\* Resolve and Reject.
Settle(s, r) ==
  /\ ~ crashed /\ held[s] = "promise"
  /\ Settles(heap.sh[s].fate)
  /\ heap' = SettleWith(heap, s, r)
  /\ UNCHANGED <<limit, held, frame, early, crashed>>

Resolve(s) == Settle(s, "ok")
Reject(s) == Settle(s, "err")

\* Map, OnReject and OnSettle differ in the kind of continuation only.
Chain(kind, s) ==
  /\ ~ crashed /\ Handle(s) /\ heap.shFree # << >>
  /\ LET out == NewShared(heap)
         h   == AllocShared(heap) IN
     IF h.cnFree # << >> /\ CanAttach(h, s)
     THEN /\ heap' = Attach([h EXCEPT !.cnFree = Front(@)], Last(h.cnFree), kind, s, out, 1)
          /\ held' = [held EXCEPT ![out] = "future"]
     ELSE /\ heap' = Release(h, out)
          /\ UNCHANGED held
  /\ UNCHANGED <<limit, frame, early, crashed>>

Map(s) == Chain("Then", s)
OnReject(s) == Chain("Catch", s)
OnSettle(s) == Chain("Finally", s)

\* All and Race.  With no continuation left at all their cleanup loop runs from
\* 0 to the CARDINAL 0 - 1, over an array of pointers that were never set.
Combine(kind, comb, fs) ==
  /\ ~ crashed /\ heap.shFree # << >>
  /\ \A i \in DOMAIN fs : Handle(fs[i])
  /\ LET out == NewShared(heap)
         h   == [AllocShared(heap) EXCEPT !.sh[out].comb = comb]
         n   == Len(fs)
         att == AttachAll([h EXCEPT !.cnFree = SubSeq(@, 1, Len(@) - n)], kind, Taken(h, n), fs, out) IN
     \/ /\ Len(h.cnFree) >= n
        /\ heap' = att.h
        /\ held' = [held EXCEPT ![out] = IF att.ok THEN "future" ELSE @]
        /\ UNCHANGED crashed
     \/ /\ Len(h.cnFree) \in 1 .. n - 1
        /\ heap' = Release([h EXCEPT !.cnFree = Reverse(@), !.sh[out].comb = NoComb], out)
        /\ UNCHANGED <<held, crashed>>
     \/ /\ h.cnFree = << >>
        /\ crashed' = TRUE
        /\ UNCHANGED <<heap, held>>
     \/ /\ heap' = Release(AllocShared(heap), out)     \* NEW gave NIL
        /\ UNCHANGED <<held, crashed>>
  /\ UNCHANGED <<limit, frame, early>>

All(fs) == Combine("All", AllState(Len(fs)), fs)
Race(fs) == Combine("Race", RaceState, fs)

\* Does running c call a procedure of the user?
CallsUser(c, r) ==
  \/ heap.cn[c].kind \in {"Then", "Finally"}
  \/ heap.cn[c].kind = "Catch" /\ ~ IsOk(r)

\* The pump takes a continuation and ExecuteCont runs, up to the user's procedure.
ExecuteCont ==
  /\ ~ crashed /\ frame = NoFrame /\ heap.queue # << >>
  /\ LET c   == Head(heap.queue)
         k   == heap.cn[c]
         r   == heap.sh[k.in].res
         h   == [heap EXCEPT !.queue = Tail(@)] IN
     IF CallsUser(c, r)
     THEN /\ heap' = h /\ frame' = [cont |-> c, in |-> k.in, out |-> k.out, res |-> r]
          /\ UNCHANGED <<early, crashed>>
     ELSE /\ heap' = EndCont(CASE k.kind = "Catch" -> SettleWith(h, k.out, r)
                               [] k.kind = "All" -> HandleAll(h, c, r)
                               [] k.kind = "Race" -> HandleRace(h, c, r), c, k.in, k.out)
          /\ Ended
          /\ UNCHANGED frame
  /\ UNCHANGED <<limit, held>>

\* The user's procedure returns, with r in outRes (a rejection if it set nothing),
\* and ExecuteCont completes.  A Finally passes its input on whatever the user did.
UserReturn(r) ==
  /\ ~ crashed /\ frame # NoFrame
  /\ LET passed == IF heap.cn[frame.cont].kind = "Finally" THEN frame.res ELSE r IN
     heap' = EndCont(SettleWith(heap, frame.out, passed), frame.cont, frame.in, frame.out)
  /\ frame' = NoFrame
  /\ Ended
  /\ UNCHANGED <<limit, held>>

Next ==
  \/ PromiseCreate
  \/ \E s \in Slot : PromiseRelease(s) \/ Resolve(s) \/ Reject(s)
  \/ \E s \in Slot : Map(s) \/ OnReject(s) \/ OnSettle(s)
  \/ \E n \in 1 .. MaxAllSize : \E fs \in [1 .. n -> Slot] : All(fs) \/ Race(fs)
  \/ ExecuteCont
  \/ \E r \in Result : UserReturn(r)

Spec == Init /\ [][Next]_vars
-----------------------------------------------------------------------------
IsComb(st) ==
  CASE st.kind = "None" -> TRUE
    [] st.kind = "All" -> st.total \in 1 .. MaxAllSize /\ st.done \in 0 .. st.total /\ st.failed \in BOOLEAN
                          /\ st.results \in [1 .. st.total -> Result \cup {"unset"}]
    [] st.kind = "Race" -> st.settled \in BOOLEAN /\ st.first \in Result \cup {"unset"}

IsSeqOf(s, S) == DOMAIN s = 1 .. Len(s) /\ Range(s) \subseteq S

\* The type invariant: the fields of the two pools stay in their ranges, the
\* reference counts bounded and the queue within its capacity.
TypeOK ==
  /\ \A s \in Slot :
       LET sh == heap.sh[s] IN
       /\ sh.fate \in Fate /\ sh.res \in Result /\ sh.ref \in 0 .. Conts + 1
       /\ IsSeqOf(sh.conts, Cont) /\ IsComb(sh.comb)
  /\ IsSeqOf(heap.shFree, Slot)
  /\ \A c \in Cont : Live(c) =>
       heap.cn[c].kind \in Kind /\ heap.cn[c].in \in Slot /\ heap.cn[c].out \in Slot /\ heap.cn[c].idx \in 1 .. MaxAllSize
  /\ IsSeqOf(heap.cnFree, Cont) /\ IsSeqOf(heap.queue, Cont) /\ Len(heap.queue) <= limit
  /\ limit \in Limits /\ held \in [Slot -> {"none", "promise", "future"}]
  /\ frame # NoFrame =>
       frame.cont \in Cont /\ frame.in \in Slot /\ frame.out \in Slot /\ frame.res \in Result
  /\ early \subseteq Slot /\ crashed \in BOOLEAN

\* refCount counts the handle and the continuations that settle the slot, no
\* more and no less (Promise.mod:6).
RefExact ==
  \A s \in Slot :
    heap.sh[s].ref = Cardinality({c \in Cont : Live(c) /\ heap.cn[c].out = s})
                     + (IF Handle(s) THEN 1 ELSE 0)

\* No slot in the pool is held by a client or settled by a continuation, and
\* none is in the pool twice or still read by a continuation, with the exception
\* of the slots that a client released under their readers.  The exception is
\* the code's: Promise.def says "The underlying state is freed when all
\* references (external handles + continuations) are released", but only the
\* output of a continuation is retained (Promise.mod:6), so FutureRelease before
\* the end of a continuation frees its input under it, and the continuation then
\* reads a slot that may be another's and frees it again when it ends.
NoDangling ==
  LET free == heap.shFree IN
  /\ \A i, j \in DOMAIN free : free[i] = free[j] => i = j \/ free[i] \in early
  /\ \A s \in Range(free) :
       /\ ~ Handle(s)
       /\ \A c \in Cont : Live(c) => heap.cn[c].out # s /\ (heap.cn[c].in = s => s \in early)

\* A slot nobody refers to is back in the pool: nothing leaks, whichever of
\* the construction steps of Map, All and Race failed.
NoLeak ==
  /\ \A s \in Slot : heap.sh[s].ref = 0 /\ heap.sh[s].conts = << >> => s \in Range(heap.shFree)
  /\ \A c \in Cont : Live(c) <=> c \notin Range(heap.cnFree)

\* Every live continuation waits in exactly one place: linked to its input,
\* in the queue or in the call in progress.
OnePlace ==
  \A c \in Cont : Live(c) =>
    Cardinality({i \in DOMAIN heap.queue : heap.queue[i] = c})
    + Cardinality({i \in DOMAIN heap.sh[heap.cn[c].in].conts : heap.sh[heap.cn[c].in].conts[i] = c})
    + (IF frame.cont = c THEN 1 ELSE 0) = 1

\* A settled future keeps its fate and its result until its slot is reclaimed,
\* also while a continuation that was given that result is running.
SettledOnce ==
  [][\A s \in Slot :
       heap.sh[s].fate # "Pending" /\ s \notin Range(heap'.shFree) =>
         heap'.sh[s].fate = heap.sh[s].fate /\ heap'.sh[s].res = heap.sh[s].res]_vars

\* All fulfils only with every result in place and rejects only with the
\* failure of an input.  Race is settled exactly when an input was delivered,
\* with the fate and the result of the first one delivered and of no later one.
CombinersSound ==
  \A s \in Slot :
    LET sh == heap.sh[s] IN
    /\ sh.comb.kind = "All" /\ sh.fate = "Fulfilled" =>
         \A i \in DOMAIN sh.comb.results : IsOk(sh.comb.results[i])
    /\ sh.comb.kind = "All" /\ sh.fate = "Rejected" => sh.comb.failed /\ ~ IsOk(sh.res)
    /\ sh.comb.kind = "Race" =>
         /\ sh.fate # "Pending" <=> sh.comb.first # "unset"
         /\ sh.fate # "Pending" => sh.res = sh.comb.first /\ sh.fate = FateOf(sh.comb.first)

\* When the queue has room for every continuation, one whose input is settled
\* is queued or running: nothing attached is forgotten, whichever of settling
\* and attaching came first.  (Scheduler!QueuedTasksRun then runs it.)
DueIsQueued ==
  \A c \in Cont :
    limit >= Conts /\ Live(c) /\ heap.sh[heap.cn[c].in].fate # "Pending" =>
      c \in Range(heap.queue) \/ frame.cont = c

\* All and Race clean up when they cannot allocate their continuations:
\* Promise.def, "If pre-allocation fails, full cleanup occurs and the caller
\* receives OutOfMemory with out = NIL": the pools are lost to nothing but a
\* slot freed twice.
CleansUp == crashed => ~ IsInjective(heap.shFree)

\* No continuation is lost or runs twice, whatever order settling, attaching
\* and a full queue come in: each is in one place, and when its input is
\* settled and the queue is large enough that place is not the link.
ContInv == TypeOK /\ OnePlace /\ DueIsQueued

\* The reference counts are exact and a slot or continuation nobody refers to
\* is back in its pool, also after each way Map, All and Race can fail.
RefInv == RefExact /\ NoLeak
=============================================================================
