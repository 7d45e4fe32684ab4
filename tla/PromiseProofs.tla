---------------------------- MODULE PromiseProofs ---------------------------
(***************************************************************************)
(* Proofs about Promise, for every size of the two pools, capacity of the  *)
(* scheduler's queue and number of futures joined, and for every client,   *)
(* those that release a future under its continuations included.  The      *)
(* lemmas about the procedures an operation is made of are PromiseHeap's.  *)
(***************************************************************************)
EXTENDS PromiseHeap

\* Handles, by slot.
Handles == [s \in Slot |-> IF held[s] = "none" THEN 0 ELSE 1]

\* What the variables add: a promise belongs to no combiner, and the frame is
\* that of a live continuation that calls the user.
FrameOK ==
  frame = NoFrame \/
    /\ frame \in [cont : Cont, in : Slot, out : Slot, res : Result]
    /\ frame.cont \in LiveIn(heap)
    /\ heap.cn[frame.cont].in = frame.in /\ heap.cn[frame.cont].out = frame.out
    /\ heap.cn[frame.cont].kind \in {"Then", "Catch", "Finally"}
StateInv ==
  /\ limit \in Limits /\ held \in [Slot -> {"none", "promise", "future"}] /\ crashed \in BOOLEAN
  /\ \A s \in Slot : held[s] = "promise" => heap.sh[s].comb.kind = "None"
  /\ FrameOK

\* A slot that is in the pool twice was released early, and then the model stops.
FreedOK ==
  /\ ~ crashed => IsInjective(heap.shFree)
  /\ \A i, j \in DOMAIN heap.shFree :
       heap.shFree[i] = heap.shFree[j] => i = j \/ heap.shFree[i] \in early

\* CoreInv but for the free slots being there once.
CoreRest(h, ext, run) ==
  /\ h \in Heap /\ RefsOK(h, ext) /\ ContsOK(h, {}) /\ PlacesOK(h, run)
  /\ \A s \in Slot : s \in Range(h.shFree) <=> Reclaimable(h.sh[s])
  /\ \A s \in Slot : s \in Range(h.shFree) => h.sh[s].fate = "Pending"

ReadersOK == InputsHeld(heap) /\ early \subseteq Slot

IInv ==
  CoreRest(heap, Handles, frame.cont) /\ CombInv(heap, 0) /\ StateInv /\ ReadersOK /\ FreedOK

\* The states an operation starts from.
Sound == IInv /\ ~ crashed
-----------------------------------------------------------------------------
(* The operations.                                                         *)

\* The invariant of the new state, from what the procedures leave.
LEMMA FinishRest ==
  ASSUME NEW g, NEW ext, NEW run, limit' = limit, heap' = g, Handles' = ext, frame'.cont = run,
         CoreRest(g, ext, run), CombInv(g, 0), StateInv', ReadersOK', FreedOK'
  PROVE  IInv'
  <1>1. /\ g \in Heap /\ RefsOK(g, ext) /\ ContsOK(g, {})
        /\ QueueOK(g, run) /\ PlacedOK(g, run) /\ \A x \in Slot : LinkOK(g, run, x)
    BY DEF CoreRest, PlacesOK
  <1>2. (QueueOK(heap, frame.cont))'
    BY <1>1 DEF QueueOK
  <1>3. (\A x \in Slot : LinkOK(heap, frame.cont, x))'
    BY <1>1 DEF LinkOK
  <1>4. (RefsOK(heap, Handles) /\ ContsOK(heap, {}) /\ PlacedOK(heap, frame.cont))'
    BY <1>1
  <1>5. (heap \in Heap)' /\ CombInv(heap, 0)'
    BY <1>1
  <1>6. /\ \A s \in Slot : s \in Range(heap'.shFree) <=> Reclaimable(heap'.sh[s])
        /\ \A s \in Slot : s \in Range(heap'.shFree) => heap'.sh[s].fate = "Pending"
    BY DEF CoreRest
  <1> QED BY <1>2, <1>3, <1>4, <1>5, <1>6 DEF IInv, CoreRest, PlacesOK

\* With the free slots there once it is CoreInv.
LEMMA Finish ==
  ASSUME NEW g, NEW ext, NEW run, limit' = limit, heap' = g, Handles' = ext, frame'.cont = run,
         CoreInv(g, ext, {}, run), CombInv(g, 0), StateInv', ReadersOK'
  PROVE  IInv'
  <1>1. CoreRest(g, ext, run) /\ IsInjective(g.shFree)
    BY DEF CoreInv, CoreRest, SlotsOK
  <1>2. FreedOK'
    BY <1>1 DEF FreedOK, IsInjective
  <1> QED BY <1>1, <1>2, FinishRest

\* What the invariant gives of any state.
LEMMA Always ==
  ASSUME IInv
  PROVE  /\ CoreRest(heap, Handles, frame.cont) /\ CombInv(heap, 0) /\ limit \in Nat
         /\ Handles \in [Slot -> Nat] /\ \A s \in Slot : Handle(s) <=> Handles[s] = 1
         /\ \A s \in Slot : ~ Handle(s) <=> Handles[s] = 0
         /\ heap \in Heap /\ RefsOK(heap, Handles) /\ InputsHeld(heap) /\ early \subseteq Slot
         /\ limit \in Limits /\ held \in [Slot -> {"none", "promise", "future"}] /\ crashed \in BOOLEAN
         /\ \A s \in Slot : held[s] = "promise" => heap.sh[s].comb.kind = "None"
         /\ frame = NoFrame => frame.cont = 0
  <1>1. /\ CoreRest(heap, Handles, frame.cont) /\ CombInv(heap, 0) /\ InputsHeld(heap) /\ early \subseteq Slot
        /\ limit \in Limits /\ held \in [Slot -> {"none", "promise", "future"}] /\ crashed \in BOOLEAN
        /\ \A s \in Slot : held[s] = "promise" => heap.sh[s].comb.kind = "None"
    BY DEF IInv, StateInv, ReadersOK
  <1>2. /\ Handles \in [Slot -> Nat] /\ \A s \in Slot : Handle(s) <=> Handles[s] = 1
        /\ \A s \in Slot : ~ Handle(s) <=> Handles[s] = 0
    BY <1>1 DEF Handles, Handle
  <1>3. limit \in Nat
    BY <1>1, Pools
  <1>4. heap \in Heap /\ RefsOK(heap, Handles)
    BY <1>1 DEF CoreRest
  <1>5. frame = NoFrame => frame.cont = 0
    BY DEF NoFrame
  <1> QED BY <1>1, <1>2, <1>3, <1>4, <1>5

\* What it gives an operation to start from.
LEMMA Start ==
  ASSUME Sound
  PROVE  /\ CoreInv(heap, Handles, {}, frame.cont) /\ CombInv(heap, 0) /\ limit \in Nat
         /\ Handles \in [Slot -> Nat] /\ \A s \in Slot : Handle(s) <=> Handles[s] = 1
         /\ \A s \in Slot : ~ Handle(s) <=> Handles[s] = 0
         /\ heap \in Heap /\ RefsOK(heap, Handles) /\ InputsHeld(heap) /\ early \subseteq Slot
         /\ limit \in Limits /\ held \in [Slot -> {"none", "promise", "future"}] /\ crashed \in BOOLEAN
         /\ \A s \in Slot : held[s] = "promise" => heap.sh[s].comb.kind = "None"
         /\ frame = NoFrame => frame.cont = 0
  <1>1. IInv /\ IsInjective(heap.shFree)
    BY DEF Sound, IInv, FreedOK
  <1>2. CoreInv(heap, Handles, {}, frame.cont)
    BY <1>1, Always DEF CoreRest, CoreInv, SlotsOK
  <1> QED BY <1>1, <1>2, Always

\* The readers of a slot that a client holds, or released early, stay such.
LEMMA Readers ==
  ASSUME Sound, NEW g, heap' = g, g \in Heap, InputsHeld(g), early' = early,
         \A x \in Slot : held[x] # "none" => held'[x] # "none"
  PROVE  ReadersOK'
  <1>1. \A c \in LiveIn(g) : g.cn[c].in \in Slot
    BY HeapFields
  <1> QED BY <1>1, Start DEF ReadersOK, InputsHeld, Handle, LiveIn

\* So they do when the continuations are the same.
LEMMA SameReaders ==
  ASSUME Sound, NEW g, heap' = g, g \in Heap, g.cn = heap.cn, early' = early,
         \A x \in Slot : held[x] # "none" => held'[x] # "none"
  PROVE  ReadersOK'
  <1>1. InputsHeld(g)
    BY Start DEF InputsHeld, LiveIn
  <1> QED BY <1>1, Readers

\* The frame is as good as before when what was live stays.
LEMMA FrameStays ==
  ASSUME IInv, frame' = frame, Stays(heap, heap')
  PROVE  FrameOK'
  <1>1. CASE frame = NoFrame
    BY <1>1 DEF FrameOK
  <1>2. CASE frame # NoFrame
    <2>1. /\ frame \in [cont : Cont, in : Slot, out : Slot, res : Result]
          /\ frame.cont \in LiveIn(heap)
          /\ heap.cn[frame.cont].in = frame.in /\ heap.cn[frame.cont].out = frame.out
          /\ heap.cn[frame.cont].kind \in {"Then", "Catch", "Finally"}
      BY <1>2 DEF IInv, StateInv, FrameOK
    <2>2. frame.cont \in LiveIn(heap') /\ heap'.cn[frame.cont] = heap.cn[frame.cont]
      BY <2>1 DEF Stays
    <2> QED BY <2>1, <2>2 DEF FrameOK
  <1> QED BY <1>1, <1>2

\* Handles by slot, when one comes or goes.
LEMMA Counts ==
  ASSUME NEW e \in [Slot -> Nat], NEW f \in [Slot -> Nat], NEW s \in Slot,
         \A x \in Slot \ {s} : f[x] = e[x]
  PROVE  /\ e[s] = 0 /\ f[s] = 1 => f = More(e, s)
         /\ e[s] = 1 /\ f[s] = 0 => f = Less(e, s)
  <1>1. ASSUME e[s] = 0, f[s] = 1 PROVE f = More(e, s)
    <2>1. PICK m : m = More(e, s)
      OBVIOUS
    <2>2. m \in [Slot -> Nat] /\ \A x \in Slot : m[x] = f[x]
      BY <1>1, <2>1 DEF More
    <2>3. m = f
      BY <2>2
    <2> QED BY <2>1, <2>3
  <1>2. ASSUME e[s] = 1, f[s] = 0 PROVE f = Less(e, s)
    <2>1. PICK m : m = Less(e, s)
      OBVIOUS
    <2>2. m \in [Slot -> Nat] /\ \A x \in Slot : m[x] = f[x]
      BY <1>2, <2>1 DEF Less
    <2>3. m = f
      BY <2>2
    <2> QED BY <2>1, <2>3
  <1> QED BY <1>1, <1>2

\* A client gets a handle.
LEMMA HandleComes ==
  ASSUME held \in [Slot -> {"none", "promise", "future"}], NEW s \in Slot, held[s] = "none",
         NEW v \in {"promise", "future"}, held' = [held EXCEPT ![s] = v]
  PROVE  Handles' = More(Handles, s) /\ held' \in [Slot -> {"none", "promise", "future"}]
  <1>1. /\ held' \in [Slot -> {"none", "promise", "future"}]
        /\ held'[s] = v /\ \A x \in Slot \ {s} : held'[x] = held[x]
    OBVIOUS
  <1>2. PICK e : e = Handles
    OBVIOUS
  <1>3. e \in [Slot -> Nat] /\ e[s] = 0
    BY <1>2 DEF Handles
  <1>4. PICK f : f = Handles'
    OBVIOUS
  <1>5. f \in [Slot -> Nat] /\ f[s] = 1 /\ \A x \in Slot \ {s} : f[x] = e[x]
    BY <1>1, <1>2, <1>4 DEF Handles
  <1>6. f = More(e, s)
    BY <1>3, <1>5, Counts
  <1> QED BY <1>1, <1>2, <1>4, <1>6

\* A client gives its handle up.
LEMMA HandleGoes ==
  ASSUME held \in [Slot -> {"none", "promise", "future"}], NEW s \in Slot, held[s] # "none",
         held' = [held EXCEPT ![s] = "none"]
  PROVE  Handles' = Less(Handles, s) /\ held' \in [Slot -> {"none", "promise", "future"}]
  <1>1. /\ held' \in [Slot -> {"none", "promise", "future"}]
        /\ held'[s] = "none" /\ \A x \in Slot \ {s} : held'[x] = held[x]
    OBVIOUS
  <1>2. PICK e : e = Handles
    OBVIOUS
  <1>3. e \in [Slot -> Nat] /\ e[s] = 1
    BY <1>2 DEF Handles
  <1>4. PICK f : f = Handles'
    OBVIOUS
  <1>5. f \in [Slot -> Nat] /\ f[s] = 0 /\ \A x \in Slot \ {s} : f[x] = e[x]
    BY <1>1, <1>2, <1>4 DEF Handles
  <1>6. f = Less(e, s)
    BY <1>3, <1>5, Counts
  <1> QED BY <1>1, <1>2, <1>4, <1>6

\* PromiseCreate: a slot of the pool with one handle.
LEMMA CreateStep ==
  ASSUME Sound, PromiseCreate
  PROVE  IInv' /\ KeepsFates(heap, heap')
  <1>1. PICK g : g = AllocShared(heap)
    OBVIOUS
  <1>2. PICK s : s = NewShared(heap)
    OBVIOUS
  <1>3. /\ heap.shFree # << >> /\ heap' = g /\ held' = [held EXCEPT ![s] = "promise"]
        /\ limit' = limit /\ frame' = frame /\ early' = early /\ crashed' = crashed
    BY <1>1, <1>2 DEF PromiseCreate
  <1>4. /\ s \in Slot /\ Handles[s] = 0
        /\ CoreInv(g, More(Handles, s), {}, frame.cont) /\ KeepsFates(heap, g)
        /\ g.cn = heap.cn /\ g.sh[s].comb = NoComb
        /\ \A x \in Slot \ {s} : g.sh[x] = heap.sh[x]
        /\ CombInv(g, 0)
    BY <1>1, <1>2, <1>3, Start, AllocCore
  <1>5. held[s] = "none" /\ held \in [Slot -> {"none", "promise", "future"}]
    BY <1>4, Start DEF Handle
  <1>6. Handles' = More(Handles, s) /\ held' \in [Slot -> {"none", "promise", "future"}]
    BY <1>3, <1>4, <1>5, HandleComes
  <1>7. \A x \in Slot : held'[x] = "promise" => g.sh[x].comb.kind = "None"
    BY <1>3, <1>4, <1>5, Start, NoCombOK
  <1>8. Stays(heap, heap')
    BY <1>3, <1>4 DEF Stays, LiveIn
  <1>9. FrameOK'
    BY <1>3, <1>8, FrameStays DEF Sound
  <1>10. StateInv'
    BY <1>3, <1>6, <1>7, <1>9, Start DEF StateInv
  <1>11. ReadersOK'
    <2>1. g \in Heap /\ \A x \in Slot : held[x] # "none" => held'[x] # "none"
      BY <1>3, <1>4, <1>5 DEF CoreInv
    <2> QED BY <1>3, <1>4, <2>1, SameReaders
  <1>12. IInv'
    BY <1>3, <1>4, <1>6, <1>10, <1>11, Finish
  <1> QED BY <1>3, <1>4, <1>12

\* PromiseRelease: a slot that continuations read is released early.
LEMMA ReleaseStep ==
  ASSUME Sound, NEW s \in Slot, PromiseRelease(s)
  PROVE  IInv' /\ KeepsFates(heap, heap')
  <1>1. PICK g : g = Release(heap, s)
    OBVIOUS
  <1>2. /\ Handle(s) /\ heap' = g /\ held' = [held EXCEPT ![s] = "none"]
        /\ early' = IF HasReader(s) THEN early \cup {s} ELSE early
        /\ limit' = limit /\ frame' = frame /\ crashed' = crashed
    BY <1>1 DEF PromiseRelease
  <1>3. PICK e : e = Handles
    OBVIOUS
  <1>4. e \in [Slot -> Nat] /\ e[s] > 0 /\ CoreInv(heap, e, {}, frame.cont)
    BY <1>2, <1>3, Start
  <1>6. Released(heap, g, Less(e, s), {}, frame.cont)
    BY <1>1, <1>4, ReleaseCore
  <1>7. /\ CoreInv(g, Less(e, s), {}, frame.cont) /\ KeepsFates(heap, g) /\ CombInv(g, 0) /\ g.cn = heap.cn
        /\ \A x \in Slot : g.sh[x].comb = heap.sh[x].comb \/ g.sh[x].comb = NoComb
    BY <1>6, Start DEF Released, Keeps
  <1>8. Handles' = Less(e, s) /\ held' \in [Slot -> {"none", "promise", "future"}]
    BY <1>2, <1>3, Start, HandleGoes DEF Handle
  <1>9. \A x \in Slot : held'[x] = "promise" => g.sh[x].comb.kind = "None"
    BY <1>2, <1>7, Start, NoCombOK
  <1>10. Stays(heap, heap')
    BY <1>2, <1>7 DEF Stays, LiveIn
  <1>11. FrameOK'
    BY <1>2, <1>10, FrameStays DEF Sound
  <1>12. StateInv'
    BY <1>2, <1>8, <1>9, <1>11, Start DEF StateInv
  <1>13. ReadersOK'
    <2>1. \A c \in LiveIn(heap) : c \in Cont /\ heap.cn[c].in \in Slot
      BY Start, HeapFields DEF LiveIn
    <2>2. \A c \in LiveIn(heap) : heap.cn[c].in = s => HasReader(s)
      BY <2>1 DEF HasReader, Live, LiveIn
    <2>3. \A c \in LiveIn(heap) : held'[heap.cn[c].in] # "none" \/ heap.cn[c].in \in early'
      BY <1>2, <2>1, <2>2, Start DEF InputsHeld, Handle
    <2>4. LiveIn(heap)' = LiveIn(heap) /\ heap'.cn = heap.cn
      BY <1>2, <1>7 DEF LiveIn
    <2>5. early' \subseteq Slot
      BY <1>2, Start
    <2> QED BY <2>3, <2>4, <2>5 DEF ReadersOK, InputsHeld, Handle
  <1>14. IInv'
    BY <1>2, <1>7, <1>8, <1>12, <1>13, Finish
  <1> QED BY <1>2, <1>7, <1>14

\* Resolve and Reject: a promise belongs to no combiner.
LEMMA SettleStep ==
  ASSUME Sound, NEW s \in Slot, NEW v \in Result, Settle(s, v)
  PROVE  IInv' /\ KeepsFates(heap, heap')
  <1>1. PICK g : g = SettleWith(heap, s, v)
    OBVIOUS
  <1>2. /\ held[s] = "promise" /\ heap' = g /\ held' = held
        /\ limit' = limit /\ frame' = frame /\ early' = early /\ crashed' = crashed
    BY <1>1 DEF Settle
  <1>3. heap.sh[s].ref # 0 /\ heap.sh[s].comb.kind = "None"
    <2>1. Handles[s] > 0
      BY <1>2, Start DEF Handle
    <2> QED BY <1>2, <2>1, Start, Counted
  <1>4. /\ CoreInv(g, Handles, {}, frame.cont) /\ Keeps(heap, g) /\ g.cn = heap.cn
        /\ \A x \in Slot : g.sh[x].comb = heap.sh[x].comb
        /\ \A x \in Slot \ {s} : g.sh[x].fate = heap.sh[x].fate /\ g.sh[x].res = heap.sh[x].res
    <2>1. Settled(heap, g, s, v, Handles, {}, frame.cont)
      BY <1>1, <1>3, Start, SettleCore
    <2> QED BY <2>1 DEF Settled
  <1>5. Handles' = Handles
    BY <1>2 DEF Handles
  <1>6. CombInv(g, 0)
    <2>1. CombInv(heap, 0) /\ heap \in Heap
      BY Start
    <2>2. LiveIn(g) = LiveIn(heap)
      BY <1>4 DEF LiveIn
    <2>3. \A x \in Slot : CombOK(heap.sh[x].fate, heap.sh[x].res, heap.sh[x].comb)
      BY <2>1 DEF CombInv
    <2>4. \A x \in Slot : CombOK(g.sh[x].fate, g.sh[x].res, g.sh[x].comb)
      BY <1>3, <1>4, <2>3, NoCombOK
    <2>5. \A c \in LiveIn(heap) : heap.cn[c].out \in Slot
      BY <2>1, HeapFields
    <2>6. \A c \in LiveIn(heap) \ {0} : ReportsTo(heap.cn[c], heap.sh[heap.cn[c].out].comb)
      BY <2>1 DEF CombInv
    <2> QED BY <1>4, <2>1, <2>2, <2>4, <2>5, <2>6 DEF CombInv
  <1>7. Stays(heap, heap')
    BY <1>2, <1>4 DEF Stays, LiveIn
  <1>8. FrameOK'
    BY <1>2, <1>7, FrameStays DEF Sound
  <1>9. StateInv'
    BY <1>2, <1>4, <1>8, Start DEF StateInv
  <1>10. ReadersOK'
    <2>1. g \in Heap
      BY <1>4 DEF CoreInv
    <2> QED BY <1>2, <1>4, <2>1, SameReaders
  <1>11. IInv'
    BY <1>2, <1>4, <1>5, <1>6, <1>9, <1>10, Finish
  <1> QED BY <1>2, <1>4, <1>11 DEF Keeps

\* Continuations are taken from the free list, or the list is permuted.
LEMMA TakeCore ==
  ASSUME NEW h, NEW ext, NEW run, CoreInv(h, ext, {}, run), NEW q \in Seq(Cont), IsInjective(q),
         NEW took, took \subseteq Cont \ Range(q), Range(q) \cup took = Range(h.cnFree)
  PROVE  LET g == [h EXCEPT !.cnFree = q] IN
         /\ Relisted(h, g, ext, took, run)
         /\ g \in Heap /\ g.sh = h.sh /\ g.cn = h.cn /\ g.shFree = h.shFree /\ g.cnFree = q /\ g.queue = h.queue
  <1>1. h \in Heap
    BY DEF CoreInv
  <1>2. PICK g : g = [h EXCEPT !.cnFree = q]
    OBVIOUS
  <1>3. g \in Heap /\ g.sh = h.sh /\ g.cn = h.cn /\ g.shFree = h.shFree /\ g.cnFree = q /\ g.queue = h.queue
    BY <1>1, <1>2, WithCnFree
  <1>4. \A c \in Cont : g.cn[c] = h.cn[c]
    BY <1>3
  <1>5. took \subseteq Cont \ Range(g.cnFree) /\ Range(g.cnFree) \cup took = Range(h.cnFree) \cup {} /\ IsInjective(g.cnFree)
    BY <1>3
  <1>6. Relisted(h, g, ext, took, run)
    BY <1>3, <1>4, <1>5, FreeListCore
  <1> QED BY <1>2, <1>3, <1>6

\* An operation allocates its output and may give it up again.
LEMMA GiveUp ==
  ASSUME Sound, heap.shFree # << >>, NEW out, out = NewShared(heap), NEW h, heap' = Release(h, out),
         CoreInv(h, More(Handles, out), {}, frame.cont), KeepsFates(heap, h), h.cn = heap.cn,
         \A x \in Slot : h.sh[x].comb = heap.sh[x].comb \/ h.sh[x].comb = NoComb,
         CombInv(h, 0), UNCHANGED <<limit, held, frame, early, crashed>>
  PROVE  IInv' /\ KeepsFates(heap, heap')
  <1>1. PICK g : g = Release(h, out)
    OBVIOUS
  <1>2. heap' = g /\ limit' = limit /\ held' = held /\ frame' = frame /\ early' = early /\ crashed' = crashed
    BY <1>1
  <1>3. PICK e : e = Handles
    OBVIOUS
  <1>4. out \in Slot /\ e \in [Slot -> Nat]
    BY <1>3, Start, AllocCore
  <1>5. More(e, out) \in [Slot -> Nat] /\ More(e, out)[out] > 0 /\ Less(More(e, out), out) = e
    BY <1>4, MoreAndLess
  <1>6. PICK m : m = More(e, out)
    OBVIOUS
  <1>7. m \in [Slot -> Nat] /\ m[out] > 0 /\ Less(m, out) = e /\ CoreInv(h, m, {}, frame.cont)
    BY <1>3, <1>5, <1>6
  <1>8. Released(h, g, Less(m, out), {}, frame.cont)
    BY <1>1, <1>4, <1>7, ReleaseCore
  <1>9. /\ CoreInv(g, e, {}, frame.cont) /\ Keeps(h, g) /\ CombInv(g, 0) /\ g.cn = heap.cn
        /\ \A x \in Slot : g.sh[x].comb = heap.sh[x].comb \/ g.sh[x].comb = NoComb
    BY <1>7, <1>8 DEF Released
  <1>10. KeepsFates(heap, g)
    BY <1>9, KeepsTrans
  <1>11. Handles' = e
    BY <1>2, <1>3 DEF Handles
  <1>12. \A x \in Slot : held'[x] = "promise" => g.sh[x].comb.kind = "None"
    BY <1>2, <1>9, Start, NoCombOK
  <1>13. Stays(heap, heap')
    BY <1>2, <1>9 DEF Stays, LiveIn
  <1>14. FrameOK'
    BY <1>2, <1>13, FrameStays DEF Sound
  <1>15. StateInv'
    BY <1>2, <1>12, <1>14, Start DEF StateInv
  <1>16. ReadersOK'
    <2>1. g \in Heap
      BY <1>9 DEF CoreInv
    <2> QED BY <1>2, <1>9, <2>1, SameReaders
  <1>17. IInv'
    BY <1>2, <1>9, <1>11, <1>15, <1>16, Finish
  <1> QED BY <1>2, <1>10, <1>17

\* Map, OnReject and OnSettle, the ways they fail included.
LEMMA ChainStep ==
  ASSUME Sound, NEW kind \in {"Then", "Catch", "Finally"}, NEW s \in Slot, Chain(kind, s)
  PROVE  IInv' /\ KeepsFates(heap, heap')
  <1>1. PICK out : out = NewShared(heap)
    OBVIOUS
  <1>2. PICK h : h = AllocShared(heap)
    OBVIOUS
  <1>3. /\ Handle(s) /\ heap.shFree # << >> /\ limit' = limit /\ frame' = frame /\ early' = early /\ crashed' = crashed
        /\ IF h.cnFree # << >> /\ CanAttach(h, s)
           THEN /\ heap' = Attach([h EXCEPT !.cnFree = Front(@)], Last(h.cnFree), kind, s, out, 1)
                /\ held' = [held EXCEPT ![out] = "future"]
           ELSE /\ heap' = Release(h, out)
                /\ UNCHANGED held
    BY <1>1, <1>2 DEF Chain
  <1>4. PICK m : m = More(Handles, out)
    OBVIOUS
  <1>5. /\ out \in Slot /\ Handles[out] = 0 /\ Refs(heap, out) = {} /\ CoreInv(h, m, {}, frame.cont)
        /\ KeepsFates(heap, h) /\ CombInv(h, 0)
        /\ h.cn = heap.cn /\ h.sh[out].comb = NoComb
        /\ \A x \in Slot \ {out} : h.sh[x] = heap.sh[x]
    BY <1>1, <1>2, <1>3, <1>4, Start, AllocCore
  <1>6. h \in Heap
    BY <1>5 DEF CoreInv
  <1>7. CASE ~ (h.cnFree # << >> /\ CanAttach(h, s))
    <2>1. heap' = Release(h, out) /\ UNCHANGED <<limit, held, frame, early, crashed>>
      BY <1>3, <1>7
    <2> QED BY <1>1, <1>3, <1>4, <1>5, <2>1, GiveUp
  <1>8. CASE h.cnFree # << >> /\ CanAttach(h, s)
    <2>1. PICK q : q = Front(h.cnFree)
      OBVIOUS
    <2>2. PICK c : c = Last(h.cnFree)
      OBVIOUS
    <2>3. PICK h2 : h2 = [h EXCEPT !.cnFree = q]
      OBVIOUS
    <2>4. PICK g : g = Attach(h2, c, kind, s, out, 1)
      OBVIOUS
    <2>5. heap' = g /\ held' = [held EXCEPT ![out] = "future"]
      BY <1>3, <1>8, <2>1, <2>2, <2>3, <2>4
    <2>6. h.cnFree \in Seq(Cont) /\ IsInjective(h.cnFree)
      BY <1>5, <1>6, HeapFields DEF CoreInv, ContsOK
    <2>7. q \in Seq(Cont) /\ IsInjective(q) /\ Range(q) = Range(h.cnFree) \ {c} /\ c \in Range(h.cnFree) /\ c \in Cont
      BY <1>8, <2>1, <2>2, <2>6, FrontElements
    <2>8. {c} \subseteq Cont \ Range(q) /\ Range(q) \cup {c} = Range(h.cnFree)
      BY <2>7
    <2>9. /\ Relisted(h, h2, m, {c}, frame.cont) /\ h2 \in Heap
          /\ h2.sh = h.sh /\ h2.cn = h.cn /\ h2.shFree = h.shFree /\ h2.queue = h.queue
      <3>1. PICK took : took = {c}
        OBVIOUS
      <3>2. CoreInv(h, m, {}, frame.cont) /\ q \in Seq(Cont) /\ IsInjective(q)
        BY <1>5, <2>7
      <3>3. took \subseteq Cont \ Range(q) /\ Range(q) \cup took = Range(h.cnFree)
        BY <2>8, <3>1
      <3> QED BY <2>3, <3>1, <3>2, <3>3, TakeCore
    <2>10. CoreInv(h2, m, {c}, frame.cont) /\ Keeps(h, h2) /\ CombInv(h2, 0)
      BY <1>5, <2>9 DEF Relisted
    <2>11. m \in [Slot -> Nat] /\ m[s] > 0 /\ m[out] > 0
      <3>1. Handles \in [Slot -> Nat] /\ Handles[s] = 1
        BY <1>3, Start
      <3> QED BY <1>4, <1>5, <3>1, MoreAndLess
    <2>12. CanAttach(h2, s) /\ 1 \in 1 .. MaxAllSize /\ c \in {c} /\ kind \in Kind
      BY <1>8, <2>9, LimitsAssumption DEF CanAttach, Kind
    <2>13. PICK k : k = [kind |-> kind, in |-> s, out |-> out, idx |-> 1]
      OBVIOUS
    <2>14. Attached(h2, g, c, k, m, {c}, frame.cont)
      BY <1>5, <2>4, <2>10, <2>11, <2>12, <2>13, Start, AttachCore
    <2>15. k \in ContRec /\ k.out = out /\ k.kind \in {"Then", "Catch", "Finally"}
      BY <1>5, <2>12, <2>13 DEF ContRec
    <2>16. CombInv(g, 0)
      <3>1. ReportsTo(k, h2.sh[k.out].comb)
        BY <1>5, <2>9, <2>15, NoCombOK DEF ReportsTo
      <3>2. \A d \in LiveIn(h2) : h2.cn[d].out = k.out => h2.cn[d].idx # k.idx
        BY <1>5, <2>9, <2>15 DEF Refs, LiveIn
      <3> QED BY <2>9, <2>10, <2>14, <2>15, <3>1, <3>2, AttachComb
    <2>17. /\ CoreInv(g, m, {c} \ {c}, frame.cont) /\ Keeps(h2, g)
           /\ LiveIn(g) = LiveIn(h2) \cup {c} /\ c \notin LiveIn(h2)
           /\ g.cn[c] = k /\ (\A x \in Cont \ {c} : g.cn[x] = h2.cn[x])
           /\ \A x \in Slot : g.sh[x].comb = h2.sh[x].comb
      BY <2>14 DEF Attached
    <2>18. CoreInv(g, m, {}, frame.cont)
      <3>1. {c} \ {c} = {}
        OBVIOUS
      <3> QED BY <2>17, <3>1
    <2>19. KeepsFates(heap, g)
      BY <1>5, <2>10, <2>17, KeepsTrans
    <2>20. held[out] = "none" /\ held \in [Slot -> {"none", "promise", "future"}]
      BY <1>5, Start DEF Handle
    <2>21. Handles' = m /\ held' \in [Slot -> {"none", "promise", "future"}]
      BY <1>4, <1>5, <2>5, <2>20, HandleComes
    <2>22. \A x \in Slot : held'[x] = "promise" => g.sh[x].comb.kind = "None"
      BY <1>5, <2>5, <2>9, <2>17, <2>20, Start
    <2>23. Stays(heap, heap')
      <3>1. LiveIn(h2) = LiveIn(heap) /\ LiveIn(heap) \subseteq Cont
        BY <1>5, <2>9 DEF LiveIn
      <3> QED BY <1>5, <2>5, <2>9, <2>17, <3>1 DEF Stays
    <2>24. FrameOK'
      BY <1>3, <2>23, FrameStays DEF Sound
    <2>25. StateInv'
      BY <1>3, <2>5, <2>21, <2>22, <2>24, Start DEF StateInv
    <2>26. ReadersOK'
      <3>1. g \in Heap /\ \A x \in Slot : held[x] # "none" => held'[x] # "none"
        BY <1>5, <2>5, <2>18, <2>20 DEF CoreInv
      <3>2. LiveIn(g) = LiveIn(heap) \cup {c} /\ c \notin LiveIn(heap) /\ LiveIn(heap) \subseteq Cont
        BY <1>5, <2>9, <2>17 DEF LiveIn
      <3>3. \A x \in LiveIn(heap) : g.cn[x] = heap.cn[x]
        BY <1>5, <2>9, <2>17, <3>2
      <3>4. Handle(g.cn[c].in)
        BY <1>3, <2>13, <2>17
      <3>5. InputsHeld(heap)
        BY Start
      <3>6. InputsHeld(g)
        BY <3>2, <3>3, <3>4, <3>5 DEF InputsHeld
      <3> QED BY <1>3, <2>5, <3>1, <3>6, Readers
    <2>27. IInv'
      BY <1>3, <2>5, <2>16, <2>18, <2>21, <2>25, <2>26, Finish
    <2> QED BY <2>5, <2>19, <2>27
  <1> QED BY <1>7, <1>8

\* A new combiner awaits the results of all its inputs.
Combiner(kind, st, n) == (kind = "All" /\ st = AllState(n)) \/ (kind = "Race" /\ st = RaceState)

\* A new combiner has no result, and every input may report.
LEMMA FreshComb ==
  ASSUME NEW kind, NEW st, NEW n \in 1 .. MaxAllSize, Combiner(kind, st, n)
  PROVE  /\ st \in CombRec /\ (\A res : CombOK("Pending", res, st)) /\ kind \in Kind
         /\ \A i \in 1 .. n : \A in, out \in Slot :
              ReportsTo([kind |-> kind, in |-> in, out |-> out, idx |-> i], st)
  <1>1. n \in Nat /\ kind \in Kind
    BY Pools DEF Combiner, Kind
  <1>2. CASE kind = "All" /\ st = AllState(n)
    <2>1. /\ st.kind = "All" /\ st.total = n /\ st.done = 0 /\ st.failed = FALSE
          /\ st.results = [i \in 1 .. n |-> "unset"] /\ \A i \in 1 .. n : st.results[i] = "unset"
      BY <1>2 DEF AllState
    <2>2. st \in [kind : {"All"}, total : {n}, done : 0 .. n, failed : BOOLEAN,
                  results : [1 .. n -> Result \cup {"unset"}]]
      <3>1. [i \in 1 .. n |-> "unset"] \in [1 .. n -> Result \cup {"unset"}] /\ 0 \in 0 .. n
        BY <1>1
      <3> QED BY <1>2, <3>1 DEF AllState
    <2>3. st \in CombRec
      BY <2>2 DEF CombRec
    <2>4. Cardinality({i \in 1 .. st.total : st.results[i] = "ok"}) = 0
      <3>1. {i \in 1 .. st.total : st.results[i] = "ok"} = {}
        BY <2>1
      <3> QED BY <3>1, FS_EmptySet
    <2>5. \A res : CombOK("Pending", res, st)
      BY <2>1, <2>4 DEF CombOK
    <2>6. \A i \in 1 .. n : \A in, out \in Slot : ReportsTo([kind |-> kind, in |-> in, out |-> out, idx |-> i], st)
      BY <1>2, <2>1 DEF ReportsTo
    <2> QED BY <1>1, <2>3, <2>5, <2>6
  <1>3. CASE kind = "Race" /\ st = RaceState
    <2>1. st.kind = "Race" /\ st.settled = FALSE /\ st.first = "unset"
      BY <1>3 DEF RaceState
    <2>2. st \in CombRec
      BY <1>3 DEF RaceState, CombRec
    <2>3. \A res : CombOK("Pending", res, st)
      BY <2>1 DEF CombOK
    <2>4. \A i \in 1 .. n : \A in, out \in Slot : ReportsTo([kind |-> kind, in |-> in, out |-> out, idx |-> i], st)
      BY <1>3, <2>1 DEF ReportsTo
    <2> QED BY <1>1, <2>2, <2>3, <2>4
  <1> QED BY <1>2, <1>3 DEF Combiner

\* Taking n continuations splits the free list.
Splits(h, q, cs, n) ==
  /\ q \in Seq(Cont) /\ IsInjective(q) /\ cs \in Seq(Cont) /\ IsInjective(cs) /\ Len(cs) = n
  /\ Range(cs) \subseteq Cont \ Range(q) /\ Range(q) \cup Range(cs) = Range(h.cnFree)

\* The continuations taken are the end of the free list.
LEMMA TakenElements ==
  ASSUME NEW h \in Heap, IsInjective(h.cnFree), NEW n \in Nat, n <= Len(h.cnFree)
  PROVE  Splits(h, SubSeq(h.cnFree, 1, Len(h.cnFree) - n), Taken(h, n), n)
  <1>1. PICK q : q = SubSeq(h.cnFree, 1, Len(h.cnFree) - n)
    OBVIOUS
  <1>2. PICK cs : cs = Taken(h, n)
    OBVIOUS
  <1>3. PICK f : f = h.cnFree
    OBVIOUS
  <1>4. f \in Seq(Cont) /\ IsInjective(f)
    BY <1>3, HeapFields
  <1>5. PICK l : l = Len(f)
    OBVIOUS
  <1>6. l \in Nat /\ n <= l /\ DOMAIN f = 1 .. l /\ \A i \in 1 .. l : f[i] \in Cont
    BY <1>3, <1>4, <1>5
  <1>7. PICK k : k = l - n
    OBVIOUS
  <1>8. k \in Nat /\ k \in 0 .. l /\ l = k + n
    BY <1>6, <1>7
  <1>9. q = SubSeq(f, 1, k)
    BY <1>1, <1>3, <1>5, <1>7
  <1>10. q \in Seq(Cont) /\ IsInjective(q) /\ Len(q) = k
    <2>1. k \in 0 .. Len(f)
      BY <1>5, <1>8
    <2>2. SubSeq(f, 1, k) \in Seq(Cont) /\ Len(SubSeq(f, 1, k)) = k /\ IsInjective(SubSeq(f, 1, k))
      BY <1>4, <2>1, SplitElements
    <2> QED BY <1>9, <2>2
  <1>11. DOMAIN q = 1 .. k /\ \A i \in 1 .. k : q[i] = f[i]
    BY <1>4, <1>5, <1>8, <1>9, <1>10
  <1>12. cs = [i \in 1 .. n |-> f[(l + 1) - i]]
    BY <1>2, <1>3, <1>5 DEF Taken
  <1>13. \A i \in 1 .. n : (l + 1) - i \in k + 1 .. l /\ (l + 1) - i \in 1 .. l
    BY <1>6, <1>8
  <1>14. cs \in Seq(Cont) /\ Len(cs) = n /\ DOMAIN cs = 1 .. n /\ \A i \in 1 .. n : cs[i] = f[(l + 1) - i]
    <2>1. \A i \in 1 .. n : f[(l + 1) - i] \in Cont
      BY <1>6, <1>13
    <2> QED BY <1>12, <2>1
  <1>15. IsInjective(cs)
    <2> SUFFICES ASSUME NEW i \in 1 .. n, NEW j \in 1 .. n, cs[i] = cs[j] PROVE i = j
      BY <1>14 DEF IsInjective
    <2>1. f[(l + 1) - i] = f[(l + 1) - j] /\ (l + 1) - i \in DOMAIN f /\ (l + 1) - j \in DOMAIN f
      BY <1>6, <1>13, <1>14
    <2>2. (l + 1) - i = (l + 1) - j
      BY <1>4, <2>1 DEF IsInjective
    <2> QED BY <1>6, <2>2
  <1>16. \A i \in 1 .. k : \A j \in 1 .. n : q[i] # cs[j]
    <2> TAKE i \in 1 .. k
    <2> TAKE j \in 1 .. n
    <2>1. i \in 1 .. l /\ (l + 1) - j \in 1 .. l /\ i # (l + 1) - j
      BY <1>6, <1>8, <1>13
    <2> QED BY <1>4, <1>6, <1>11, <1>14, <2>1 DEF IsInjective
  <1>17. \A i \in 1 .. l : i \in 1 .. k \/ ((l + 1) - i \in 1 .. n /\ (l + 1) - ((l + 1) - i) = i)
    BY <1>6, <1>8
  <1>18. Range(q) = {q[i] : i \in 1 .. k} /\ Range(cs) = {cs[i] : i \in 1 .. n} /\ Range(f) = {f[i] : i \in 1 .. l}
    BY <1>6, <1>11, <1>14 DEF Range
  <1>19. Range(cs) \subseteq Cont \ Range(q)
    <2>1. \A i \in 1 .. n : cs[i] \in Cont
      BY <1>6, <1>13, <1>14
    <2> QED BY <1>16, <1>18, <2>1
  <1>20. Range(q) \subseteq Range(f) /\ Range(cs) \subseteq Range(f)
    <2>1. \A i \in 1 .. k : i \in 1 .. l
      BY <1>6, <1>8
    <2> QED BY <1>11, <1>13, <1>14, <1>18, <2>1
  <1>21. Range(f) \subseteq Range(q) \cup Range(cs)
    <2> SUFFICES ASSUME NEW i \in 1 .. l PROVE f[i] \in Range(q) \cup Range(cs)
      BY <1>18
    <2>1. CASE i \in 1 .. k
      BY <1>11, <1>18, <2>1
    <2>2. CASE i \notin 1 .. k
      <3>1. PICK j \in 1 .. n : (l + 1) - j = i
        BY <1>17, <2>2
      <3> QED BY <1>14, <1>18, <3>1
    <2> QED BY <2>1, <2>2
  <1>22. Range(q) \cup Range(cs) = Range(f)
    BY <1>20, <1>21
  <1> QED BY <1>1, <1>2, <1>3, <1>10, <1>14, <1>15, <1>19, <1>22 DEF Splits

\* The output of All or Race with its combiner in place.
Prepared(h, m, out, st) ==
  /\ CoreInv(h, m, {}, frame.cont) /\ KeepsFates(heap, h) /\ InputsHeld(h) /\ CombInv(h, 0)
  /\ h.cn = heap.cn /\ h.sh[out].comb = st /\ Refs(h, out) = {}
  /\ \A x \in Slot \ {out} : h.sh[x].comb = heap.sh[x].comb

\* All and Race have allocated their output and its state.
LEMMA NewCombiner ==
  ASSUME Sound, heap.shFree # << >>, NEW out, out = NewShared(heap),
         NEW kind, NEW st, NEW n \in 1 .. MaxAllSize, Combiner(kind, st, n)
  PROVE  Prepared([AllocShared(heap) EXCEPT !.sh[out].comb = st], More(Handles, out), out, st)
  <1>1. PICK m : m = More(Handles, out)
    OBVIOUS
  <1>2. PICK f : f = AllocShared(heap)
    OBVIOUS
  <1>3. /\ out \in Slot /\ Handles[out] = 0 /\ Refs(heap, out) = {} /\ CoreInv(f, m, {}, frame.cont)
        /\ KeepsFates(heap, f) /\ CombInv(f, 0)
        /\ f.cn = heap.cn /\ f.sh[out].fate = "Pending"
        /\ \A x \in Slot \ {out} : f.sh[x] = heap.sh[x]
    BY <1>1, <1>2, Start, AllocCore
  <1>4. st \in CombRec /\ \A res : CombOK("Pending", res, st)
    BY FreshComb
  <1>5. PICK h : h = [f EXCEPT !.sh[out].comb = st]
    OBVIOUS
  <1>6. /\ CoreInv(h, m, {}, frame.cont) /\ Keeps(f, h) /\ h.cn = f.cn
        /\ h.sh[out].comb = st /\ \A x \in Slot \ {out} : h.sh[x].comb = f.sh[x].comb
        /\ \A x \in Slot : h.sh[x].fate = f.sh[x].fate /\ h.sh[x].res = f.sh[x].res
    <2>1. Recombined(f, h, out, st, m, {}, frame.cont)
      BY <1>3, <1>4, <1>5, CombCore
    <2> QED BY <2>1 DEF Recombined
  <1>7. LiveIn(h) = LiveIn(heap) /\ LiveIn(f) = LiveIn(heap) /\ Refs(h, out) = {}
    BY <1>3, <1>6 DEF LiveIn, Refs
  <1>8. InputsHeld(h)
    BY <1>3, <1>6, <1>7, Start DEF InputsHeld
  <1>9. CombInv(h, 0)
    <2>1. f \in Heap
      BY <1>3 DEF CoreInv
    <2>2. \A c \in LiveIn(f) : f.cn[c].out \in Slot \ {out}
      BY <1>3, <1>7, <2>1, HeapFields DEF Refs
    <2>3. \A x \in Slot : CombOK(f.sh[x].fate, f.sh[x].res, f.sh[x].comb)
      BY <1>3 DEF CombInv
    <2>4. \A x \in Slot : CombOK(h.sh[x].fate, h.sh[x].res, h.sh[x].comb)
      BY <1>3, <1>4, <1>6, <2>3
    <2>5. \A c \in LiveIn(f) \ {0} : ReportsTo(f.cn[c], f.sh[f.cn[c].out].comb)
      BY <1>3 DEF CombInv
    <2>6. \A c \in LiveIn(h) \ {0} : ReportsTo(h.cn[c], h.sh[h.cn[c].out].comb)
      BY <1>6, <1>7, <2>2, <2>5
    <2> QED BY <1>3, <1>6, <1>7, <2>4, <2>6 DEF CombInv
  <1>10. KeepsFates(heap, h)
    BY <1>3, <1>6, KeepsTrans
  <1>11. Prepared(h, m, out, st)
    BY <1>3, <1>6, <1>7, <1>8, <1>9, <1>10 DEF Prepared
  <1> QED BY <1>1, <1>2, <1>5, <1>11

\* The continuations are taken.
Ready(h, g, cs, n, ext, run) ==
  /\ cs \in Seq(Cont) /\ IsInjective(cs) /\ Len(cs) = n /\ CoreInv(g, ext, Range(cs), run)
  /\ Keeps(h, g) /\ (CombInv(h, 0) => CombInv(g, 0)) /\ g.sh = h.sh /\ g.cn = h.cn

\* They take their continuations.
LEMMA TakeThem ==
  ASSUME NEW h, NEW ext, NEW run, CoreInv(h, ext, {}, run), NEW n \in Nat, Len(h.cnFree) >= n
  PROVE  Ready(h, [h EXCEPT !.cnFree = SubSeq(@, 1, Len(@) - n)], Taken(h, n), n, ext, run)
  <1>1. h \in Heap /\ IsInjective(h.cnFree)
    BY DEF CoreInv, ContsOK
  <1>2. n <= Len(h.cnFree)
    <2>1. Len(h.cnFree) \in Nat
      BY <1>1, HeapFields
    <2> QED BY <2>1
  <1>3. PICK q : q = SubSeq(h.cnFree, 1, Len(h.cnFree) - n)
    OBVIOUS
  <1>4. PICK cs : cs = Taken(h, n)
    OBVIOUS
  <1>5. Splits(h, q, cs, n)
    BY <1>1, <1>2, <1>3, <1>4, TakenElements
  <1>6. /\ q \in Seq(Cont) /\ IsInjective(q) /\ cs \in Seq(Cont) /\ IsInjective(cs) /\ Len(cs) = n
        /\ Range(cs) \subseteq Cont \ Range(q) /\ Range(q) \cup Range(cs) = Range(h.cnFree)
    BY <1>5 DEF Splits
  <1>7. PICK g : g = [h EXCEPT !.cnFree = q]
    OBVIOUS
  <1>8. Relisted(h, g, ext, Range(cs), run) /\ g.sh = h.sh /\ g.cn = h.cn
    BY <1>6, <1>7, TakeCore
  <1>9. Ready(h, g, cs, n, ext, run)
    BY <1>6, <1>8 DEF Relisted, Ready
  <1> QED BY <1>3, <1>4, <1>7, <1>9

\* They are attached, or the queue refused one.
JoinEnded(a, m) ==
  /\ KeepsFates(heap, a.h) /\ CombInv(a.h, 0) /\ Stays(heap, a.h) /\ InputsHeld(a.h)
  /\ \A x \in Slot : held[x] = "promise" => a.h.sh[x].comb.kind = "None"
  /\ \/ a.ok = TRUE /\ CoreInv(a.h, m, {}, frame.cont)
     \/ a.ok = FALSE /\ CoreInv(a.h, Handles, {}, frame.cont)

\* They attach them, or give up.
LEMMA AttachThem ==
  ASSUME Sound, heap.shFree # << >>, NEW out, out = NewShared(heap), NEW m, m = More(Handles, out),
         NEW kind, NEW st, NEW n \in 1 .. MaxAllSize, Combiner(kind, st, n), NEW fs \in [1 .. n -> Slot],
         \A i \in 1 .. n : Handle(fs[i]),
         NEW h, Prepared(h, m, out, st), NEW g, NEW cs, Ready(h, g, cs, n, m, frame.cont)
  PROVE  JoinEnded(AttachAll(g, kind, cs, fs, out), m)
  <1>1. PICK a : a = AttachAll(g, kind, cs, fs, out)
    OBVIOUS
  <1>2. PICK run : run = frame.cont
    OBVIOUS
  <1>3. /\ CoreInv(h, m, {}, run) /\ KeepsFates(heap, h) /\ InputsHeld(h) /\ CombInv(h, 0)
        /\ h.cn = heap.cn /\ h.sh[out].comb = st /\ Refs(h, out) = {}
        /\ \A x \in Slot \ {out} : h.sh[x].comb = heap.sh[x].comb
    BY <1>2 DEF Prepared
  <1>4. /\ cs \in Seq(Cont) /\ IsInjective(cs) /\ Len(cs) = n /\ CoreInv(g, m, Range(cs), run)
        /\ Keeps(h, g) /\ CombInv(g, 0) /\ g.sh = h.sh /\ g.cn = h.cn
    BY <1>2, <1>3 DEF Ready
  <1>5. PICK e : e = Handles
    OBVIOUS
  <1>6. out \in Slot /\ e \in [Slot -> Nat] /\ e[out] = 0 /\ limit \in Nat
    BY <1>5, Start, AllocCore
  <1>7. held[out] = "none"
    BY <1>5, <1>6, Start DEF Handle
  <1>8. \A i \in 1 .. n : fs[i] \in Slot /\ e[fs[i]] = 1
    BY <1>5, Start
  <1>9. m \in [Slot -> Nat] /\ m[out] > 0 /\ Less(m, out) = e /\ \A x \in Slot \ {out} : m[x] = e[x]
    BY <1>5, <1>6, MoreAndLess
  <1>10. n \in Nat /\ n > 0 /\ n <= MaxAllSize
    BY Pools
  <1>11. LiveIn(g) = LiveIn(h) /\ LiveIn(h) = LiveIn(heap) /\ Refs(g, out) = {}
    BY <1>3, <1>4 DEF LiveIn, Refs
  <1>12. InputsHeld(g)
    BY <1>3, <1>4, <1>11 DEF InputsHeld
  <1>13. \A i \in 1 .. n : m[fs[i]] > 0 /\ Handle(fs[i])
    <2> TAKE i \in 1 .. n
    <2>1. fs[i] \in Slot /\ e[fs[i]] = 1 /\ fs[i] # out
      BY <1>6, <1>8
    <2>2. m[fs[i]] = 1
      BY <1>9, <2>1
    <2> QED BY <2>2
  <1>14. /\ kind \in Kind
         /\ \A i \in 1 .. n : \A in \in Slot :
              ReportsTo([kind |-> kind, in |-> in, out |-> out, idx |-> i], g.sh[out].comb)
    BY <1>3, <1>4, <1>6, FreshComb
  <1>15. Joined(g, a, m, out, run)
    BY <1>1, <1>4, <1>6, <1>9, <1>10, <1>11, <1>12, <1>13, <1>14, AttachAllCore
  <1>16. PICK f : f = a.h
    OBVIOUS
  <1>17. \/ a.ok = TRUE /\ Over(g, f, m, run)
         \/ a.ok = FALSE /\ Over(g, f, e, run)
    BY <1>9, <1>15, <1>16 DEF Joined
  <1>18. Keeps(g, f) /\ CombInv(f, 0) /\ Stays(g, f) /\ CombsStay(g, f) /\ InputsHeld(f)
    BY <1>17 DEF Over
  <1>19. \/ a.ok = TRUE /\ CoreInv(f, m, {}, run)
         \/ a.ok = FALSE /\ CoreInv(f, e, {}, run)
    BY <1>17 DEF Over
  <1>20. KeepsFates(heap, f)
    BY <1>3, <1>4, <1>18, KeepsTrans
  <1>21. Stays(heap, f)
    BY <1>3, <1>4, <1>11, <1>18 DEF Stays
  <1>22. \A x \in Slot : held[x] = "promise" => f.sh[x].comb.kind = "None"
    <2> TAKE x \in Slot
    <2> HAVE held[x] = "promise"
    <2>1. heap.sh[x].comb.kind = "None" /\ x # out
      BY <1>7, Start
    <2>2. f.sh[x].comb = heap.sh[x].comb \/ f.sh[x].comb = NoComb
      BY <1>3, <1>4, <1>18, <2>1 DEF CombsStay
    <2> QED BY <2>1, <2>2, NoCombOK
  <1> QED BY <1>1, <1>2, <1>5, <1>16, <1>18, <1>19, <1>20, <1>21, <1>22 DEF JoinEnded

\* The outcome of attaching, as a step.
LEMMA JoinStep ==
  ASSUME Sound, heap.shFree # << >>, NEW out, out = NewShared(heap), NEW a,
         KeepsFates(heap, a.h), CombInv(a.h, 0), Stays(heap, a.h), InputsHeld(a.h),
         \A x \in Slot : held[x] = "promise" => a.h.sh[x].comb.kind = "None",
         \/ a.ok = TRUE /\ CoreInv(a.h, More(Handles, out), {}, frame.cont)
         \/ a.ok = FALSE /\ CoreInv(a.h, Handles, {}, frame.cont),
         heap' = a.h, held' = [held EXCEPT ![out] = IF a.ok THEN "future" ELSE @],
         limit' = limit, frame' = frame, early' = early /\ crashed' = crashed
  PROVE  IInv' /\ KeepsFates(heap, heap')
  <1>1. FrameOK'
    BY FrameStays DEF Sound
  <1>2. out \in Slot /\ Handles[out] = 0
    BY Start, AllocCore
  <1>3. held[out] = "none" /\ held \in [Slot -> {"none", "promise", "future"}]
    BY <1>2, Start DEF Handle
  <1>4. CASE a.ok = TRUE
    <2>1. held' = [held EXCEPT ![out] = "future"] /\ CoreInv(a.h, More(Handles, out), {}, frame.cont)
      BY <1>4
    <2>2. Handles' = More(Handles, out) /\ held' \in [Slot -> {"none", "promise", "future"}]
      BY <1>2, <1>3, <2>1, HandleComes
    <2>3. \A x \in Slot : held'[x] = "promise" => heap'.sh[x].comb.kind = "None"
      BY <1>3, <2>1
    <2>4. StateInv'
      BY <1>1, <2>2, <2>3, Start DEF StateInv
    <2>5. ReadersOK'
      <3>1. a.h \in Heap /\ \A x \in Slot : held[x] # "none" => held'[x] # "none"
        BY <1>2, <1>3, <2>1 DEF CoreInv
      <3> QED BY <3>1, Readers
    <2> QED BY <2>1, <2>2, <2>4, <2>5, Finish
  <1>5. CASE a.ok = FALSE
    <2>1. held' = held /\ CoreInv(a.h, Handles, {}, frame.cont)
      BY <1>2, <1>3, <1>5
    <2>2. Handles' = Handles
      BY <2>1 DEF Handles
    <2>3. StateInv'
      BY <1>1, <1>3, <2>1, Start DEF StateInv
    <2>4. ReadersOK'
      <3>1. a.h \in Heap
        BY <2>1 DEF CoreInv
      <3> QED BY <2>1, <3>1, Readers
    <2> QED BY <2>1, <2>2, <2>3, <2>4, Finish
  <1> QED BY <1>4, <1>5

\* Some continuations were there, not enough: they go back in turn.
GivenBack(g, m) ==
  /\ CoreInv(g, m, {}, frame.cont) /\ KeepsFates(heap, g) /\ g.cn = heap.cn
  /\ \A x \in Slot : g.sh[x].comb = heap.sh[x].comb \/ g.sh[x].comb = NoComb
  /\ CombInv(g, 0)

\* Fewer continuations than futures: what was taken goes back in reverse.
LEMMA TurnBack ==
  ASSUME Sound, NEW h, NEW m, NEW out \in Slot, NEW st, Prepared(h, m, out, st)
  PROVE  GivenBack([h EXCEPT !.cnFree = Reverse(@), !.sh[out].comb = NoComb], m)
  <1>1. PICK run : run = frame.cont
    OBVIOUS
  <1>2. /\ CoreInv(h, m, {}, run) /\ KeepsFates(heap, h) /\ InputsHeld(h) /\ CombInv(h, 0)
        /\ h.cn = heap.cn /\ Refs(h, out) = {}
        /\ \A x \in Slot \ {out} : h.sh[x].comb = heap.sh[x].comb
    BY <1>1 DEF Prepared
  <1>3. PICK q : q = Reverse(h.cnFree)
    OBVIOUS
  <1>4. q \in Seq(Cont) /\ Range(q) = Range(h.cnFree) /\ IsInjective(q)
    <2>1. h \in Heap /\ IsInjective(h.cnFree)
      BY <1>2 DEF CoreInv, ContsOK
    <2>2. h.cnFree \in Seq(Cont)
      BY <2>1, HeapFields
    <2> QED BY <1>3, <2>1, <2>2, ReverseElements
  <1>5. PICK f : f = [h EXCEPT !.cnFree = q]
    OBVIOUS
  <1>6. {} \subseteq Cont \ Range(q) /\ Range(q) \cup {} = Range(h.cnFree)
    BY <1>4
  <1>7. Relisted(h, f, m, {}, run) /\ f.sh = h.sh /\ f.cn = h.cn
    BY <1>2, <1>4, <1>5, <1>6, TakeCore
  <1>8. CoreInv(f, m, {}, run) /\ Keeps(h, f) /\ CombInv(f, 0)
    BY <1>2, <1>7 DEF Relisted
  <1>9. PICK g : g = [f EXCEPT !.sh[out].comb = NoComb]
    OBVIOUS
  <1>10. /\ CoreInv(g, m, {}, run) /\ Keeps(f, g) /\ g.cn = f.cn
         /\ g.sh[out].comb = NoComb /\ \A x \in Slot \ {out} : g.sh[x].comb = f.sh[x].comb
         /\ \A x \in Slot : g.sh[x].fate = f.sh[x].fate /\ g.sh[x].res = f.sh[x].res
    <2>1. Recombined(f, g, out, NoComb, m, {}, run)
      BY <1>8, <1>9, NoCombOK, CombCore
    <2> QED BY <2>1 DEF Recombined
  <1>11. LiveIn(g) = LiveIn(h) /\ LiveIn(f) = LiveIn(h)
    BY <1>7, <1>10 DEF LiveIn
  <1>13. KeepsFates(heap, g)
    BY <1>2, <1>8, <1>10, KeepsTrans
  <1>14. CombInv(g, 0)
    <2>1. f \in Heap
      BY <1>8 DEF CoreInv
    <2>2. \A c \in LiveIn(f) : f.cn[c].out \in Slot \ {out}
      BY <1>2, <1>7, <1>11, <2>1, HeapFields DEF Refs
    <2>3. \A x \in Slot : CombOK(f.sh[x].fate, f.sh[x].res, f.sh[x].comb)
      BY <1>8 DEF CombInv
    <2>4. \A x \in Slot : CombOK(g.sh[x].fate, g.sh[x].res, g.sh[x].comb)
      BY <1>10, <2>3, NoCombOK
    <2>5. \A c \in LiveIn(f) \ {0} : ReportsTo(f.cn[c], f.sh[f.cn[c].out].comb)
      BY <1>8 DEF CombInv
    <2>6. \A c \in LiveIn(g) \ {0} : ReportsTo(g.cn[c], g.sh[g.cn[c].out].comb)
      BY <1>10, <1>11, <2>2, <2>5
    <2> QED BY <1>8, <1>10, <1>11, <2>4, <2>6 DEF CombInv
  <1>15. g = [h EXCEPT !.cnFree = Reverse(@), !.sh[out].comb = NoComb]
    BY <1>3, <1>5, <1>9
  <1>16. \A x \in Slot : g.sh[x].comb = heap.sh[x].comb \/ g.sh[x].comb = NoComb
    BY <1>2, <1>7, <1>10
  <1> QED BY <1>1, <1>2, <1>7, <1>10, <1>13, <1>14, <1>15, <1>16 DEF GivenBack

\* All and Race, in each of the four ways they end.
LEMMA CombineStep ==
  ASSUME Sound, NEW kind, NEW st, NEW n \in 1 .. MaxAllSize, Combiner(kind, st, n),
         NEW fs \in [1 .. n -> Slot], Combine(kind, st, fs)
  PROVE  IInv' /\ KeepsFates(heap, heap')
  <1>1. PICK out : out = NewShared(heap)
    OBVIOUS
  <1>2. PICK f : f = AllocShared(heap)
    OBVIOUS
  <1>3. PICK h : h = [AllocShared(heap) EXCEPT !.sh[out].comb = st]
    OBVIOUS
  <1>4. PICK a : a = AttachAll([h EXCEPT !.cnFree = SubSeq(@, 1, Len(@) - n)], kind, Taken(h, n), fs, out)
    OBVIOUS
  <1>5. Len(fs) = n /\ DOMAIN fs = 1 .. n /\ n \in Nat
    BY Pools
  <1>6. heap.shFree # << >> /\ (\A i \in 1 .. n : Handle(fs[i])) /\ limit' = limit /\ frame' = frame /\ early' = early
    BY <1>5 DEF Combine
  <1>7. \/ /\ Len(h.cnFree) >= n
           /\ heap' = a.h
           /\ held' = [held EXCEPT ![out] = IF a.ok THEN "future" ELSE @]
           /\ early' = early /\ crashed' = crashed
        \/ /\ heap' = Release([h EXCEPT !.cnFree = Reverse(@), !.sh[out].comb = NoComb], out)
           /\ held' = held /\ early' = early /\ crashed' = crashed
        \/ /\ crashed' = TRUE
           /\ heap' = heap /\ held' = held
        \/ /\ heap' = Release(f, out)
           /\ held' = held /\ early' = early /\ crashed' = crashed
    BY <1>1, <1>2, <1>3, <1>4, <1>5 DEF Combine
  <1>8. PICK m : m = More(Handles, out)
    OBVIOUS
  <1>9. Prepared(h, m, out, st)
    BY <1>1, <1>3, <1>6, <1>8, NewCombiner
  <1>10. /\ out \in Slot /\ CoreInv(f, m, {}, frame.cont)
         /\ KeepsFates(heap, f) /\ CombInv(f, 0)
         /\ f.cn = heap.cn /\ f.sh[out].comb = NoComb
         /\ \A x \in Slot \ {out} : f.sh[x] = heap.sh[x]
    BY <1>1, <1>2, <1>6, <1>8, Start, AllocCore
  <1>11. CASE /\ Len(h.cnFree) >= n
              /\ heap' = a.h
              /\ held' = [held EXCEPT ![out] = IF a.ok THEN "future" ELSE @]
              /\ early' = early /\ crashed' = crashed
    <2>1. PICK g : g = [h EXCEPT !.cnFree = SubSeq(@, 1, Len(@) - n)]
      OBVIOUS
    <2>2. PICK cs : cs = Taken(h, n)
      OBVIOUS
    <2>3. CoreInv(h, m, {}, frame.cont)
      BY <1>9 DEF Prepared
    <2>4. Ready(h, g, cs, n, m, frame.cont)
      BY <1>5, <1>11, <2>1, <2>2, <2>3, TakeThem
    <2>5. a = AttachAll(g, kind, cs, fs, out)
      BY <1>4, <2>1, <2>2
    <2>6. JoinEnded(a, m)
      BY <1>1, <1>6, <1>8, <1>9, <2>4, <2>5, AttachThem
    <2>7. /\ KeepsFates(heap, a.h) /\ CombInv(a.h, 0) /\ Stays(heap, a.h) /\ InputsHeld(a.h)
          /\ \A x \in Slot : held[x] = "promise" => a.h.sh[x].comb.kind = "None"
          /\ \/ a.ok = TRUE /\ CoreInv(a.h, m, {}, frame.cont)
             \/ a.ok = FALSE /\ CoreInv(a.h, Handles, {}, frame.cont)
      BY <2>6 DEF JoinEnded
    <2> QED BY <1>1, <1>6, <1>8, <1>11, <2>7, JoinStep
  <1>12. CASE /\ heap' = Release([h EXCEPT !.cnFree = Reverse(@), !.sh[out].comb = NoComb], out)
              /\ held' = held /\ early' = early /\ crashed' = crashed
    <2>1. PICK g : g = [h EXCEPT !.cnFree = Reverse(@), !.sh[out].comb = NoComb]
      OBVIOUS
    <2>2. /\ CoreInv(g, m, {}, frame.cont) /\ KeepsFates(heap, g) /\ g.cn = heap.cn
          /\ \A x \in Slot : g.sh[x].comb = heap.sh[x].comb \/ g.sh[x].comb = NoComb
          /\ CombInv(g, 0)
      <3>1. GivenBack(g, m)
        BY <1>9, <1>10, <2>1, TurnBack
      <3> QED BY <3>1 DEF GivenBack
    <2>3. heap' = Release(g, out) /\ UNCHANGED <<limit, held, frame, early, crashed>>
      BY <1>6, <1>12, <2>1
    <2> QED BY <1>1, <1>6, <1>8, <2>2, <2>3, GiveUp
  <1>13. CASE crashed' = TRUE /\ heap' = heap /\ held' = held
    <2>1. Stays(heap, heap') /\ KeepsFates(heap, heap')
      BY <1>13 DEF Stays, KeepsFates
    <2>2. Handles' = Handles
      BY <1>13 DEF Handles
    <2>3. FrameOK'
      BY <1>6, <2>1, FrameStays DEF Sound
    <2>4. StateInv'
      BY <1>6, <1>13, <2>3, Start DEF StateInv
    <2>5. ReadersOK'
      BY <1>6, <1>13, Start, SameReaders
    <2>6. IInv'
      BY <1>6, <1>13, <2>2, <2>4, <2>5, Start, Finish
    <2> QED BY <2>1, <2>6
  <1>14. CASE heap' = Release(f, out) /\ held' = held /\ early' = early /\ crashed' = crashed
    <2>1. \A x \in Slot : f.sh[x].comb = heap.sh[x].comb \/ f.sh[x].comb = NoComb
      BY <1>10
    <2>2. UNCHANGED <<limit, held, frame, early, crashed>>
      BY <1>6, <1>14
    <2> QED BY <1>1, <1>6, <1>8, <1>10, <1>14, <2>1, <2>2, GiveUp
  <1> QED BY <1>7, <1>11, <1>12, <1>13, <1>14

\* Freeing a free slot once more leaves all but the free slots as it was.
LEMMA TwiceCore ==
  ASSUME NEW e, NEW ext \in [Slot -> Nat], CoreInv(e, ext, {}, 0), CombInv(e, 0), NEW in \in Slot,
         in \in Range(e.shFree), NEW g, g = FreeShared(e, in)
  PROVE  /\ CoreRest(g, ext, 0) /\ CombInv(g, 0) /\ Keeps(e, g) /\ g.cn = e.cn
         /\ g.shFree = Append(e.shFree, in)
         /\ \A x \in Slot : g.sh[x].comb = e.sh[x].comb \/ g.sh[x].comb = NoComb
  <1>1. /\ e \in Heap /\ RefsOK(e, ext) /\ SlotsOK(e) /\ ContsOK(e, {})
        /\ QueueOK(e, 0) /\ PlacedOK(e, 0) /\ \A x \in Slot : LinkOK(e, 0, x)
    BY DEF CoreInv, PlacesOK
  <1>2. /\ g \in Heap /\ g.cn = e.cn /\ g.shFree = Append(e.shFree, in)
        /\ g.cnFree = e.cnFree /\ g.queue = e.queue
        /\ g.sh[in] = Shared("Pending", e.sh[in].res, 0) /\ \A x \in Slot \ {in} : g.sh[x] = e.sh[x]
    BY <1>1, FreeSharedShape
  <1>3. g.sh[in].fate = "Pending" /\ g.sh[in].conts = << >> /\ g.sh[in].ref = 0 /\ g.sh[in].comb = NoComb
    <2>1. e.sh[in].res \in Result
      BY <1>1, HeapFields
    <2> QED BY <1>2, <2>1, SharedFresh DEF Fate
  <1>4. e.sh[in].fate = "Pending" /\ e.sh[in].conts = << >> /\ e.sh[in].ref = 0
    BY <1>1 DEF SlotsOK, Reclaimable
  <1>5. Range(g.shFree) = Range(e.shFree)
    <2>1. e.shFree \in Seq(Slot)
      BY <1>1, HeapFields
    <2>2. PICK q : q = e.shFree
      OBVIOUS
    <2>3. q \in Seq(Slot) /\ in \in Range(q)
      BY <2>1, <2>2
    <2>4. Range(Append(q, in)) = Range(q) \cup {in}
      BY <2>3, AppendElements
    <2> QED BY <1>2, <2>2, <2>3, <2>4
  <1>6. LiveIn(g) = LiveIn(e) /\ \A x : Refs(g, x) = Refs(e, x)
    BY <1>2 DEF LiveIn, Refs
  <1>7. \A x \in Slot : /\ g.sh[x].ref = e.sh[x].ref /\ g.sh[x].conts = e.sh[x].conts
                        /\ g.sh[x].fate = e.sh[x].fate
    BY <1>2, <1>3, <1>4
  <1>8. \A x \in Slot \ {in} : g.sh[x].comb = e.sh[x].comb
    BY <1>2
  <1>9. RefsOK(g, ext)
    BY <1>1, <1>6, <1>7 DEF RefsOK
  <1>10. ContsOK(g, {})
    BY <1>1, <1>2, <1>6 DEF ContsOK
  <1>11. QueueOK(g, 0)
    BY <1>1, <1>2, <1>6 DEF QueueOK
  <1>12. \A x \in Slot : LinkOK(g, 0, x)
    BY <1>1, <1>2, <1>6, <1>7 DEF LinkOK
  <1>13. PlacedOK(g, 0)
    <2>1. \A c \in LiveIn(e) : e.cn[c].in \in Slot
      BY <1>1, HeapFields
    <2> QED BY <1>1, <1>2, <1>6, <1>7, <2>1 DEF PlacedOK
  <1>14. /\ \A s \in Slot : s \in Range(g.shFree) <=> Reclaimable(g.sh[s])
         /\ \A s \in Slot : s \in Range(g.shFree) => g.sh[s].fate = "Pending"
    BY <1>1, <1>5, <1>7 DEF SlotsOK, Reclaimable
  <1>15. CoreRest(g, ext, 0)
    BY <1>2, <1>9, <1>10, <1>11, <1>12, <1>13, <1>14 DEF CoreRest, PlacesOK
  <1>16. Keeps(e, g)
    <2>1. \A x \in Slot \ {in} : g.sh[x].res = e.sh[x].res
      BY <1>2
    <2> QED BY <1>4, <1>5, <1>7, <2>1 DEF Keeps, KeepsFates
  <1>17. CombInv(g, 0)
    <2>1. \A x \in Slot : CombOK(e.sh[x].fate, e.sh[x].res, e.sh[x].comb)
      BY DEF CombInv
    <2>2. \A x \in Slot : CombOK(g.sh[x].fate, g.sh[x].res, g.sh[x].comb)
      BY <1>2, <1>3, <2>1, NoCombOK
    <2>3. Refs(e, in) = {}
      BY <1>1, <1>4, Counted
    <2>4. \A c \in LiveIn(e) : e.cn[c].out \in Slot \ {in}
      BY <1>1, <2>3, HeapFields DEF Refs
    <2>5. \A c \in LiveIn(e) \ {0} : ReportsTo(e.cn[c], e.sh[e.cn[c].out].comb)
      BY DEF CombInv
    <2>6. \A c \in LiveIn(g) \ {0} : ReportsTo(g.cn[c], g.sh[g.cn[c].out].comb)
      BY <1>2, <1>6, <1>8, <2>4, <2>5
    <2> QED BY <1>2, <1>6, <2>2, <2>6 DEF CombInv
  <1> QED BY <1>2, <1>3, <1>8, <1>15, <1>16, <1>17

\* An element twice in a sequence, and no other.
OnlyTwice(p, x) == ~ IsInjective(p) /\ \A i, j \in DOMAIN p : p[i] = p[j] => i = j \/ p[i] = x

\* Appending an element that is there.
LEMMA Twice ==
  ASSUME NEW q \in Seq(Slot), IsInjective(q), NEW x \in Slot, x \in Range(q), NEW p, p = Append(q, x)
  PROVE  OnlyTwice(p, x)
  <1>1. PICK n : n = Len(q)
    OBVIOUS
  <1>2. n \in Nat /\ DOMAIN q = 1 .. n /\ DOMAIN p = 1 .. n + 1 /\ p[n + 1] = x /\ \A i \in 1 .. n : p[i] = q[i]
    BY <1>1 DEF Range
  <1>3. PICK k \in 1 .. n : q[k] = x
    BY <1>2 DEF Range
  <1>4. k \in DOMAIN p /\ n + 1 \in DOMAIN p /\ k # n + 1 /\ p[k] = p[n + 1]
    BY <1>2, <1>3
  <1>5. ASSUME NEW i \in DOMAIN p, NEW j \in DOMAIN p, p[i] = p[j] PROVE i = j \/ p[i] = x
    <2>1. CASE i \in 1 .. n /\ j \in 1 .. n
      BY <1>2, <1>5, <2>1 DEF IsInjective
    <2>2. CASE i = n + 1 \/ j = n + 1
      BY <1>2, <1>5, <2>2
    <2> QED BY <1>2, <2>1, <2>2
  <1>6. ~ IsInjective(p)
    BY <1>4 DEF IsInjective
  <1> QED BY <1>5, <1>6 DEF OnlyTwice

\* A continuation that has reported goes, and the pump is ready for the next;
\* its input may be freed for the second time.
LEMMA EndStep ==
  ASSUME Sound, NEW h, NEW c \in LiveIn(h), NEW g, NEW in, in = h.cn[c].in, NEW out, out = h.cn[c].out,
         h.sh = heap.sh, h.cn = heap.cn, KeepsFates(heap, h), Reported(h, g, c, Handles, {}, out),
         heap' = EndCont(g, c, in, out), frame' = NoFrame, limit' = limit, held' = held, Ended
  PROVE  IInv' /\ KeepsFates(heap, heap')
  <1>1. /\ CoreInv(g, Handles, {}, c) /\ Keeps(h, g) /\ g.cn = h.cn /\ CombInv(g, c)
        /\ \A x \in Slot \ {out} : g.sh[x].comb = h.sh[x].comb
        /\ h.sh[out].comb.kind = "None" => g.sh[out].comb.kind = "None"
    BY DEF Reported
  <1>2. c \in Cont /\ c \in LiveIn(g) /\ in = g.cn[c].in /\ out = g.cn[c].out
    BY <1>1 DEF LiveIn
  <1>3. PICK f : f = EndCont(g, c, in, out)
    OBVIOUS
  <1>4. PICK e : Ends(g, e, f, c, in, Handles)
    BY <1>1, <1>2, <1>3, Start, EndContCore
  <1>5. /\ CoreInv(e, Handles, {}, 0) /\ Keeps(g, e) /\ CombInv(e, 0)
        /\ \A x \in Slot : e.sh[x].comb = g.sh[x].comb \/ e.sh[x].comb = NoComb
        /\ LiveIn(e) = LiveIn(g) \ {c} /\ \A d \in Cont \ {c} : e.cn[d] = g.cn[d]
        /\ f = e \/ FreedTwice(e, f, in)
    BY <1>4 DEF Ends
  <1>6. heap' = f /\ Handles' = Handles /\ e \in Heap
    BY <1>3, <1>5 DEF Handles, CoreInv
  <1>7. KeepsFates(heap, e)
    <2>1. KeepsFates(heap, g)
      BY <1>1, KeepsTrans
    <2> QED BY <1>5, <2>1, KeepsTrans
  <1>8. \A x \in Slot : held[x] = "promise" => e.sh[x].comb.kind = "None"
    BY <1>1, <1>5, Start, NoCombOK
  <1>9. FrameOK' /\ frame'.cont = 0
    BY DEF FrameOK, NoFrame
  <1>10. in \in Slot /\ (Handle(in) \/ in \in early)
    <2>1. c \in LiveIn(heap) /\ in = heap.cn[c].in
      BY DEF LiveIn
    <2> QED BY <2>1, Start, HeapFields DEF InputsHeld
  <1>11. LiveIn(e) \subseteq LiveIn(heap) /\ \A d \in LiveIn(e) : e.cn[d] = heap.cn[d]
    <2>1. LiveIn(g) = LiveIn(heap) /\ LiveIn(g) \subseteq Cont
      BY <1>1 DEF LiveIn
    <2> QED BY <1>1, <1>5, <2>1
  <1>12. InputsHeld(e)
    BY <1>11, Start DEF InputsHeld
  <1>13. CASE f = e
    <2>1. IsInjective(heap'.shFree)
      BY <1>5, <1>6, <1>13 DEF CoreInv, SlotsOK
    <2>2. crashed' = FALSE /\ early' = {s \in early : HasReader(s)'}
      BY <2>1 DEF Ended
    <2>3. StateInv'
      BY <1>6, <1>8, <1>9, <1>13, <2>2, Start DEF StateInv
    <2>4. ReadersOK'
      <3>1. ASSUME NEW d \in LiveIn(e) PROVE held'[e.cn[d].in] # "none" \/ e.cn[d].in \in early'
        <4>1. PICK s : s = e.cn[d].in
          OBVIOUS
        <4>2. held[s] # "none" \/ s \in early
          BY <1>12, <3>1, <4>1 DEF InputsHeld, Handle
        <4>3. HasReader(s)'
          BY <1>6, <1>13, <3>1, <4>1 DEF HasReader, Live, LiveIn
        <4> QED BY <2>2, <4>1, <4>2, <4>3
      <3>2. LiveIn(heap)' = LiveIn(e) /\ heap'.cn = e.cn
        BY <1>6, <1>13 DEF LiveIn
      <3>3. early' \subseteq Slot
        BY <2>2, Start
      <3> QED BY <3>1, <3>2, <3>3 DEF ReadersOK, InputsHeld, Handle
    <2>5. IInv'
      BY <1>5, <1>6, <1>9, <1>13, <2>3, <2>4, Finish
    <2> QED BY <1>6, <1>7, <1>13, <2>5
  <1>14. CASE FreedTwice(e, f, in)
    <2>1. in \in Range(e.shFree) /\ f = FreeShared(e, in)
      BY <1>14 DEF FreedTwice
    <2>2. in \in early
      <3>1. e.sh[in].ref = 0
        BY <1>5, <1>10, <2>1 DEF CoreInv, SlotsOK, Reclaimable
      <3>2. Handles[in] = 0
        <4>1. RefsOK(e, Handles)
          BY <1>5 DEF CoreInv
        <4> QED BY <1>6, <1>10, <3>1, <4>1, Start, Counted
      <3> QED BY <1>10, <3>2, Start
    <2>3. /\ CoreRest(f, Handles, 0) /\ CombInv(f, 0) /\ Keeps(e, f) /\ f.cn = e.cn
          /\ f.shFree = Append(e.shFree, in)
          /\ \A x \in Slot : f.sh[x].comb = e.sh[x].comb \/ f.sh[x].comb = NoComb
      BY <1>5, <1>10, <2>1, Start, TwiceCore
    <2>4. /\ ~ IsInjective(f.shFree)
          /\ \A i, j \in DOMAIN f.shFree : f.shFree[i] = f.shFree[j] => i = j \/ f.shFree[i] = in
      <3>1. e.shFree \in Seq(Slot) /\ IsInjective(e.shFree)
        BY <1>5, <1>6, HeapFields DEF CoreInv, SlotsOK
      <3>2. PICK q : q = e.shFree
        OBVIOUS
      <3>3. PICK p : p = f.shFree
        OBVIOUS
      <3>4. q \in Seq(Slot) /\ IsInjective(q) /\ in \in Range(q) /\ p = Append(q, in)
        BY <2>1, <2>3, <3>1, <3>2, <3>3
      <3>5. OnlyTwice(p, in)
        BY <1>10, <3>4, Twice
      <3> QED BY <3>3, <3>5 DEF OnlyTwice
    <2>5. crashed' = TRUE /\ early' = early
      BY <1>6, <2>4 DEF Ended
    <2>6. FreedOK'
      BY <1>6, <2>2, <2>4, <2>5 DEF FreedOK
    <2>7. \A x \in Slot : held'[x] = "promise" => f.sh[x].comb.kind = "None"
      BY <1>8, <2>3, NoCombOK
    <2>8. StateInv'
      BY <1>6, <1>9, <2>5, <2>7, Start DEF StateInv
    <2>9. ReadersOK'
      <3>1. InputsHeld(f) /\ f \in Heap
        BY <1>12, <2>3 DEF InputsHeld, LiveIn, CoreRest
      <3> QED BY <1>6, <2>5, <3>1, Readers
    <2>10. IInv'
      BY <1>6, <1>9, <2>3, <2>6, <2>8, <2>9, FinishRest
    <2>11. KeepsFates(heap, f)
      BY <1>7, <2>3, KeepsTrans
    <2> QED BY <1>6, <2>10, <2>11
  <1> QED BY <1>5, <1>13, <1>14

\* ExecuteCont up to the user's procedure, or to its end.
LEMMA ExecuteStep ==
  ASSUME Sound, ExecuteCont
  PROVE  IInv' /\ KeepsFates(heap, heap')
  <1>1. PICK c : c = Head(heap.queue)
    OBVIOUS
  <1>2. PICK h : h = [heap EXCEPT !.queue = Tail(@)]
    OBVIOUS
  <1>3. PICK k : k = heap.cn[c]
    OBVIOUS
  <1>4. PICK v : v = heap.sh[k.in].res
    OBVIOUS
  <1>5. /\ frame = NoFrame /\ heap.queue # << >> /\ limit' = limit /\ held' = held
        /\ IF CallsUser(c, v)
           THEN /\ heap' = h /\ frame' = [cont |-> c, in |-> k.in, out |-> k.out, res |-> v]
                /\ early' = early /\ crashed' = crashed
           ELSE /\ heap' = EndCont(CASE k.kind = "Catch" -> SettleWith(h, k.out, v)
                                     [] k.kind = "All" -> HandleAll(h, c, v)
                                     [] k.kind = "Race" -> HandleRace(h, c, v), c, k.in, k.out)
                /\ frame' = frame /\ Ended
    BY <1>1, <1>2, <1>3, <1>4 DEF ExecuteCont
  <1>6. CoreInv(heap, Handles, {}, 0)
    BY <1>5, Start
  <1>7. CoreInv(h, Handles, {}, c) /\ Keeps(heap, h) /\ c \in LiveIn(heap) /\ h.sh = heap.sh /\ h.cn = heap.cn /\ CombInv(h, 0)
    BY <1>1, <1>2, <1>5, <1>6, Start, DequeueCore
  <1>8. /\ c \in Cont /\ c \in LiveIn(h) /\ k \in ContRec /\ k.in \in Slot /\ k.out \in Slot /\ k.kind \in Kind /\ v \in Result
    BY <1>3, <1>4, <1>7, Start, HeapFields DEF LiveIn
  <1>9. CASE CallsUser(c, v)
    <2>1. /\ heap' = h /\ frame' = [cont |-> c, in |-> k.in, out |-> k.out, res |-> v]
          /\ early' = early /\ crashed' = crashed
      BY <1>5, <1>9
    <2>2. k.kind \in {"Then", "Catch", "Finally"}
      BY <1>3, <1>9 DEF CallsUser
    <2>3. frame'.cont = c /\ frame'.in = k.in /\ frame'.out = k.out
      BY <2>1
    <2>4. frame' \in [cont : Cont, in : Slot, out : Slot, res : Result]
      BY <1>8, <2>1
    <2>5. LiveIn(heap)' = LiveIn(h) /\ heap'.cn[c] = k
      BY <1>3, <1>7, <2>1 DEF LiveIn
    <2>6. FrameOK'
      BY <1>8, <2>2, <2>3, <2>4, <2>5 DEF FrameOK
    <2>7. Handles' = Handles
      BY <1>5 DEF Handles
    <2>8. StateInv'
      BY <1>5, <1>7, <2>1, <2>6, Start DEF StateInv
    <2>9. ReadersOK'
      <3>1. h \in Heap
        BY <1>7 DEF CoreInv
      <3> QED BY <1>5, <1>7, <2>1, <3>1, SameReaders
    <2>10. IInv'
      BY <1>5, <1>7, <2>1, <2>3, <2>7, <2>8, <2>9, Finish
    <2> QED BY <1>7, <2>1, <2>10 DEF Keeps
  <1>10. CASE ~ CallsUser(c, v)
    <2>1. PICK g : g = (CASE k.kind = "Catch" -> SettleWith(h, k.out, v)
                          [] k.kind = "All" -> HandleAll(h, c, v)
                          [] k.kind = "Race" -> HandleRace(h, c, v))
      OBVIOUS
    <2>2. PICK out : out = k.out
      OBVIOUS
    <2>3. PICK in : in = k.in
      OBVIOUS
    <2>4. heap' = EndCont(g, c, in, out) /\ frame' = NoFrame /\ Ended
      BY <1>5, <1>10, <2>1, <2>2, <2>3
    <2>5. h.cn[c] = k /\ out = h.cn[c].out /\ in = h.cn[c].in
      BY <1>3, <1>7, <2>2, <2>3
    <2>6. k.kind \in {"Catch", "All", "Race"}
      BY <1>3, <1>8, <1>10 DEF CallsUser, Kind
    <2>7. Reported(h, g, c, Handles, {}, out)
      <3>1. CASE k.kind = "Catch"
        <4>1. g = SettleWith(h, out, v)
          BY <2>1, <2>2, <3>1
        <4>2. h.cn[c].kind \in {"Then", "Catch", "Finally"}
          BY <2>5, <3>1
        <4> QED BY <1>7, <1>8, <2>5, <4>1, <4>2, Start, PlainReport
      <3>2. CASE k.kind = "All"
        <4>1. g = HandleAll(h, c, v)
          BY <2>1, <3>2
        <4> QED BY <1>7, <1>8, <2>5, <3>2, <4>1, Start, AllReport
      <3>3. CASE k.kind = "Race"
        <4>1. g = HandleRace(h, c, v)
          BY <2>1, <3>3
        <4> QED BY <1>7, <1>8, <2>5, <3>3, <4>1, Start, RaceReport
      <3> QED BY <2>6, <3>1, <3>2, <3>3
    <2>8. KeepsFates(heap, h)
      BY <1>7 DEF Keeps
    <2> QED BY <1>5, <1>7, <1>8, <2>4, <2>5, <2>7, <2>8, EndStep
  <1> QED BY <1>9, <1>10

\* ExecuteCont from the return of the user's procedure.
LEMMA ReturnStep ==
  ASSUME Sound, NEW r \in Result, UserReturn(r)
  PROVE  IInv' /\ KeepsFates(heap, heap')
  <1>1. PICK v : v = IF heap.cn[frame.cont].kind = "Finally" THEN frame.res ELSE r
    OBVIOUS
  <1>2. PICK c : c = frame.cont
    OBVIOUS
  <1>3. PICK out : out = frame.out
    OBVIOUS
  <1>4. PICK in : in = frame.in
    OBVIOUS
  <1>5. PICK g : g = SettleWith(heap, out, v)
    OBVIOUS
  <1>6. /\ frame # NoFrame /\ heap' = EndCont(g, c, in, out)
        /\ frame' = NoFrame /\ limit' = limit /\ held' = held /\ Ended
    BY <1>1, <1>2, <1>3, <1>4, <1>5 DEF UserReturn
  <1>7. /\ frame \in [cont : Cont, in : Slot, out : Slot, res : Result] /\ c \in LiveIn(heap)
        /\ heap.cn[c].in = in /\ heap.cn[c].out = out
        /\ heap.cn[c].kind \in {"Then", "Catch", "Finally"}
    BY <1>2, <1>3, <1>4, <1>6 DEF Sound, IInv, StateInv, FrameOK
  <1>8. v \in Result
    BY <1>1, <1>7
  <1>9. CoreInv(heap, Handles, {}, c) /\ KeepsFates(heap, heap)
    BY <1>2, Start DEF KeepsFates
  <1>10. Reported(heap, g, c, Handles, {}, out)
    BY <1>5, <1>7, <1>8, <1>9, Start, PlainReport
  <1> QED BY <1>6, <1>7, <1>9, <1>10, EndStep

\* A free list at the start: every index once.
LEMMA Identity ==
  ASSUME NEW n \in Nat, NEW q, q = [i \in 1 .. n |-> i]
  PROVE  q \in Seq(1 .. n) /\ IsInjective(q) /\ Range(q) = 1 .. n
  <1>1. q \in [1 .. n -> 1 .. n] /\ DOMAIN q = 1 .. n /\ \A i \in 1 .. n : q[i] = i
    OBVIOUS
  <1>2. q \in Seq(1 .. n)
    BY <1>1
  <1>3. IsInjective(q)
    BY <1>1 DEF IsInjective
  <1>4. Range(q) = 1 .. n
    BY <1>1 DEF Range
  <1> QED BY <1>2, <1>3, <1>4

\* InitPools establishes the invariant.
LEMMA InitInv ==
  ASSUME Init
  PROVE  IInv
  <1>1. PICK r : r = Shared("Pending", "err", 0)
    OBVIOUS
  <1>2. /\ r \in SharedRec /\ r.fate = "Pending" /\ r.conts = << >> /\ r.ref = 0 /\ r.comb = NoComb
    BY <1>1, SharedFresh DEF Fate, Result
  <1>3. PICK a : a = [s \in Slot |-> r]
    OBVIOUS
  <1>4. PICK b : b = [c \in Cont |-> NoCont]
    OBVIOUS
  <1>5. PICK p : p = [i \in Slot |-> i]
    OBVIOUS
  <1>6. PICK q : q = [i \in Cont |-> i]
    OBVIOUS
  <1>7. heap = [sh |-> a, shFree |-> p, cn |-> b, cnFree |-> q, queue |-> << >>]
    BY <1>1, <1>3, <1>4, <1>5, <1>6 DEF Init
  <1>8. p \in Seq(Slot) /\ IsInjective(p) /\ Range(p) = Slot
    BY <1>5, Pools, Identity DEF Slot
  <1>9. q \in Seq(Cont) /\ IsInjective(q) /\ Range(q) = Cont
    BY <1>6, Pools, Identity DEF Cont
  <1>10. a \in [Slot -> SharedRec] /\ b \in [Cont -> ContRec \cup {NoCont}] /\ << >> \in Seq(Cont)
    BY <1>2, <1>3, <1>4
  <1>11. heap \in Heap
    BY <1>7, <1>8, <1>9, <1>10 DEF Heap
  <1>12. /\ heap.sh = a /\ heap.cn = b /\ heap.shFree = p /\ heap.cnFree = q /\ heap.queue = << >>
    BY <1>7
  <1>13. \A s \in Slot : heap.sh[s] = r
    BY <1>3, <1>12
  <1>14. LiveIn(heap) = {} /\ \A s : Refs(heap, s) = {}
    BY <1>4, <1>12 DEF LiveIn, Refs
  <1>15. held = [s \in Slot |-> "none"] /\ frame = NoFrame /\ limit \in Limits
         /\ crashed = FALSE /\ early = {}
    BY DEF Init
  <1>16. \A s \in Slot : Handles[s] = 0
    BY <1>15 DEF Handles
  <1>17. RefsOK(heap, Handles)
    <2>1. \A s : Cardinality(Refs(heap, s)) = 0
      BY <1>14, FS_EmptySet
    <2>2. \A s \in Slot : heap.sh[s].ref = 0
      BY <1>2, <1>13
    <2> QED BY <1>16, <2>1, <2>2 DEF RefsOK
  <1>18. ReadersOK
    BY <1>14, <1>15 DEF ReadersOK, InputsHeld
  <1>19. /\ \A s \in Slot : s \in Range(heap.shFree) <=> Reclaimable(heap.sh[s])
         /\ \A s \in Slot : s \in Range(heap.shFree) => heap.sh[s].fate = "Pending"
    BY <1>2, <1>8, <1>12, <1>13 DEF Reclaimable
  <1>20. ContsOK(heap, {})
    BY <1>9, <1>12, <1>14 DEF ContsOK
  <1>21. Range(<< >>) = {} /\ IsInjective(<< >>) /\ Len(<< >>) = 0
    BY DEF Range, IsInjective
  <1>22. limit \in Nat
    BY <1>15, Pools
  <1>23. QueueOK(heap, 0)
    BY <1>12, <1>21, <1>22 DEF QueueOK
  <1>24. PlacedOK(heap, 0)
    BY <1>14 DEF PlacedOK
  <1>25. \A s \in Slot : LinkOK(heap, 0, s)
    BY <1>2, <1>13, <1>21 DEF LinkOK
  <1>26. frame.cont = 0
    BY <1>15 DEF NoFrame
  <1>27. CoreRest(heap, Handles, frame.cont)
    BY <1>11, <1>17, <1>19, <1>20, <1>23, <1>24, <1>25, <1>26 DEF CoreRest, PlacesOK
  <1>28. CombInv(heap, 0)
    BY <1>2, <1>13, <1>14, NoCombOK DEF CombInv
  <1>29. StateInv
    BY <1>15 DEF StateInv, FrameOK
  <1>30. FreedOK
    BY <1>8, <1>12 DEF FreedOK, IsInjective
  <1> QED BY <1>18, <1>27, <1>28, <1>29, <1>30 DEF IInv

\* The operations, one by one.
LEMMA EveryStep ==
  ASSUME IInv, Next
  PROVE  IInv' /\ KeepsFates(heap, heap')
  <1>0. Sound
    <2>1. ~ crashed
      BY DEF Next, PromiseCreate, PromiseRelease, Resolve, Reject, Settle, Map, OnReject, OnSettle, Chain,
             All, Race, Combine, ExecuteCont, UserReturn
    <2> QED BY <2>1 DEF Sound
  <1>1. ASSUME NEW s \in Slot, PromiseRelease(s) \/ Resolve(s) \/ Reject(s)
        PROVE  IInv' /\ KeepsFates(heap, heap')
    <2>1. "ok" \in Result /\ "err" \in Result
      BY DEF Result
    <2> QED BY <1>0, <1>1, <2>1, ReleaseStep, SettleStep DEF Resolve, Reject
  <1>2. ASSUME NEW s \in Slot, Map(s) \/ OnReject(s) \/ OnSettle(s)
        PROVE  IInv' /\ KeepsFates(heap, heap')
    BY <1>0, <1>2, ChainStep DEF Map, OnReject, OnSettle
  <1>3. ASSUME NEW n \in 1 .. MaxAllSize, NEW fs \in [1 .. n -> Slot], All(fs) \/ Race(fs)
        PROVE  IInv' /\ KeepsFates(heap, heap')
    <2>1. Len(fs) = n
      BY Pools
    <2>2. CASE All(fs)
      <3>1. Combine("All", AllState(n), fs)
        BY <2>1, <2>2 DEF All
      <3>2. Combiner("All", AllState(n), n)
        BY DEF Combiner
      <3> QED BY <1>0, <3>1, <3>2, CombineStep
    <2>3. CASE Race(fs)
      <3>1. Combiner("Race", RaceState, n)
        BY DEF Combiner
      <3> QED BY <1>0, <2>3, <3>1, CombineStep DEF Race
    <2> QED BY <1>3, <2>2, <2>3
  <1>4. ASSUME NEW r \in Result, UserReturn(r)
        PROVE  IInv' /\ KeepsFates(heap, heap')
    BY <1>0, <1>4, ReturnStep
  <1> QED BY <1>0, <1>1, <1>2, <1>3, <1>4, CreateStep, ExecuteStep DEF Next

\* For every client, one that releases a future under its continuations
\* included, the invariant is inductive: every operation of Promise.mod
\* preserves it.
THEOREM InvInductive == IInv /\ [Next]_vars => IInv'
  <1> SUFFICES ASSUME IInv, [Next]_vars PROVE IInv'
    OBVIOUS
  <1>1. CASE Next
    BY <1>1, EveryStep
  <1>2. CASE UNCHANGED vars
    <2>1. heap' = heap /\ limit' = limit /\ held' = held /\ frame' = frame /\ early' = early /\ crashed' = crashed
      BY <1>2 DEF vars
    <2>2. Handles' = Handles
      BY <2>1 DEF Handles
    <2>3. Stays(heap, heap')
      BY <2>1 DEF Stays
    <2>4. FrameOK'
      BY <2>1, <2>3, FrameStays
    <2>5. StateInv'
      BY <2>1, <2>4, Always DEF StateInv
    <2>6. ReadersOK' /\ FreedOK'
      BY <2>1 DEF IInv, ReadersOK, InputsHeld, LiveIn, Handle, FreedOK
    <2> QED BY <2>1, <2>2, <2>5, <2>6, Always, FinishRest
  <1> QED BY <1>1, <1>2

\* What the invariant says of the runs' properties.
LEMMA LiveContinuations ==
  /\ LiveIn(heap) = {c \in Cont : Live(c)}
  /\ \A s : Refs(heap, s) = {c \in Cont : Live(c) /\ heap.cn[c].out = s}
  BY DEF LiveIn, Refs, Live

\* A slot of the pool has no reference, and its readers were released early.
LEMMA NothingDangles ==
  ASSUME IInv
  PROVE  NoDangling
  <1>1. \A s \in Slot : s \in Range(heap.shFree) => heap.sh[s].ref = 0
    BY Always DEF CoreRest, Reclaimable
  <1>2. heap.shFree \in Seq(Slot)
    BY Always, HeapFields
  <1>3. ASSUME NEW s \in Range(heap.shFree)
        PROVE  /\ ~ Handle(s)
               /\ \A c \in Cont : Live(c) => heap.cn[c].out # s /\ (heap.cn[c].in = s => s \in early)
    <2>1. s \in Slot
      BY <1>2, SeqElements
    <2>2. heap.sh[s].ref = 0
      BY <1>1, <1>3, <2>1
    <2>3. Handles[s] = 0 /\ Refs(heap, s) = {}
      BY <2>1, <2>2, Always, Counted
    <2>4. ~ Handle(s)
      BY <2>1, <2>3, Always
    <2>5. ASSUME NEW c \in Cont, Live(c) PROVE heap.cn[c].out # s /\ (heap.cn[c].in = s => s \in early)
      <3>1. c \in LiveIn(heap)
        BY <2>5, LiveContinuations
      <3>2. heap.cn[c].in = s => s \in early
        BY <2>4, <3>1, Always DEF InputsHeld
      <3>3. heap.cn[c].out # s
        BY <2>3, <3>1 DEF Refs
      <3> QED BY <3>2, <3>3
    <2> QED BY <2>4, <2>5
  <1>4. \A k, l \in DOMAIN heap.shFree :
          heap.shFree[k] = heap.shFree[l] => k = l \/ heap.shFree[k] \in early
    BY DEF IInv, FreedOK
  <1> QED BY <1>3, <1>4 DEF NoDangling

\* The counts are those of the invariant; the free lists hold the rest.
LEMMA CountsExact ==
  ASSUME IInv
  PROVE  RefInv
  <1>1. RefExact
    <2>1. \A s \in Slot : heap.sh[s].ref = Cardinality(Refs(heap, s)) + Handles[s]
      BY Always DEF RefsOK
    <2>2. \A s \in Slot : Handles[s] = IF Handle(s) THEN 1 ELSE 0
      BY Always
    <2>3. \A s \in Slot : heap.sh[s].ref = Cardinality(Refs(heap, s)) + (IF Handle(s) THEN 1 ELSE 0)
      BY <2>1, <2>2
    <2> QED BY <2>3, LiveContinuations DEF RefExact
  <1>2. \A s \in Slot : s \in Range(heap.shFree) <=> heap.sh[s].ref = 0 /\ heap.sh[s].conts = << >>
    BY Always DEF CoreRest, Reclaimable
  <1>3. \A c \in Cont : c \in LiveIn(heap) <=> c \notin Range(heap.cnFree) /\ c \notin {}
    BY Always DEF CoreRest, ContsOK
  <1>4. \A c \in Cont : Live(c) <=> c \notin Range(heap.cnFree)
    BY <1>3, LiveContinuations
  <1>5. NoLeak
    BY <1>2, <1>4 DEF NoLeak
  <1> QED BY <1>1, <1>5 DEF RefInv

\* A sequence over S, as TypeOK states it.
LEMMA ListTyped ==
  ASSUME NEW S, NEW q \in Seq(S)
  PROVE  IsSeqOf(q, S)
  <1>1. DOMAIN q = 1 .. Len(q) /\ \A x \in Range(q) : x \in S
    BY SeqElements
  <1> QED BY <1>1 DEF IsSeqOf

\* A state of a combiner, as TypeOK states it.
LEMMA CombTyped ==
  ASSUME NEW st \in CombRec
  PROVE  IsComb(st)
  <1>1. CASE st = NoComb
    BY <1>1, NoCombOK DEF IsComb
  <1>2. CASE st \in [kind : {"Race"}, settled : BOOLEAN, first : Result \cup {"unset"}]
    <2>1. st.kind = "Race"
      BY <1>2
    <2>2. st.settled \in BOOLEAN /\ st.first \in Result \cup {"unset"}
      BY <1>2
    <2> QED BY <2>1, <2>2 DEF IsComb
  <1>3. CASE st.kind = "All"
    BY <1>3, AllFields DEF IsComb
  <1>4. st = NoComb \/ st \in [kind : {"Race"}, settled : BOOLEAN, first : Result \cup {"unset"}] \/ st.kind = "All"
    BY DEF CombRec
  <1> QED BY <1>1, <1>2, <1>3, <1>4

\* The invariant implies the type invariant.
LEMMA Typed ==
  ASSUME IInv
  PROVE  TypeOK
  <1>1. /\ heap \in Heap
        /\ heap.shFree \in Seq(Slot) /\ heap.cnFree \in Seq(Cont) /\ heap.queue \in Seq(Cont)
    BY Always, HeapFields
  <1>2. ASSUME NEW s \in Slot
        PROVE  LET sh == heap.sh[s] IN
               /\ sh.fate \in Fate /\ sh.res \in Result /\ sh.ref \in 0 .. Conts + 1
               /\ IsSeqOf(sh.conts, Cont) /\ IsComb(sh.comb)
    <2>1. /\ heap.sh[s].fate \in Fate /\ heap.sh[s].res \in Result
          /\ heap.sh[s].conts \in Seq(Cont) /\ heap.sh[s].comb \in CombRec
      BY <1>1, HeapFields
    <2>2. heap.sh[s].ref = Cardinality(Refs(heap, s)) + Handles[s]
      BY Always DEF RefsOK
    <2>3. Handles[s] \in {0, 1}
      BY Always
    <2>4. Cardinality(Refs(heap, s)) \in Nat /\ Cardinality(Refs(heap, s)) <= Conts /\ Conts \in Nat
      BY RefsFinite, Pools
    <2>5. heap.sh[s].ref \in 0 .. Conts + 1
      BY <2>2, <2>3, <2>4
    <2>6. IsSeqOf(heap.sh[s].conts, Cont)
      BY <2>1, ListTyped
    <2>7. IsComb(heap.sh[s].comb)
      BY <2>1, CombTyped
    <2> QED BY <2>1, <2>5, <2>6, <2>7
  <1>4. \A c \in Cont : Live(c) =>
          heap.cn[c].kind \in Kind /\ heap.cn[c].in \in Slot /\ heap.cn[c].out \in Slot /\ heap.cn[c].idx \in 1 .. MaxAllSize
    BY <1>1, HeapFields, LiveContinuations
  <1>5. IsSeqOf(heap.shFree, Slot)
    BY <1>1, ListTyped
  <1>6. IsSeqOf(heap.cnFree, Cont)
    BY <1>1, ListTyped
  <1>7. IsSeqOf(heap.queue, Cont)
    BY <1>1, ListTyped
  <1>8. Len(heap.queue) <= limit
    BY Always DEF CoreRest, PlacesOK, QueueOK
  <1>9. frame # NoFrame => frame.cont \in Cont /\ frame.in \in Slot /\ frame.out \in Slot /\ frame.res \in Result
    BY DEF IInv, StateInv, FrameOK
  <1> QED BY <1>2, <1>4, <1>5, <1>6, <1>7, <1>8, <1>9, Always DEF TypeOK

\* Queue, link and call in progress are exclusive, and one of them has it.
LEMMA EachInPlace ==
  ASSUME IInv
  PROVE  OnePlace /\ DueIsQueued
  <1>1. /\ heap \in Heap /\ QueueOK(heap, frame.cont) /\ PlacedOK(heap, frame.cont)
        /\ \A s \in Slot : LinkOK(heap, frame.cont, s)
    BY Always DEF CoreRest, PlacesOK
  <1> SUFFICES ASSUME NEW c \in Cont, Live(c)
               PROVE  /\ Cardinality({i \in DOMAIN heap.queue : heap.queue[i] = c})
                         + Cardinality({i \in DOMAIN heap.sh[heap.cn[c].in].conts :
                                          heap.sh[heap.cn[c].in].conts[i] = c})
                         + (IF frame.cont = c THEN 1 ELSE 0) = 1
                      /\ limit >= Conts /\ heap.sh[heap.cn[c].in].fate # "Pending" =>
                           c \in Range(heap.queue) \/ frame.cont = c
    BY DEF OnePlace, DueIsQueued
  <1>2. c \in LiveIn(heap)
    BY LiveContinuations
  <1>3. PICK s : s = heap.cn[c].in
    OBVIOUS
  <1>4. PICK q : q = heap.queue
    OBVIOUS
  <1>5. PICK l : l = heap.sh[s].conts
    OBVIOUS
  <1>6. s \in Slot /\ q \in Seq(Cont) /\ l \in Seq(Cont)
    BY <1>1, <1>2, <1>3, <1>4, <1>5, HeapFields
  <1>7. IsInjective(q) /\ (c \in Range(q) => c # frame.cont)
    BY <1>1, <1>4 DEF QueueOK
  <1>8. /\ IsInjective(l) /\ (c \in Range(l) => c \notin Range(q) /\ c # frame.cont)
        /\ limit >= Conts /\ heap.sh[s].fate # "Pending" => l = << >>
    BY <1>1, <1>4, <1>5, <1>6 DEF LinkOK
  <1>9. c \in Range(q) \/ c \in Range(l) \/ c = frame.cont
    BY <1>1, <1>2, <1>3, <1>4, <1>5 DEF PlacedOK
  <1>10. PICK m : m = Cardinality({i \in DOMAIN q : q[i] = c})
    OBVIOUS
  <1>11. PICK n : n = Cardinality({i \in DOMAIN l : l[i] = c})
    OBVIOUS
  <1>12. m = IF c \in Range(q) THEN 1 ELSE 0
    BY <1>6, <1>7, <1>10, PlaceCount
  <1>13. n = IF c \in Range(l) THEN 1 ELSE 0
    BY <1>6, <1>8, <1>11, PlaceCount
  <1>14. m + n + (IF frame.cont = c THEN 1 ELSE 0) = 1
    BY <1>7, <1>8, <1>9, <1>12, <1>13
  <1>15. l = << >> => c \notin Range(l)
    BY DEF Range
  <1> QED BY <1>3, <1>4, <1>5, <1>8, <1>9, <1>10, <1>11, <1>14, <1>15

\* When all are counted every result is in place.
LEMMA CombinersHold ==
  ASSUME IInv
  PROVE  CombinersSound
  <1> SUFFICES ASSUME NEW s \in Slot
               PROVE  LET sh == heap.sh[s] IN
                      /\ sh.comb.kind = "All" /\ sh.fate = "Fulfilled" =>
                           \A i \in DOMAIN sh.comb.results : IsOk(sh.comb.results[i])
                      /\ sh.comb.kind = "All" /\ sh.fate = "Rejected" => sh.comb.failed /\ ~ IsOk(sh.res)
                      /\ sh.comb.kind = "Race" =>
                           /\ sh.fate # "Pending" <=> sh.comb.first # "unset"
                           /\ sh.fate # "Pending" => sh.res = sh.comb.first /\ sh.fate = FateOf(sh.comb.first)
    BY DEF CombinersSound
  <1>1. PICK st : st = heap.sh[s].comb
    OBVIOUS
  <1>2. PICK fate : fate = heap.sh[s].fate
    OBVIOUS
  <1>0. PICK res : res = heap.sh[s].res
    OBVIOUS
  <1>3. st \in CombRec /\ CombOK(fate, res, st)
    BY <1>0, <1>1, <1>2, Always, HeapFields DEF CombInv
  <1>4. /\ st.kind = "All" /\ fate = "Rejected" => st.failed /\ ~ IsOk(res)
        /\ st.kind = "Race" => /\ fate # "Pending" <=> st.first # "unset"
                               /\ fate # "Pending" => res = st.first /\ fate = FateOf(st.first)
    BY <1>3 DEF CombOK
  <1>5. ASSUME st.kind = "All", fate = "Fulfilled" PROVE \A i \in DOMAIN st.results : IsOk(st.results[i])
    <2>1. PICK n : n = st.total
      OBVIOUS
    <2>2. PICK A : A = {i \in 1 .. n : st.results[i] = "ok"}
      OBVIOUS
    <2>3. n = Cardinality(A)
      BY <1>3, <1>5, <2>1, <2>2 DEF CombOK
    <2>4. n \in Nat /\ DOMAIN st.results = 1 .. n
      BY <1>3, <1>5, <2>1, AllFields
    <2>5. IsFiniteSet(1 .. n) /\ Cardinality(1 .. n) = n
      BY <2>4, FS_Interval
    <2>6. A = 1 .. n
      <3>1. A \subseteq 1 .. n
        BY <2>2
      <3> QED BY <2>3, <2>5, <3>1, FS_Subset
    <2> QED BY <2>2, <2>4, <2>6 DEF IsOk
  <1> QED BY <1>0, <1>1, <1>2, <1>4, <1>5
-----------------------------------------------------------------------------
(* The theorems.                                                           *)

\* For any client, pools and queue: every reachable state of the module
\* satisfies IInv.
THEOREM AlwaysInv == Spec => []IInv
  <1>1. Init => IInv
    BY InitInv
  <1>2. IInv /\ [Next]_vars => IInv'
    BY InvInductive
  <1> QED BY <1>1, <1>2, PTL DEF Spec

\* Promise.def, "The underlying state is freed when all references (external
\* handles + continuations) are released": a slot in the pool is there once and
\* nothing refers to it, but for the slots that a client released while
\* continuations were to read them, which hold no reference on their input.
THEOREM SlotsSafe == Spec => []NoDangling
  <1>1. Spec => []IInv
    BY AlwaysInv
  <1>2. IInv => NoDangling
    BY NothingDangles
  <1> QED BY <1>1, <1>2, PTL

\* refCount is exact and neither pool leaks, also after each way Map, All and
\* Race can fail (Release, TryReclaim and the cleanups of All).
THEOREM CountsSafe == Spec => []RefInv
  <1>1. Spec => []IInv
    BY AlwaysInv
  <1>2. IInv => RefInv
    BY CountsExact
  <1> QED BY <1>1, <1>2, PTL

\* No continuation is lost and none runs twice: each is linked, queued or
\* running, once, and a queue with room for all never leaves one linked to a
\* settled future (SettleWith, AppendCont and DrainConts).
THEOREM ContinuationsSafe == Spec => []ContInv
  <1>1. Spec => []IInv
    BY AlwaysInv
  <1>2. IInv => ContInv
    BY Typed, EachInPlace DEF ContInv
  <1> QED BY <1>1, <1>2, PTL

\* All fulfils only with every result in place and rejects with an error, Race
\* has the first result delivered to it (HandleAll and HandleRace), for any number of futures joined, a future
\* joined several times included.
THEOREM CombinersSafe == Spec => []CombinersSound
  <1>1. Spec => []IInv
    BY AlwaysInv
  <1>2. IInv => CombinersSound
    BY CombinersHold
  <1> QED BY <1>1, <1>2, PTL

\* A settled future keeps its fate and its result until its slot is
\* reclaimed: no operation settles it again (the guard of SettleWith).
THEOREM FatesFinal == Spec => SettledOnce
  <1> DEFINE Final == \A s \in Slot :
                        heap.sh[s].fate # "Pending" /\ s \notin Range(heap'.shFree) =>
                          heap'.sh[s].fate = heap.sh[s].fate /\ heap'.sh[s].res = heap.sh[s].res
  <1>1. Spec => []IInv
    BY AlwaysInv
  <1>2. IInv /\ [Next]_vars => [Final]_vars
    <2> SUFFICES ASSUME IInv, Next PROVE Final
      OBVIOUS
    <2>1. KeepsFates(heap, heap')
      BY EveryStep
    <2> QED BY <2>1 DEF KeepsFates
  <1>3. Init /\ [][Next]_vars => [][Final]_vars
    BY <1>1, <1>2, PTL DEF Spec
  <1> QED BY <1>3 DEF Spec, SettledOnce
=============================================================================
