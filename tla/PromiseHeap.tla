----------------------------- MODULE PromiseHeap ----------------------------
(***************************************************************************)
(* What the internal procedures of Promise keep, as lemmas about a heap.   *)
(*                                                                         *)
(* The procedures are functions from a heap to a heap and an operation     *)
(* composes several of them, so the invariant is stated of a heap in the   *)
(* middle of an operation:                                                 *)
(*   ext  - for every slot the references that are no continuation's:      *)
(*          handles, and references an operation is about to drop;         *)
(*   hand - the continuations an operation has taken from the pool and not *)
(*          yet attached;                                                  *)
(*   run  - the continuation being run, 0 for none.                        *)
(***************************************************************************)
EXTENDS Promise, DataLemmas

CombRec ==
  {NoComb} \cup [kind : {"Race"}, settled : BOOLEAN, first : Result \cup {"unset"}]
  \cup UNION {[kind : {"All"}, total : {n}, done : 0 .. n, failed : BOOLEAN,
               results : [1 .. n -> Result \cup {"unset"}]] : n \in 1 .. MaxAllSize}
SharedRec == [fate : Fate, res : Result, conts : Seq(Cont), ref : Nat, comb : CombRec]
ContRec == [kind : Kind, in : Slot, out : Slot, idx : 1 .. MaxAllSize]
Heap == [sh : [Slot -> SharedRec], shFree : Seq(Slot), cn : [Cont -> ContRec \cup {NoCont}],
         cnFree : Seq(Cont), queue : Seq(Cont)]

LiveIn(h) == {c \in Cont : h.cn[c] # NoCont}
Refs(h, s) == {c \in LiveIn(h) : h.cn[c].out = s}

\* Exact counts: the continuations that settle the slot, and the rest.
RefsOK(h, ext) == \A s \in Slot : h.sh[s].ref = Cardinality(Refs(h, s)) + ext[s]

\* Every continuation reads from a slot that a client holds, or released early.
InputsHeld(h) == \A c \in LiveIn(h) : Handle(h.cn[c].in) \/ h.cn[c].in \in early

\* The free lists hold what nobody refers to and nothing is linked to, each
\* once; a free slot is pending.
SlotsOK(h) ==
  /\ IsInjective(h.shFree)
  /\ \A s \in Slot : s \in Range(h.shFree) <=> Reclaimable(h.sh[s])
  /\ \A s \in Slot : s \in Range(h.shFree) => h.sh[s].fate = "Pending"
ContsOK(h, hand) ==
  /\ IsInjective(h.cnFree) /\ hand \subseteq Cont \ Range(h.cnFree)
  /\ \A c \in Cont : c \in LiveIn(h) <=> c \notin Range(h.cnFree) /\ c \notin hand

\* A live continuation is queued, linked to its input or running: one of the
\* three, and once.  With room for all of them none is linked to a settled slot.
QueueOK(h, run) ==
  /\ IsInjective(h.queue) /\ Len(h.queue) <= limit
  /\ \A c \in Range(h.queue) : c \in LiveIn(h) /\ c # run
LinkOK(h, run, s) ==
  /\ IsInjective(h.sh[s].conts)
  /\ \A c \in Range(h.sh[s].conts) :
       c \in LiveIn(h) /\ h.cn[c].in = s /\ c \notin Range(h.queue) /\ c # run
  /\ limit >= Conts /\ h.sh[s].fate # "Pending" => h.sh[s].conts = << >>
PlacedOK(h, run) ==
  /\ run \in LiveIn(h) \cup {0}
  /\ \A c \in LiveIn(h) : c \in Range(h.queue) \/ c \in Range(h.sh[h.cn[c].in].conts) \/ c = run
PlacesOK(h, run) == QueueOK(h, run) /\ (\A s \in Slot : LinkOK(h, run, s)) /\ PlacedOK(h, run)

CoreInv(h, ext, hand, run) ==
  /\ h \in Heap
  /\ RefsOK(h, ext) /\ SlotsOK(h) /\ ContsOK(h, hand) /\ PlacesOK(h, run)

\* A slot and its combiner's state: All counts the results in place, Race has
\* the first result delivered.
CombOK(fate, res, st) ==
  /\ st.kind = "All" =>
       /\ \A i \in 1 .. st.total : st.results[i] \in {"ok", "unset"}
       /\ st.done = Cardinality({i \in 1 .. st.total : st.results[i] = "ok"})
       /\ fate = "Fulfilled" => st.done = st.total
       /\ fate = "Rejected" => st.failed /\ ~ IsOk(res)
  /\ st.kind = "Race" =>
       /\ fate # "Pending" <=> st.settled
       /\ st.settled <=> st.first # "unset"
       /\ st.settled => res = st.first /\ fate = FateOf(st.first)

\* A continuation and the combiner it reports to: an input that has not
\* reported has no result yet.
ReportsTo(k, st) ==
  /\ k.kind \in {"Then", "Catch", "Finally"} => st.kind = "None"
  /\ k.kind = "All" => st.kind = "All" /\ k.idx \in 1 .. st.total /\ st.results[k.idx] = "unset"
  /\ k.kind = "Race" => st.kind = "Race"

\* The continuation done, if any, has reported and is about to go.
CombInv(h, done) ==
  /\ \A s \in Slot : CombOK(h.sh[s].fate, h.sh[s].res, h.sh[s].comb)
  /\ \A c \in LiveIn(h) \ {done} : ReportsTo(h.cn[c], h.sh[h.cn[c].out].comb)
  /\ \A c, d \in LiveIn(h) :
       h.cn[c].kind = "All" /\ h.cn[c].out = h.cn[d].out /\ h.cn[c].idx = h.cn[d].idx => c = d
-----------------------------------------------------------------------------
(* What the procedures do to the fields of a heap.                         *)

\* The fields of a heap have their types.
LEMMA HeapFields ==
  ASSUME NEW h \in Heap
  PROVE  /\ h.sh \in [Slot -> SharedRec] /\ h.cn \in [Cont -> ContRec \cup {NoCont}]
         /\ h.shFree \in Seq(Slot) /\ h.cnFree \in Seq(Cont) /\ h.queue \in Seq(Cont)
         /\ \A s \in Slot : /\ h.sh[s] \in SharedRec /\ h.sh[s].fate \in Fate /\ h.sh[s].res \in Result
                            /\ h.sh[s].conts \in Seq(Cont) /\ h.sh[s].ref \in Nat /\ h.sh[s].comb \in CombRec
         /\ \A c \in LiveIn(h) : /\ c \in Cont /\ h.cn[c] \in ContRec
                                 /\ h.cn[c].kind \in Kind /\ h.cn[c].in \in Slot /\ h.cn[c].out \in Slot
                                 /\ h.cn[c].idx \in 1 .. MaxAllSize
  <1>1. /\ h.sh \in [Slot -> SharedRec] /\ h.cn \in [Cont -> ContRec \cup {NoCont}]
        /\ h.shFree \in Seq(Slot) /\ h.cnFree \in Seq(Cont) /\ h.queue \in Seq(Cont)
    BY DEF Heap
  <1>2. \A r \in SharedRec : /\ r.fate \in Fate /\ r.res \in Result /\ r.conts \in Seq(Cont)
                             /\ r.ref \in Nat /\ r.comb \in CombRec
    BY DEF SharedRec
  <1>3. \A k \in ContRec : k.kind \in Kind /\ k.in \in Slot /\ k.out \in Slot /\ k.idx \in 1 .. MaxAllSize
    BY DEF ContRec
  <1>4. \A s \in Slot : h.sh[s] \in SharedRec
    BY <1>1
  <1>5. \A c \in LiveIn(h) : c \in Cont /\ h.cn[c] \in ContRec
    BY <1>1 DEF LiveIn
  <1> QED BY <1>1, <1>2, <1>3, <1>4, <1>5

\* One shared state replaced.
LEMMA WithShared ==
  ASSUME NEW h \in Heap, NEW s \in Slot, NEW r \in SharedRec
  PROVE  LET g == [h EXCEPT !.sh[s] = r] IN
         /\ g \in Heap /\ g.cn = h.cn /\ g.shFree = h.shFree /\ g.cnFree = h.cnFree /\ g.queue = h.queue
         /\ g.sh[s] = r /\ \A x \in Slot \ {s} : g.sh[x] = h.sh[x]
  BY DEF Heap

\* One continuation replaced.
LEMMA WithCont ==
  ASSUME NEW h \in Heap, NEW c \in Cont, NEW k \in ContRec \cup {NoCont}
  PROVE  LET g == [h EXCEPT !.cn[c] = k] IN
         /\ g \in Heap /\ g.sh = h.sh /\ g.shFree = h.shFree /\ g.cnFree = h.cnFree /\ g.queue = h.queue
         /\ g.cn[c] = k /\ \A x \in Cont \ {c} : g.cn[x] = h.cn[x]
  BY DEF Heap

\* One of the sequences replaced.
LEMMA WithShFree ==
  ASSUME NEW h \in Heap, NEW q \in Seq(Slot)
  PROVE  LET g == [h EXCEPT !.shFree = q] IN
         /\ g \in Heap /\ g.sh = h.sh /\ g.cn = h.cn /\ g.shFree = q /\ g.cnFree = h.cnFree /\ g.queue = h.queue
  BY DEF Heap

\* The free list of continuations replaced.
LEMMA WithCnFree ==
  ASSUME NEW h \in Heap, NEW q \in Seq(Cont)
  PROVE  LET g == [h EXCEPT !.cnFree = q] IN
         /\ g \in Heap /\ g.sh = h.sh /\ g.cn = h.cn /\ g.shFree = h.shFree /\ g.cnFree = q /\ g.queue = h.queue
  BY DEF Heap

\* The queue replaced.
LEMMA WithQueue ==
  ASSUME NEW h \in Heap, NEW q \in Seq(Cont)
  PROVE  LET g == [h EXCEPT !.queue = q] IN
         /\ g \in Heap /\ g.sh = h.sh /\ g.cn = h.cn /\ g.shFree = h.shFree /\ g.cnFree = h.cnFree /\ g.queue = q
  BY DEF Heap

\* One field of a shared state replaced.
LEMMA SharedUpdates ==
  ASSUME NEW r \in SharedRec
  PROVE  /\ \A n \in Nat :
              LET u == [r EXCEPT !.ref = n] IN
              /\ u \in SharedRec /\ u.ref = n
              /\ u.fate = r.fate /\ u.res = r.res /\ u.conts = r.conts /\ u.comb = r.comb
         /\ \A q \in Seq(Cont) :
              LET u == [r EXCEPT !.conts = q] IN
              /\ u \in SharedRec /\ u.conts = q
              /\ u.fate = r.fate /\ u.res = r.res /\ u.ref = r.ref /\ u.comb = r.comb
         /\ \A st \in CombRec :
              LET u == [r EXCEPT !.comb = st] IN
              /\ u \in SharedRec /\ u.comb = st
              /\ u.fate = r.fate /\ u.res = r.res /\ u.ref = r.ref /\ u.conts = r.conts
         /\ \A f \in Fate : \A v \in Result :
              LET u == [r EXCEPT !.fate = f, !.res = v] IN
              /\ u \in SharedRec /\ u.fate = f /\ u.res = v
              /\ u.conts = r.conts /\ u.ref = r.ref /\ u.comb = r.comb
  BY DEF SharedRec

\* A fresh shared state.
LEMMA SharedFresh ==
  ASSUME NEW f \in Fate, NEW v \in Result, NEW n \in Nat
  PROVE  /\ Shared(f, v, n) \in SharedRec
         /\ Shared(f, v, n).fate = f /\ Shared(f, v, n).res = v /\ Shared(f, v, n).conts = << >>
         /\ Shared(f, v, n).ref = n /\ Shared(f, v, n).comb = NoComb
  <1>1. NoComb \in CombRec
    BY DEF CombRec
  <1> QED BY <1>1 DEF Shared, SharedRec

\* AllocShared takes the last free slot and initialises it.
LEMMA AllocShape ==
  ASSUME NEW h \in Heap, h.shFree # << >>
  PROVE  LET g == AllocShared(h)
             s == NewShared(h) IN
         /\ s \in Slot /\ s \in Range(h.shFree)
         /\ g \in Heap /\ g.cn = h.cn /\ g.shFree = Front(h.shFree) /\ g.cnFree = h.cnFree /\ g.queue = h.queue
         /\ g.sh[s] = Shared("Pending", "err", 1) /\ \A x \in Slot \ {s} : g.sh[x] = h.sh[x]
  <1> DEFINE s == NewShared(h)
  <1>1. h.shFree \in Seq(Slot)
    BY HeapFields
  <1>2. s \in Slot /\ s \in Range(h.shFree) /\ Front(h.shFree) \in Seq(Slot)
    BY <1>1, FrontElements DEF NewShared
  <1> HIDE DEF s
  <1>3. PICK r \in SharedRec : r = Shared("Pending", "err", 1)
    BY SharedFresh DEF Fate, Result
  <1>4. PICK q \in Seq(Slot) : q = Front(h.shFree)
    BY <1>2
  <1>5. PICK g : g = [h EXCEPT !.shFree = q]
    OBVIOUS
  <1>6. g \in Heap /\ g.sh = h.sh /\ g.cn = h.cn /\ g.shFree = q /\ g.cnFree = h.cnFree /\ g.queue = h.queue
    BY <1>5, WithShFree
  <1>7. PICK f : f = AllocShared(h)
    OBVIOUS
  <1>8. f = [g EXCEPT !.sh[s] = r]
    BY <1>3, <1>4, <1>5, <1>7 DEF AllocShared, s
  <1>9. /\ f \in Heap /\ f.cn = g.cn /\ f.shFree = g.shFree /\ f.cnFree = g.cnFree /\ f.queue = g.queue
        /\ f.sh[s] = r /\ \A x \in Slot \ {s} : f.sh[x] = g.sh[x]
    BY <1>2, <1>6, <1>8, WithShared
  <1> QED BY <1>2, <1>3, <1>4, <1>6, <1>7, <1>9 DEF s

\* FreeShared resets a slot and appends it to the free list.
LEMMA FreeSharedShape ==
  ASSUME NEW h \in Heap, NEW s \in Slot
  PROVE  LET g == FreeShared(h, s) IN
         /\ g \in Heap /\ g.cn = h.cn /\ g.shFree = Append(h.shFree, s)
         /\ g.cnFree = h.cnFree /\ g.queue = h.queue
         /\ g.sh[s] = Shared("Pending", h.sh[s].res, 0) /\ \A x \in Slot \ {s} : g.sh[x] = h.sh[x]
  <1>1. h.shFree \in Seq(Slot) /\ h.sh[s].res \in Result /\ h.sh \in [Slot -> SharedRec]
    BY HeapFields
  <1>2. PICK r \in SharedRec : r = Shared("Pending", h.sh[s].res, 0)
    BY <1>1, SharedFresh DEF Fate
  <1>3. PICK q \in Seq(Slot) : q = Append(h.shFree, s)
    BY <1>1, AppendElements
  <1>4. PICK g : g = [h EXCEPT !.sh[s] = r]
    OBVIOUS
  <1>5. /\ g \in Heap /\ g.cn = h.cn /\ g.shFree = h.shFree /\ g.cnFree = h.cnFree /\ g.queue = h.queue
        /\ g.sh[s] = r /\ \A x \in Slot \ {s} : g.sh[x] = h.sh[x]
    BY <1>4, WithShared
  <1>6. PICK f : f = FreeShared(h, s)
    OBVIOUS
  <1>7. f = [g EXCEPT !.shFree = q]
    BY <1>2, <1>3, <1>4, <1>5, <1>6 DEF FreeShared
  <1>8. f \in Heap /\ f.sh = g.sh /\ f.cn = g.cn /\ f.shFree = q /\ f.cnFree = g.cnFree /\ f.queue = g.queue
    BY <1>5, <1>7, WithShFree
  <1> QED BY <1>2, <1>3, <1>5, <1>6, <1>8

\* One reference less.
LEMMA DecShape ==
  ASSUME NEW h \in Heap, NEW s \in Slot, h.sh[s].ref # 0
  PROVE  LET g == [h EXCEPT !.sh[s].ref = @ - 1] IN
         /\ g \in Heap /\ g.cn = h.cn /\ g.shFree = h.shFree /\ g.cnFree = h.cnFree /\ g.queue = h.queue
         /\ g.sh[s].ref = h.sh[s].ref - 1
         /\ \A x \in Slot : /\ g.sh[x].fate = h.sh[x].fate /\ g.sh[x].res = h.sh[x].res
                            /\ g.sh[x].conts = h.sh[x].conts /\ g.sh[x].comb = h.sh[x].comb
         /\ \A x \in Slot \ {s} : g.sh[x].ref = h.sh[x].ref
  <1>1. PICK r : r = h.sh[s]
    OBVIOUS
  <1>2. r \in SharedRec /\ r.ref - 1 \in Nat
    BY <1>1, HeapFields
  <1>3. PICK u : u = [r EXCEPT !.ref = r.ref - 1]
    OBVIOUS
  <1>4. /\ u \in SharedRec /\ u.ref = r.ref - 1
        /\ u.fate = r.fate /\ u.res = r.res /\ u.conts = r.conts /\ u.comb = r.comb
    BY <1>2, <1>3, SharedUpdates
  <1>5. PICK g : g = [h EXCEPT !.sh[s].ref = @ - 1]
    OBVIOUS
  <1>6. g = [h EXCEPT !.sh[s] = u]
    BY <1>1, <1>3, <1>5
  <1>7. /\ g \in Heap /\ g.cn = h.cn /\ g.shFree = h.shFree /\ g.cnFree = h.cnFree /\ g.queue = h.queue
        /\ g.sh[s] = u /\ \A x \in Slot \ {s} : g.sh[x] = h.sh[x]
    BY <1>4, <1>6, WithShared
  <1> QED BY <1>1, <1>4, <1>5, <1>7

\* Another combiner state.
LEMMA CombShape ==
  ASSUME NEW h \in Heap, NEW s \in Slot, NEW st \in CombRec
  PROVE  LET g == [h EXCEPT !.sh[s].comb = st] IN
         /\ g \in Heap /\ g.cn = h.cn /\ g.shFree = h.shFree /\ g.cnFree = h.cnFree /\ g.queue = h.queue
         /\ g.sh[s].comb = st
         /\ \A x \in Slot : /\ g.sh[x].fate = h.sh[x].fate /\ g.sh[x].res = h.sh[x].res
                            /\ g.sh[x].conts = h.sh[x].conts /\ g.sh[x].ref = h.sh[x].ref
         /\ \A x \in Slot \ {s} : g.sh[x].comb = h.sh[x].comb
  <1>1. PICK r : r = h.sh[s]
    OBVIOUS
  <1>2. r \in SharedRec
    BY <1>1, HeapFields
  <1>3. PICK u : u = [r EXCEPT !.comb = st]
    OBVIOUS
  <1>4. /\ u \in SharedRec /\ u.comb = st
        /\ u.fate = r.fate /\ u.res = r.res /\ u.conts = r.conts /\ u.ref = r.ref
    BY <1>2, <1>3, SharedUpdates
  <1>5. PICK g : g = [h EXCEPT !.sh[s].comb = st]
    OBVIOUS
  <1>6. g = [h EXCEPT !.sh[s] = u]
    BY <1>1, <1>3, <1>5
  <1>7. /\ g \in Heap /\ g.cn = h.cn /\ g.shFree = h.shFree /\ g.cnFree = h.cnFree /\ g.queue = h.queue
        /\ g.sh[s] = u /\ \A x \in Slot \ {s} : g.sh[x] = h.sh[x]
    BY <1>4, <1>6, WithShared
  <1> QED BY <1>1, <1>4, <1>5, <1>7

\* FreeCont clears a continuation and appends it to the free list.
LEMMA FreeContShape ==
  ASSUME NEW h \in Heap, NEW c \in Cont
  PROVE  LET g == FreeCont(h, c) IN
         /\ g \in Heap /\ g.sh = h.sh /\ g.shFree = h.shFree /\ g.cnFree = Append(h.cnFree, c) /\ g.queue = h.queue
         /\ g.cn[c] = NoCont /\ \A x \in Cont \ {c} : g.cn[x] = h.cn[x]
  <1>1. h.cnFree \in Seq(Cont)
    BY HeapFields
  <1>2. PICK q \in Seq(Cont) : q = Append(h.cnFree, c)
    BY <1>1, AppendElements
  <1>3. PICK k : k = NoCont
    OBVIOUS
  <1>4. PICK g : g = [h EXCEPT !.cn[c] = k]
    OBVIOUS
  <1>5. /\ g \in Heap /\ g.sh = h.sh /\ g.shFree = h.shFree /\ g.cnFree = h.cnFree /\ g.queue = h.queue
        /\ g.cn[c] = k /\ \A x \in Cont \ {c} : g.cn[x] = h.cn[x]
    BY <1>3, <1>4 DEF Heap
  <1>6. PICK f : f = FreeCont(h, c)
    OBVIOUS
  <1>7. f = [g EXCEPT !.cnFree = q]
    BY <1>2, <1>3, <1>4, <1>5, <1>6 DEF FreeCont
  <1>8. f \in Heap /\ f.sh = g.sh /\ f.cn = g.cn /\ f.shFree = g.shFree /\ f.cnFree = q /\ f.queue = g.queue
    BY <1>5, <1>7, WithCnFree
  <1> QED BY <1>2, <1>3, <1>5, <1>6, <1>8

\* The same for the continuations All and Race did not use.
LEMMA FreeContsShape ==
  ASSUME NEW h \in Heap, NEW cs \in Seq(Cont)
  PROVE  LET g == FreeConts(h, cs) IN
         /\ g \in Heap /\ g.sh = h.sh /\ g.shFree = h.shFree /\ g.cnFree = h.cnFree \o cs /\ g.queue = h.queue
         /\ \A x \in Cont : g.cn[x] = IF x \in Range(cs) THEN NoCont ELSE h.cn[x]
  <1>1. h.cnFree \in Seq(Cont) /\ h.cn \in [Cont -> ContRec \cup {NoCont}]
    BY HeapFields
  <1>2. PICK q \in Seq(Cont) : q = h.cnFree \o cs
    BY <1>1, ConcatProperties
  <1>3. PICK m : m = [x \in Cont |-> IF x \in Range(cs) THEN NoCont ELSE h.cn[x]]
    OBVIOUS
  <1>4. m \in [Cont -> ContRec \cup {NoCont}]
    BY <1>1, <1>3
  <1>5. PICK g : g = [h EXCEPT !.cn = m]
    OBVIOUS
  <1>6. g \in Heap /\ g.sh = h.sh /\ g.shFree = h.shFree /\ g.cnFree = h.cnFree /\ g.queue = h.queue /\ g.cn = m
    BY <1>4, <1>5 DEF Heap
  <1>7. PICK f : f = FreeConts(h, cs)
    OBVIOUS
  <1>8. f = [g EXCEPT !.cnFree = q]
    BY <1>2, <1>3, <1>5, <1>6, <1>7 DEF FreeConts
  <1>9. f \in Heap /\ f.sh = g.sh /\ f.cn = g.cn /\ f.shFree = g.shFree /\ f.cnFree = q /\ f.queue = g.queue
    BY <1>6, <1>8, WithCnFree
  <1> QED BY <1>2, <1>3, <1>6, <1>7, <1>9

\* Attaching counts a reference to the output, and links the continuation to
\* a pending input or enqueues it.
Links(h, g, c, k, in, out) ==
  LET pending == h.sh[in].fate = "Pending" IN
  /\ g \in Heap /\ g.shFree = h.shFree /\ g.cnFree = h.cnFree
  /\ g.cn[c] = k /\ \A x \in Cont \ {c} : g.cn[x] = h.cn[x]
  /\ g.queue = IF pending THEN h.queue ELSE Append(h.queue, c)
  /\ g.sh[out].ref = h.sh[out].ref + 1 /\ \A x \in Slot \ {out} : g.sh[x].ref = h.sh[x].ref
  /\ pending => g.sh[in].conts = Append(h.sh[in].conts, c)
  /\ \A x \in Slot : x # in \/ ~ pending => g.sh[x].conts = h.sh[x].conts
  /\ \A x \in Slot : g.sh[x].fate = h.sh[x].fate /\ g.sh[x].res = h.sh[x].res /\ g.sh[x].comb = h.sh[x].comb

\* Attach links the continuation to a pending input, or enqueues it.
LEMMA AttachShape ==
  ASSUME NEW h \in Heap, NEW c \in Cont, NEW kind \in Kind, NEW in \in Slot, NEW out \in Slot,
         NEW idx \in 1 .. MaxAllSize
  PROVE  Links(h, Attach(h, c, kind, in, out, idx), c, [kind |-> kind, in |-> in, out |-> out, idx |-> idx], in, out)
  <1>1. PICK k : k = [kind |-> kind, in |-> in, out |-> out, idx |-> idx]
    OBVIOUS
  <1>2. k \in ContRec
    BY <1>1 DEF ContRec
  <1>3. PICK h0 : h0 = [h EXCEPT !.cn[c] = k]
    OBVIOUS
  <1>4. /\ h0 \in Heap /\ h0.sh = h.sh /\ h0.shFree = h.shFree /\ h0.cnFree = h.cnFree /\ h0.queue = h.queue
        /\ h0.cn[c] = k /\ \A x \in Cont \ {c} : h0.cn[x] = h.cn[x]
    BY <1>2, <1>3, WithCont
  <1>5. PICK r : r = h.sh[out]
    OBVIOUS
  <1>6. r \in SharedRec /\ r.ref + 1 \in Nat
    BY <1>5, HeapFields
  <1>7. PICK u : u = [r EXCEPT !.ref = r.ref + 1]
    OBVIOUS
  <1>8. /\ u \in SharedRec /\ u.ref = r.ref + 1
        /\ u.fate = r.fate /\ u.res = r.res /\ u.conts = r.conts /\ u.comb = r.comb
    BY <1>6, <1>7, SharedUpdates
  <1>9. PICK h1 : h1 = [h EXCEPT !.cn[c] = [kind |-> kind, in |-> in, out |-> out, idx |-> idx],
                                 !.sh[out].ref = Retained(@)]
    OBVIOUS
  <1>10. h1 = [h0 EXCEPT !.sh[out] = u]
    BY <1>1, <1>3, <1>4, <1>5, <1>7, <1>9 DEF Retained
  <1>11. /\ h1 \in Heap /\ h1.cn = h0.cn /\ h1.shFree = h0.shFree /\ h1.cnFree = h0.cnFree /\ h1.queue = h0.queue
         /\ h1.sh[out] = u /\ \A x \in Slot \ {out} : h1.sh[x] = h0.sh[x]
    BY <1>4, <1>8, <1>10, WithShared
  <1>12. /\ h1.sh[out].ref = h.sh[out].ref + 1 /\ \A x \in Slot \ {out} : h1.sh[x].ref = h.sh[x].ref
         /\ \A x \in Slot : /\ h1.sh[x].conts = h.sh[x].conts /\ h1.sh[x].fate = h.sh[x].fate
                             /\ h1.sh[x].res = h.sh[x].res /\ h1.sh[x].comb = h.sh[x].comb
    BY <1>4, <1>5, <1>8, <1>11
  <1>13. PICK f : f = Attach(h, c, kind, in, out, idx)
    OBVIOUS
  <1>14. CASE h.sh[in].fate = "Pending"
    <2>1. PICK v : v = h1.sh[in]
      OBVIOUS
    <2>2. v \in SharedRec /\ v.conts \in Seq(Cont) /\ Append(v.conts, c) \in Seq(Cont)
      BY <1>11, <2>1, HeapFields, AppendElements
    <2>3. PICK w : w = [v EXCEPT !.conts = Append(v.conts, c)]
      OBVIOUS
    <2>4. /\ w \in SharedRec /\ w.conts = Append(v.conts, c)
          /\ w.fate = v.fate /\ w.res = v.res /\ w.ref = v.ref /\ w.comb = v.comb
      BY <2>2, <2>3, SharedUpdates
    <2>5. f = AppendCont(h1, in, c)
      BY <1>9, <1>13, <1>14 DEF Attach
    <2>6. f = [h1 EXCEPT !.sh[in] = w]
      BY <2>1, <2>3, <2>5 DEF AppendCont
    <2>7. /\ f \in Heap /\ f.cn = h1.cn /\ f.shFree = h1.shFree /\ f.cnFree = h1.cnFree /\ f.queue = h1.queue
          /\ f.sh[in] = w /\ \A x \in Slot \ {in} : f.sh[x] = h1.sh[x]
      BY <1>11, <2>4, <2>6, WithShared
    <2>8. /\ \A x \in Slot : /\ f.sh[x].ref = h1.sh[x].ref /\ f.sh[x].fate = h1.sh[x].fate
                            /\ f.sh[x].res = h1.sh[x].res /\ f.sh[x].comb = h1.sh[x].comb
          /\ f.sh[in].conts = Append(h1.sh[in].conts, c)
          /\ \A x \in Slot \ {in} : f.sh[x].conts = h1.sh[x].conts
      BY <2>1, <2>4, <2>7
    <2>9. /\ f.shFree = h.shFree /\ f.cnFree = h.cnFree /\ f.queue = h.queue
          /\ f.cn[c] = k /\ \A x \in Cont \ {c} : f.cn[x] = h.cn[x]
      BY <1>4, <1>11, <2>7
    <2>10. /\ f.sh[out].ref = h.sh[out].ref + 1 /\ \A x \in Slot \ {out} : f.sh[x].ref = h.sh[x].ref
           /\ f.sh[in].conts = Append(h.sh[in].conts, c)
           /\ \A x \in Slot : x # in => f.sh[x].conts = h.sh[x].conts
           /\ \A x \in Slot : f.sh[x].fate = h.sh[x].fate /\ f.sh[x].res = h.sh[x].res /\ f.sh[x].comb = h.sh[x].comb
      BY <1>12, <2>8
    <2> QED BY <1>1, <1>13, <1>14, <2>7, <2>9, <2>10 DEF Links
  <1>15. CASE h.sh[in].fate # "Pending"
    <2>1. h1.queue \in Seq(Cont)
      BY <1>11, HeapFields
    <2>2. PICK q \in Seq(Cont) : q = Append(h1.queue, c)
      BY <2>1, AppendElements
    <2>3. f = [h1 EXCEPT !.queue = Append(h1.queue, c)]
      BY <1>9, <1>13, <1>15 DEF Attach
    <2>4. f = [h1 EXCEPT !.queue = q]
      BY <2>2, <2>3
    <2>5. f \in Heap /\ f.sh = h1.sh /\ f.cn = h1.cn /\ f.shFree = h1.shFree /\ f.cnFree = h1.cnFree /\ f.queue = q
      BY <1>11, <2>4, WithQueue
    <2> QED BY <1>1, <1>4, <1>11, <1>12, <1>13, <1>15, <2>2, <2>5 DEF Links
  <1> QED BY <1>14, <1>15

\* Settling a pending slot moves its first continuations to the queue: all of
\* them, or as many as the queue has room for.
Drains(h, g, s, v, k) ==
  LET q == h.sh[s].conts IN
  /\ Len(h.queue) + k <= limit /\ (k = Len(q) \/ Len(h.queue) + k = limit)
  /\ g \in Heap /\ g.cn = h.cn /\ g.shFree = h.shFree /\ g.cnFree = h.cnFree
  /\ g.queue = h.queue \o SubSeq(q, 1, k)
  /\ g.sh[s].conts = SubSeq(q, k + 1, Len(q)) /\ g.sh[s].fate = FateOf(v) /\ g.sh[s].res = v
  /\ g.sh[s].ref = h.sh[s].ref /\ g.sh[s].comb = h.sh[s].comb
  /\ \A x \in Slot \ {s} : g.sh[x] = h.sh[x]

\* SettleWith moves as many continuations to the queue as it takes.
LEMMA SettleShape ==
  ASSUME NEW h \in Heap, NEW s \in Slot, NEW v \in Result, h.sh[s].fate = "Pending",
         limit \in Nat, Len(h.queue) <= limit
  PROVE  \E k \in 0 .. Len(h.sh[s].conts) : Drains(h, SettleWith(h, s, v), s, v, k)
  <1>1. PICK r : r = h.sh[s]
    OBVIOUS
  <1>2. r \in SharedRec /\ r.conts \in Seq(Cont) /\ h.queue \in Seq(Cont)
    BY <1>1, HeapFields
  <1>3. PICK f \in Fate : f = FateOf(v)
    BY DEF FateOf, Fate
  <1>4. PICK u : u = [r EXCEPT !.fate = f, !.res = v]
    OBVIOUS
  <1>5. /\ u \in SharedRec /\ u.fate = f /\ u.res = v
        /\ u.conts = r.conts /\ u.ref = r.ref /\ u.comb = r.comb
    BY <1>2, <1>4 DEF SharedRec
  <1>6. PICK m : m = [h EXCEPT !.sh[s].fate = FateOf(v), !.sh[s].res = v]
    OBVIOUS
  <1>7. m = [h EXCEPT !.sh[s] = u]
    <2>1. m = [h EXCEPT !.sh[s].fate = f, !.sh[s].res = v]
      BY <1>3, <1>6
    <2>2. h.sh \in [Slot -> SharedRec]
      BY HeapFields
    <2>3. PICK m0 : m0 = [h EXCEPT !.sh[s].fate = f]
      OBVIOUS
    <2>4. m0.sh[s] = [r EXCEPT !.fate = f]
      BY <1>1, <2>2, <2>3 DEF Heap
    <2>5. m = [m0 EXCEPT !.sh[s].res = v]
      BY <2>1, <2>3
    <2> QED BY <1>1, <1>4, <2>2, <2>3, <2>4, <2>5 DEF Heap
  <1>8. /\ m \in Heap /\ m.cn = h.cn /\ m.shFree = h.shFree /\ m.cnFree = h.cnFree /\ m.queue = h.queue
        /\ m.sh[s] = u /\ \A x \in Slot \ {s} : m.sh[x] = h.sh[x]
    BY <1>5, <1>7, WithShared
  <1>9. PICK k : k = Drained(m, s)
    OBVIOUS
  <1>10. /\ k \in 0 .. Len(r.conts) /\ Len(h.queue) + k <= limit
         /\ k = Len(r.conts) \/ Len(h.queue) + k = limit
    <2>1. Len(r.conts) \in Nat /\ limit - Len(h.queue) \in Nat /\ Len(h.queue) \in Nat
      BY <1>2
    <2>2. k = Min({Len(r.conts), limit - Len(h.queue)})
      BY <1>5, <1>8, <1>9 DEF Drained
    <2>3. k \in {Len(r.conts), limit - Len(h.queue)} /\ k <= Len(r.conts) /\ k <= limit - Len(h.queue)
      BY <2>1, <2>2, LeastNat
    <2> QED BY <2>1, <2>3
  <1>11. PICK q1 : q1 = h.queue \o SubSeq(r.conts, 1, k)
    OBVIOUS
  <1>12. PICK q2 : q2 = SubSeq(r.conts, k + 1, Len(r.conts))
    OBVIOUS
  <1>13. q1 \in Seq(Cont) /\ q2 \in Seq(Cont)
    <2>1. SubSeq(r.conts, 1, k) \in Seq(Cont) /\ q2 \in Seq(Cont)
      BY <1>2, <1>10, <1>12, SplitElements
    <2> QED BY <1>2, <1>11, <2>1, ConcatElements
  <1>14. PICK w : w = [u EXCEPT !.conts = q2]
    OBVIOUS
  <1>15. /\ w \in SharedRec /\ w.conts = q2
         /\ w.fate = u.fate /\ w.res = u.res /\ w.ref = u.ref /\ w.comb = u.comb
    BY <1>5, <1>13, <1>14, SharedUpdates
  <1>16. PICK m1 : m1 = [m EXCEPT !.queue = q1]
    OBVIOUS
  <1>17. m1 \in Heap /\ m1.sh = m.sh /\ m1.cn = m.cn /\ m1.shFree = m.shFree /\ m1.cnFree = m.cnFree /\ m1.queue = q1
    BY <1>8, <1>13, <1>16, WithQueue
  <1>18. PICK e : e = DrainConts(m, s)
    OBVIOUS
  <1>19. e = [m EXCEPT !.queue = @ \o SubSeq(m.sh[s].conts, 1, k), !.sh[s].conts = SubSeq(@, k + 1, Len(@))]
    BY <1>9, <1>18 DEF DrainConts
  <1>20. e = [m1 EXCEPT !.sh[s] = w]
    BY <1>5, <1>8, <1>11, <1>12, <1>14, <1>16, <1>17, <1>19
  <1>21. /\ e \in Heap /\ e.cn = m1.cn /\ e.shFree = m1.shFree /\ e.cnFree = m1.cnFree /\ e.queue = m1.queue
         /\ e.sh[s] = w /\ \A x \in Slot \ {s} : e.sh[x] = m1.sh[x]
    BY <1>15, <1>17, <1>20, WithShared
  <1>22. /\ e.cn = h.cn /\ e.shFree = h.shFree /\ e.cnFree = h.cnFree
         /\ e.queue = h.queue \o SubSeq(h.sh[s].conts, 1, k)
         /\ e.sh[s].conts = SubSeq(h.sh[s].conts, k + 1, Len(h.sh[s].conts))
         /\ e.sh[s].fate = FateOf(v) /\ e.sh[s].res = v
         /\ e.sh[s].ref = h.sh[s].ref /\ e.sh[s].comb = h.sh[s].comb
         /\ \A x \in Slot \ {s} : e.sh[x] = h.sh[x]
    BY <1>1, <1>3, <1>5, <1>8, <1>11, <1>12, <1>15, <1>17, <1>21
  <1>23. SettleWith(h, s, v) = e
    BY <1>6, <1>18 DEF SettleWith, Settles
  <1>24. Drains(h, e, s, v, k) /\ k \in 0 .. Len(h.sh[s].conts)
    BY <1>1, <1>10, <1>21, <1>22 DEF Drains
  <1> QED BY <1>23, <1>24
-----------------------------------------------------------------------------
(* What the procedures keep.                                               *)

\* A settled slot that is not in the pool keeps its fate and its result; and
\* nothing leaves the pool.
KeepsFates(h, g) ==
  \A s \in Slot : h.sh[s].fate # "Pending" /\ s \notin Range(g.shFree) =>
                     g.sh[s].fate = h.sh[s].fate /\ g.sh[s].res = h.sh[s].res
Keeps(h, g) == KeepsFates(h, g) /\ Range(h.shFree) \subseteq Range(g.shFree)

\* Keeping what is settled is transitive over the steps of an operation.
LEMMA KeepsTrans ==
  ASSUME NEW h, NEW g, NEW f, KeepsFates(h, g), Keeps(g, f)
  PROVE  KeepsFates(h, f) /\ (Keeps(h, g) => Keeps(h, f))
  BY DEF Keeps, KeepsFates

\* The pools are finite, and 0 is no continuation.
LEMMA Pools == /\ IsFiniteSet(Cont) /\ Cardinality(Cont) = Conts /\ IsFiniteSet(Slot) /\ Cardinality(Slot) = Slots
               /\ Conts \in Nat /\ Slots \in Nat /\ 0 \notin Cont /\ MaxAllSize \in Nat /\ Limits \subseteq Nat
  <1>1. Conts \in Nat /\ Conts > 0 /\ Slots \in Nat /\ Slots > 0 /\ MaxAllSize \in Nat /\ Limits \subseteq Nat
    BY PoolsAssumption, LimitsAssumption
  <1>2. IsFiniteSet(1 .. Conts) /\ Cardinality(1 .. Conts) = Conts
    BY <1>1, FS_Interval
  <1>3. IsFiniteSet(1 .. Slots) /\ Cardinality(1 .. Slots) = Slots
    BY <1>1, FS_Interval
  <1> QED BY <1>1, <1>2, <1>3 DEF Cont, Slot

\* The continuations that settle a slot are finitely many.
LEMMA RefsFinite ==
  ASSUME NEW h, NEW s
  PROVE  /\ IsFiniteSet(Refs(h, s)) /\ Cardinality(Refs(h, s)) \in Nat /\ Cardinality(Refs(h, s)) <= Conts
         /\ Cardinality(Refs(h, s)) = 0 <=> Refs(h, s) = {}
  <1>1. Refs(h, s) \subseteq Cont
    BY DEF Refs, LiveIn
  <1> QED BY <1>1, Pools, FS_Subset, FS_CardinalityType, FS_EmptySet

\* The live continuations depend on the records only.
LEMMA RefsSame ==
  ASSUME NEW h, NEW g, \A c \in Cont : g.cn[c] = h.cn[c]
  PROVE  LiveIn(g) = LiveIn(h) /\ \A s : Refs(g, s) = Refs(h, s)
  <1>1. LiveIn(g) = LiveIn(h)
    BY DEF LiveIn
  <1> QED BY <1>1 DEF Refs, LiveIn

\* With all references counted, a slot that is referred to has a positive count.
LEMMA Counted ==
  ASSUME NEW h, NEW ext \in [Slot -> Nat], h \in Heap, RefsOK(h, ext), NEW s \in Slot
  PROVE  /\ h.sh[s].ref \in Nat
         /\ ext[s] > 0 => h.sh[s].ref > 0
         /\ \A c \in LiveIn(h) : h.cn[c].out = s => h.sh[s].ref > 0
         /\ h.sh[s].ref = 0 => ext[s] = 0 /\ Refs(h, s) = {}
  <1>1. h.sh[s].ref = Cardinality(Refs(h, s)) + ext[s] /\ ext[s] \in Nat
    BY DEF RefsOK
  <1>2. Cardinality(Refs(h, s)) \in Nat /\ (Cardinality(Refs(h, s)) = 0 <=> Refs(h, s) = {})
    BY RefsFinite
  <1>3. \A c \in LiveIn(h) : h.cn[c].out = s => Refs(h, s) # {}
    BY DEF Refs
  <1> QED BY <1>1, <1>2, <1>3

\* Linked and queued continuations are different, and at most all there are.
LEMMA QueuedAndLinked ==
  ASSUME NEW h \in Heap, NEW run, PlacesOK(h, run), NEW s \in Slot
  PROVE  /\ Range(h.queue) \cap Range(h.sh[s].conts) = {}
         /\ Len(h.queue) + Len(h.sh[s].conts) <= Conts
  <1>1. h.queue \in Seq(Cont) /\ h.sh[s].conts \in Seq(Cont)
    BY HeapFields
  <1>2. IsInjective(h.queue) /\ IsInjective(h.sh[s].conts) /\ Range(h.queue) \cap Range(h.sh[s].conts) = {}
    BY DEF PlacesOK, QueueOK, LinkOK
  <1>3. /\ h.queue \o h.sh[s].conts \in Seq(Cont) /\ IsInjective(h.queue \o h.sh[s].conts)
        /\ Len(h.queue \o h.sh[s].conts) = Len(h.queue) + Len(h.sh[s].conts)
    BY <1>1, <1>2, ConcatElements
  <1> QED BY <1>2, <1>3, Pools, InjectiveLength

\* Settling moves continuations from the link to the queue.
Settled(h, g, s, v, ext, hand, run) ==
  /\ CoreInv(g, ext, hand, run) /\ Keeps(h, g) /\ g.cn = h.cn
  /\ \A x \in Slot : g.sh[x].comb = h.sh[x].comb
  /\ \A x \in Slot \ {s} : g.sh[x].fate = h.sh[x].fate /\ g.sh[x].res = h.sh[x].res
  /\ g.sh[s].fate = IF h.sh[s].fate = "Pending" THEN FateOf(v) ELSE h.sh[s].fate
  /\ g.sh[s].res = IF h.sh[s].fate = "Pending" THEN v ELSE h.sh[s].res

\* SettleWith on a slot that is referred to.
LEMMA SettleCore ==
  ASSUME NEW h, NEW ext \in [Slot -> Nat], NEW hand, NEW run, NEW s \in Slot, NEW v \in Result,
         CoreInv(h, ext, hand, run), limit \in Nat, h.sh[s].ref # 0
  PROVE  Settled(h, SettleWith(h, s, v), s, v, ext, hand, run)
  <1>1. /\ h \in Heap /\ RefsOK(h, ext) /\ SlotsOK(h) /\ ContsOK(h, hand)
        /\ PlacesOK(h, run) /\ QueueOK(h, run) /\ PlacedOK(h, run) /\ \A x \in Slot : LinkOK(h, run, x)
    BY DEF CoreInv, PlacesOK
  <1>2. CASE h.sh[s].fate # "Pending"
    <2>1. SettleWith(h, s, v) = h
      BY <1>2 DEF SettleWith, Settles
    <2> QED BY <1>2, <2>1 DEF Settled, Keeps, KeepsFates
  <1>3. CASE h.sh[s].fate = "Pending"
    <2>1. PICK g : g = SettleWith(h, s, v)
      OBVIOUS
    <2>2. PICK q : q = h.sh[s].conts
      OBVIOUS
    <2>3. PICK k \in 0 .. Len(q) :
           /\ Len(h.queue) + k <= limit /\ (k = Len(q) \/ Len(h.queue) + k = limit)
           /\ g \in Heap /\ g.cn = h.cn /\ g.shFree = h.shFree /\ g.cnFree = h.cnFree
           /\ g.queue = h.queue \o SubSeq(q, 1, k)
           /\ g.sh[s].conts = SubSeq(q, k + 1, Len(q)) /\ g.sh[s].fate = FateOf(v) /\ g.sh[s].res = v
           /\ g.sh[s].ref = h.sh[s].ref /\ g.sh[s].comb = h.sh[s].comb
           /\ \A x \in Slot \ {s} : g.sh[x] = h.sh[x]
      <3>1. Len(h.queue) <= limit
        BY <1>1 DEF QueueOK
      <3>2. PICK k \in 0 .. Len(h.sh[s].conts) : Drains(h, g, s, v, k)
        BY <1>1, <1>3, <2>1, <3>1, SettleShape
      <3> QED BY <2>2, <3>2 DEF Drains
    <2>4. LiveIn(g) = LiveIn(h) /\ \A x : Refs(g, x) = Refs(h, x)
      BY <2>3, RefsSame
    <2>5. RefsOK(g, ext)
      BY <1>1, <2>3, <2>4 DEF RefsOK
    <2>6. SlotsOK(g) /\ ContsOK(g, hand)
      <3>1. \A x \in Slot : Reclaimable(g.sh[x]) <=> Reclaimable(h.sh[x])
        BY <2>3 DEF Reclaimable
      <3>2. s \notin Range(h.shFree)
        BY <1>1 DEF SlotsOK, Reclaimable
      <3> QED BY <1>1, <2>3, <2>4, <3>1, <3>2 DEF SlotsOK, ContsOK
    <2>7. h.queue \in Seq(Cont) /\ q \in Seq(Cont) /\ IsInjective(h.queue) /\ IsInjective(q)
      BY <1>1, <2>2, HeapFields DEF QueueOK, LinkOK
    <2>8. Range(h.queue) \cap Range(q) = {} /\ Len(h.queue) + Len(q) <= Conts
      BY <1>1, <2>2, QueuedAndLinked
    <2>9. PICK a : a = SubSeq(q, 1, k)
      OBVIOUS
    <2>10. PICK b : b = SubSeq(q, k + 1, Len(q))
      OBVIOUS
    <2>11. /\ a \in Seq(Cont) /\ Len(a) = k /\ b \in Seq(Cont) /\ (k = Len(q) => b = << >>)
           /\ Range(q) = Range(a) \cup Range(b)
           /\ IsInjective(a) /\ IsInjective(b) /\ Range(a) \cap Range(b) = {}
      BY <2>7, <2>9, <2>10, SplitElements
    <2>12. /\ Range(g.queue) = Range(h.queue) \cup Range(a) /\ IsInjective(g.queue)
           /\ Len(g.queue) = Len(h.queue) + k
      <3>1. PICK d : d = h.queue
        OBVIOUS
      <3>2. /\ g.queue = d \o a /\ d \in Seq(Cont) /\ a \in Seq(Cont)
            /\ IsInjective(d) /\ IsInjective(a) /\ Range(d) \cap Range(a) = {}
        BY <2>3, <2>7, <2>8, <2>9, <2>11, <3>1
      <3>3. Range(d \o a) = Range(d) \cup Range(a) /\ IsInjective(d \o a) /\ Len(d \o a) = Len(d) + Len(a)
        BY <3>2, ConcatElements
      <3> QED BY <2>11, <3>1, <3>2, <3>3
    <2>13. limit >= Conts => b = << >>
      <3>1. Len(q) \in Nat /\ Len(h.queue) \in Nat /\ k \in Nat
        BY <2>7
      <3> QED BY <2>3, <2>8, <2>11, <3>1, Pools
    <2>14. \A c \in Range(q) : c \in LiveIn(h) /\ h.cn[c].in = s /\ c \notin Range(h.queue) /\ c # run
      BY <1>1, <2>2 DEF LinkOK
    <2>15. QueueOK(g, run)
      BY <1>1, <2>3, <2>4, <2>11, <2>12, <2>14 DEF QueueOK
    <2>16. ASSUME NEW x \in Slot PROVE LinkOK(g, run, x)
      <3>1. CASE x = s
        <4>1. g.sh[x].conts = b /\ Range(b) \subseteq Range(q)
          BY <2>3, <2>10, <2>11, <3>1
        <4> QED BY <2>3, <2>4, <2>11, <2>12, <2>13, <2>14, <3>1, <4>1 DEF LinkOK
      <3>2. CASE x # s
        <4>1. g.sh[x] = h.sh[x] /\ g.cn = h.cn
          BY <2>3, <3>2
        <4>2. \A c \in Range(h.sh[x].conts) :
                c \in LiveIn(h) /\ h.cn[c].in = x /\ c \notin Range(h.queue) /\ c # run
          BY <1>1 DEF LinkOK
        <4>3. \A c \in Range(h.sh[x].conts) : c \notin Range(g.queue)
          BY <2>11, <2>12, <2>14, <3>2, <4>2
        <4> QED BY <1>1, <2>4, <4>1, <4>2, <4>3 DEF LinkOK
      <3> QED BY <3>1, <3>2
    <2>17. PlacedOK(g, run)
      <3> SUFFICES ASSUME NEW c \in LiveIn(g)
                   PROVE c \in Range(g.queue) \/ c \in Range(g.sh[g.cn[c].in].conts) \/ c = run
        BY <1>1, <2>4 DEF PlacedOK
      <3>1. /\ c \in Range(h.queue) \/ c \in Range(h.sh[h.cn[c].in].conts) \/ c = run
            /\ h.cn[c].in \in Slot /\ g.cn[c].in = h.cn[c].in
        BY <1>1, <2>3, <2>4, HeapFields DEF PlacedOK
      <3>2. CASE h.cn[c].in = s
        BY <2>2, <2>3, <2>10, <2>11, <2>12, <3>1, <3>2
      <3>3. CASE h.cn[c].in # s
        BY <2>3, <2>12, <3>1, <3>3
      <3> QED BY <3>2, <3>3
    <2>18. Keeps(h, g)
      BY <1>3, <2>3 DEF Keeps, KeepsFates
    <2>19. CoreInv(g, ext, hand, run)
      BY <2>3, <2>5, <2>6, <2>15, <2>16, <2>17 DEF CoreInv, PlacesOK
    <2> QED BY <1>3, <2>1, <2>3, <2>18, <2>19 DEF Settled
  <1> QED BY <1>2, <1>3

\* One more and one less reference to a slot that is no continuation's.
More(ext, s) == [ext EXCEPT ![s] = @ + 1]
Less(ext, s) == [ext EXCEPT ![s] = @ - 1]

\* One reference more and one less.
LEMMA MoreAndLess ==
  ASSUME NEW ext \in [Slot -> Nat], NEW s \in Slot
  PROVE  /\ More(ext, s) \in [Slot -> Nat] /\ More(ext, s)[s] = ext[s] + 1 /\ More(ext, s)[s] > 0
         /\ \A x \in Slot \ {s} : More(ext, s)[x] = ext[x]
         /\ ext[s] > 0 => Less(ext, s) \in [Slot -> Nat] /\ Less(ext, s)[s] = ext[s] - 1
         /\ \A x \in Slot \ {s} : Less(ext, s)[x] = ext[x]
         /\ Less(More(ext, s), s) = ext
  <1>1. ext[s] \in Nat
    OBVIOUS
  <1>2. PICK m : m = More(ext, s)
    OBVIOUS
  <1>3. m \in [Slot -> Nat] /\ m[s] = ext[s] + 1 /\ m[s] > 0 /\ \A x \in Slot \ {s} : m[x] = ext[x]
    BY <1>1, <1>2 DEF More
  <1>4. PICK l : l = Less(m, s)
    OBVIOUS
  <1>5. l \in [Slot -> Nat] /\ \A x \in Slot : l[x] = ext[x]
    BY <1>1, <1>3, <1>4 DEF Less
  <1>6. l = ext
    BY <1>5
  <1>7. /\ ext[s] > 0 => Less(ext, s) \in [Slot -> Nat] /\ Less(ext, s)[s] = ext[s] - 1
        /\ \A x \in Slot \ {s} : Less(ext, s)[x] = ext[x]
    BY <1>1 DEF Less
  <1> QED BY <1>2, <1>3, <1>4, <1>6, <1>7

\* A slot without a combiner satisfies what is said of combiners.
LEMMA NoCombOK == /\ NoComb.kind = "None" /\ NoComb \in CombRec
                  /\ \A fate, res, st : st.kind = "None" => CombOK(fate, res, st)
  <1>1. \A fate, res, st : st.kind = "None" => CombOK(fate, res, st)
    BY DEF CombOK
  <1> QED BY <1>1 DEF NoComb, CombRec

\* Only the list of free continuations changed: some were taken, or given back.
Relisted(h, g, ext, took, run) ==
  CoreInv(g, ext, took, run) /\ Keeps(h, g) /\ \A x : CombInv(h, x) => CombInv(g, x)

\* The free list of continuations changes, the continuations do not.
LEMMA FreeListCore ==
  ASSUME NEW h, NEW ext, NEW hand, NEW run, CoreInv(h, ext, hand, run),
         NEW g \in Heap, NEW took,
         g.sh = h.sh, g.shFree = h.shFree, g.queue = h.queue, \A c \in Cont : g.cn[c] = h.cn[c],
         IsInjective(g.cnFree), took \subseteq Cont \ Range(g.cnFree),
         Range(g.cnFree) \cup took = Range(h.cnFree) \cup hand
  PROVE  Relisted(h, g, ext, took, run)
  <1>1. /\ h \in Heap /\ RefsOK(h, ext) /\ SlotsOK(h) /\ ContsOK(h, hand)
        /\ QueueOK(h, run) /\ PlacedOK(h, run) /\ \A x \in Slot : LinkOK(h, run, x)
    BY DEF CoreInv, PlacesOK
  <1>2. LiveIn(g) = LiveIn(h) /\ (\A x : Refs(g, x) = Refs(h, x)) /\ LiveIn(h) \subseteq Cont
    BY RefsSame DEF LiveIn
  <1>3. RefsOK(g, ext) /\ SlotsOK(g)
    BY <1>1, <1>2 DEF RefsOK, SlotsOK
  <1>4. ContsOK(g, took)
    BY <1>1, <1>2 DEF ContsOK
  <1>5. QueueOK(g, run) /\ PlacedOK(g, run)
    BY <1>1, <1>2 DEF QueueOK, PlacedOK
  <1>6. ASSUME NEW x \in Slot PROVE LinkOK(g, run, x)
    BY <1>1, <1>2 DEF LinkOK
  <1>7. Keeps(h, g)
    BY DEF Keeps, KeepsFates
  <1>8. ASSUME NEW x, CombInv(h, x) PROVE CombInv(g, x)
    BY <1>2, <1>8 DEF CombInv
  <1> QED BY <1>3, <1>4, <1>5, <1>6, <1>7, <1>8 DEF CoreInv, PlacesOK, Relisted

\* Only the state of a combiner changed.
Recombined(h, g, s, st, ext, hand, run) ==
  /\ CoreInv(g, ext, hand, run) /\ Keeps(h, g) /\ g.cn = h.cn /\ g.cnFree = h.cnFree
  /\ g.sh[s].comb = st /\ \A x \in Slot \ {s} : g.sh[x].comb = h.sh[x].comb
  /\ \A x \in Slot : g.sh[x].fate = h.sh[x].fate /\ g.sh[x].res = h.sh[x].res /\ g.sh[x].ref = h.sh[x].ref

\* The state of the combiner is not what CoreInv is about.
LEMMA CombCore ==
  ASSUME NEW h, NEW ext, NEW hand, NEW run, CoreInv(h, ext, hand, run), NEW s \in Slot, NEW st \in CombRec
  PROVE  Recombined(h, [h EXCEPT !.sh[s].comb = st], s, st, ext, hand, run)
  <1>1. /\ h \in Heap /\ RefsOK(h, ext) /\ SlotsOK(h) /\ ContsOK(h, hand)
        /\ QueueOK(h, run) /\ PlacedOK(h, run) /\ \A x \in Slot : LinkOK(h, run, x)
    BY DEF CoreInv, PlacesOK
  <1>2. PICK g : g = [h EXCEPT !.sh[s].comb = st]
    OBVIOUS
  <1>3. /\ g \in Heap /\ g.cn = h.cn /\ g.shFree = h.shFree /\ g.cnFree = h.cnFree /\ g.queue = h.queue
        /\ g.sh[s].comb = st
        /\ \A x \in Slot : /\ g.sh[x].fate = h.sh[x].fate /\ g.sh[x].res = h.sh[x].res
                           /\ g.sh[x].conts = h.sh[x].conts /\ g.sh[x].ref = h.sh[x].ref
        /\ \A x \in Slot \ {s} : g.sh[x].comb = h.sh[x].comb
    BY <1>1, <1>2, CombShape
  <1>4. LiveIn(g) = LiveIn(h) /\ (\A x : Refs(g, x) = Refs(h, x)) /\ LiveIn(h) \subseteq Cont
    BY <1>3, RefsSame DEF LiveIn
  <1>5. RefsOK(g, ext) /\ SlotsOK(g) /\ ContsOK(g, hand)
    BY <1>1, <1>3, <1>4 DEF RefsOK, SlotsOK, ContsOK, Reclaimable
  <1>6. QueueOK(g, run)
    BY <1>1, <1>3, <1>4 DEF QueueOK
  <1>7. PlacedOK(g, run)
    <2>1. \A c \in LiveIn(h) : h.cn[c].in \in Slot
      BY <1>1, HeapFields
    <2> QED BY <1>1, <1>3, <1>4, <2>1 DEF PlacedOK
  <1>8. ASSUME NEW x \in Slot PROVE LinkOK(g, run, x)
    BY <1>1, <1>3, <1>4 DEF LinkOK
  <1>9. CoreInv(g, ext, hand, run) /\ Keeps(h, g)
    BY <1>3, <1>5, <1>6, <1>7, <1>8 DEF CoreInv, PlacesOK, Keeps, KeepsFates
  <1> QED BY <1>2, <1>3, <1>9 DEF Recombined

\* A slot of the pool becomes one that is referred to once.
LEMMA AllocCore ==
  ASSUME NEW h, NEW ext \in [Slot -> Nat], NEW hand, NEW run, CoreInv(h, ext, hand, run), h.shFree # << >>
  PROVE  LET g == AllocShared(h)
             s == NewShared(h) IN
         /\ s \in Slot /\ h.sh[s].ref = 0 /\ ext[s] = 0 /\ Refs(h, s) = {}
         /\ CoreInv(g, More(ext, s), hand, run) /\ KeepsFates(h, g)
         /\ g.cn = h.cn /\ g.cnFree = h.cnFree /\ g.sh[s].comb = NoComb /\ g.sh[s].fate = "Pending"
         /\ \A x \in Slot \ {s} : g.sh[x] = h.sh[x]
         /\ \A x : CombInv(h, x) => CombInv(g, x)
  <1>1. /\ h \in Heap /\ RefsOK(h, ext) /\ SlotsOK(h) /\ ContsOK(h, hand)
        /\ QueueOK(h, run) /\ PlacedOK(h, run) /\ \A x \in Slot : LinkOK(h, run, x)
    BY DEF CoreInv, PlacesOK
  <1>2. PICK g : g = AllocShared(h)
    OBVIOUS
  <1>3. PICK s : s = NewShared(h)
    OBVIOUS
  <1>4. /\ s \in Slot /\ s \in Range(h.shFree)
        /\ g \in Heap /\ g.cn = h.cn /\ g.shFree = Front(h.shFree) /\ g.cnFree = h.cnFree /\ g.queue = h.queue
        /\ g.sh[s] = Shared("Pending", "err", 1) /\ \A x \in Slot \ {s} : g.sh[x] = h.sh[x]
    BY <1>1, <1>2, <1>3, AllocShape
  <1>5. /\ g.sh[s].fate = "Pending" /\ g.sh[s].res = "err" /\ g.sh[s].conts = << >>
        /\ g.sh[s].ref = 1 /\ g.sh[s].comb = NoComb
    BY <1>4, SharedFresh DEF Fate, Result
  <1>6. h.sh[s].ref = 0 /\ h.sh[s].conts = << >> /\ h.sh[s].fate = "Pending"
    BY <1>1, <1>4 DEF SlotsOK, Reclaimable
  <1>7. ext[s] = 0 /\ Refs(h, s) = {}
    BY <1>1, <1>4, <1>6, Counted
  <1>8. LiveIn(g) = LiveIn(h) /\ (\A x : Refs(g, x) = Refs(h, x)) /\ LiveIn(h) \subseteq Cont
    BY <1>4, RefsSame DEF LiveIn
  <1>9. PICK e : e = More(ext, s)
    OBVIOUS
  <1>10. e \in [Slot -> Nat] /\ e[s] = 1 /\ \A x \in Slot \ {s} : e[x] = ext[x]
    BY <1>4, <1>7, <1>9, MoreAndLess
  <1>11. RefsOK(g, e)
    <2>1. Cardinality(Refs(g, s)) = 0
      BY <1>7, <1>8, RefsFinite
    <2> QED BY <1>1, <1>4, <1>5, <1>8, <1>10, <2>1 DEF RefsOK
  <1>12. \A c \in LiveIn(h) : h.cn[c].in \in Slot
    BY <1>1, HeapFields
  <1>14. SlotsOK(g)
    <2>1. h.shFree \in Seq(Slot) /\ IsInjective(h.shFree)
      BY <1>1, HeapFields DEF SlotsOK
    <2>2. IsInjective(g.shFree) /\ Range(g.shFree) = Range(h.shFree) \ {s}
      BY <1>3, <1>4, <2>1, FrontElements DEF NewShared
    <2> QED BY <1>1, <1>4, <1>5, <2>2 DEF SlotsOK, Reclaimable
  <1>15. ContsOK(g, hand) /\ QueueOK(g, run)
    BY <1>1, <1>4, <1>8 DEF ContsOK, QueueOK
  <1>16. ASSUME NEW x \in Slot PROVE LinkOK(g, run, x)
    <2>1. CASE x = s
      <3>1. Range(g.sh[x].conts) = {} /\ IsInjective(g.sh[x].conts)
        BY <1>5, <2>1 DEF Range, IsInjective
      <3> QED BY <1>5, <2>1, <3>1 DEF LinkOK
    <2>2. CASE x # s
      BY <1>1, <1>4, <1>8, <2>2 DEF LinkOK
    <2> QED BY <2>1, <2>2
  <1>17. PlacedOK(g, run)
    <2>1. Range(h.sh[s].conts) = {}
      BY <1>6 DEF Range
    <2> QED BY <1>1, <1>4, <1>8, <1>12, <2>1 DEF PlacedOK
  <1>18. KeepsFates(h, g)
    BY <1>4, <1>6 DEF KeepsFates
  <1>19. CoreInv(g, e, hand, run)
    BY <1>4, <1>11, <1>14, <1>15, <1>16, <1>17 DEF CoreInv, PlacesOK
  <1>20. ASSUME NEW x, CombInv(h, x) PROVE CombInv(g, x)
    <2>1. \A y \in Slot : CombOK(g.sh[y].fate, g.sh[y].res, g.sh[y].comb)
      <3>1. \A y \in Slot : CombOK(h.sh[y].fate, h.sh[y].res, h.sh[y].comb)
        BY <1>20 DEF CombInv
      <3> QED BY <1>4, <1>5, <3>1, NoCombOK
    <2>2. \A c \in LiveIn(h) : h.cn[c].out \in Slot \ {s}
      BY <1>1, <1>7, HeapFields DEF Refs
    <2>3. \A c \in LiveIn(g) \ {x} : ReportsTo(g.cn[c], g.sh[g.cn[c].out].comb)
      BY <1>4, <1>8, <1>20, <2>2 DEF CombInv
    <2> QED BY <1>4, <1>8, <1>20, <2>1, <2>3 DEF CombInv
  <1> QED BY <1>2, <1>3, <1>4, <1>5, <1>6, <1>7, <1>9, <1>10, <1>18, <1>19, <1>20

\* A reference goes.  The last one takes the slot back to the pool, unless
\* continuations are linked to it.
Released(h, g, less, hand, run) ==
  /\ CoreInv(g, less, hand, run) /\ Keeps(h, g) /\ g.cn = h.cn /\ g.cnFree = h.cnFree
  /\ \A x \in Slot : g.sh[x].comb = h.sh[x].comb \/ (g.sh[x].comb = NoComb /\ less[x] = 0)
  /\ \A x : CombInv(h, x) => CombInv(g, x)

\* Release of a reference that is counted.
LEMMA ReleaseCore ==
  ASSUME NEW h, NEW ext \in [Slot -> Nat], NEW hand, NEW run, NEW s \in Slot, ext[s] > 0,
         CoreInv(h, ext, hand, run)
  PROVE  Released(h, Release(h, s), Less(ext, s), hand, run)
  <1>1. /\ h \in Heap /\ RefsOK(h, ext) /\ SlotsOK(h) /\ ContsOK(h, hand)
        /\ QueueOK(h, run) /\ PlacedOK(h, run) /\ \A x \in Slot : LinkOK(h, run, x)
    BY DEF CoreInv, PlacesOK
  <1>2. PICK less : less = Less(ext, s)
    OBVIOUS
  <1>3. less \in [Slot -> Nat] /\ less[s] = ext[s] - 1 /\ (\A x \in Slot \ {s} : less[x] = ext[x])
    BY <1>2, MoreAndLess
  <1>4. h.sh[s].ref \in Nat /\ h.sh[s].ref # 0
    BY <1>1, Counted
  <1>5. PICK m : m = [h EXCEPT !.sh[s].ref = @ - 1]
    OBVIOUS
  <1>6. /\ m \in Heap /\ m.cn = h.cn /\ m.shFree = h.shFree /\ m.cnFree = h.cnFree /\ m.queue = h.queue
        /\ m.sh[s].ref = h.sh[s].ref - 1
        /\ \A x \in Slot : /\ m.sh[x].fate = h.sh[x].fate /\ m.sh[x].res = h.sh[x].res
                           /\ m.sh[x].conts = h.sh[x].conts /\ m.sh[x].comb = h.sh[x].comb
        /\ \A x \in Slot \ {s} : m.sh[x].ref = h.sh[x].ref
    BY <1>1, <1>4, <1>5, DecShape
  <1>7. LiveIn(m) = LiveIn(h) /\ (\A x : Refs(m, x) = Refs(h, x)) /\ LiveIn(h) \subseteq Cont
    BY <1>6, RefsSame DEF LiveIn
  <1>8. RefsOK(m, less)
    <2>1. Cardinality(Refs(h, s)) \in Nat /\ ext[s] \in Nat
      BY RefsFinite
    <2> QED BY <1>1, <1>3, <1>6, <1>7, <2>1 DEF RefsOK
  <1>9. \A c \in LiveIn(h) : h.cn[c].in \in Slot /\ h.cn[c].out \in Slot
    BY <1>1, HeapFields
  <1>10. Release(h, s) = TryReclaim(m, s)
    BY <1>4, <1>5 DEF Release
  <1>11. CASE ~ Reclaimable(m.sh[s])
    <2>1. TryReclaim(m, s) = m
      BY <1>11 DEF TryReclaim
    <2>2. \A x \in Slot : Reclaimable(m.sh[x]) <=> Reclaimable(h.sh[x])
      BY <1>4, <1>6, <1>11 DEF Reclaimable
    <2>3. SlotsOK(m) /\ ContsOK(m, hand)
      BY <1>1, <1>6, <1>7, <2>2 DEF SlotsOK, ContsOK
    <2>4. QueueOK(m, run)
      BY <1>1, <1>6, <1>7 DEF QueueOK
    <2>5. PlacedOK(m, run)
      BY <1>1, <1>6, <1>7, <1>9 DEF PlacedOK
    <2>6. ASSUME NEW x \in Slot PROVE LinkOK(m, run, x)
      BY <1>1, <1>6, <1>7 DEF LinkOK
    <2>7. CoreInv(m, less, hand, run) /\ Keeps(h, m)
      BY <1>6, <1>8, <2>3, <2>4, <2>5, <2>6 DEF CoreInv, PlacesOK, Keeps, KeepsFates
    <2>8. ASSUME NEW x, CombInv(h, x) PROVE CombInv(m, x)
      BY <1>6, <1>7, <1>9, <2>8 DEF CombInv
    <2> QED BY <1>2, <1>3, <1>6, <1>10, <2>1, <2>7, <2>8 DEF Released
  <1>12. CASE Reclaimable(m.sh[s])
    <2>1. less[s] = 0 /\ Refs(m, s) = {}
      BY <1>3, <1>6, <1>8, <1>12, Counted DEF Reclaimable
    <2>2. \A c \in LiveIn(h) : h.cn[c].out \in Slot \ {s}
      BY <1>7, <1>9, <2>1 DEF Refs
    <2>3. m.sh[s].ref = 0 /\ h.sh[s].conts = << >> /\ Range(h.sh[s].conts) = {}
      <3>1. m.sh[s].ref = 0 /\ h.sh[s].conts = << >>
        BY <1>6, <1>12 DEF Reclaimable
      <3>2. Range(<< >>) = {}
        BY DEF Range
      <3> QED BY <3>1, <3>2
    <2>4. TryReclaim(m, s) = FreeShared(m, s)
      BY <1>12 DEF TryReclaim
    <2>5. PICK g : g = FreeShared(m, s)
      OBVIOUS
    <2>6. /\ g \in Heap /\ g.cn = m.cn /\ g.shFree = Append(m.shFree, s)
          /\ g.cnFree = m.cnFree /\ g.queue = m.queue
          /\ g.sh[s] = Shared("Pending", m.sh[s].res, 0) /\ \A x \in Slot \ {s} : g.sh[x] = m.sh[x]
      BY <1>6, <2>5, FreeSharedShape
    <2>7. g.sh[s].fate = "Pending" /\ g.sh[s].conts = << >> /\ g.sh[s].ref = 0 /\ g.sh[s].comb = NoComb
      <3>1. m.sh[s].res \in Result
        BY <1>6, HeapFields
      <3> QED BY <2>6, <3>1, SharedFresh DEF Fate
    <2>8. LiveIn(g) = LiveIn(h) /\ (\A x : Refs(g, x) = Refs(h, x))
      BY <1>6, <1>7, <2>6, RefsSame
    <2>9. RefsOK(g, less)
      BY <1>6, <1>7, <1>8, <2>3, <2>6, <2>7, <2>8 DEF RefsOK
    <2>10. SlotsOK(g)
      <3>1. h.shFree \in Seq(Slot) /\ s \notin Range(h.shFree) /\ IsInjective(h.shFree)
        BY <1>1, <1>4, HeapFields DEF SlotsOK, Reclaimable
      <3>2. IsInjective(g.shFree) /\ Range(g.shFree) = Range(h.shFree) \cup {s}
        BY <1>6, <2>6, <3>1, AppendElements
      <3>3. \A x \in Slot \ {s} : /\ g.sh[x].ref = h.sh[x].ref /\ g.sh[x].conts = h.sh[x].conts
                                    /\ g.sh[x].fate = h.sh[x].fate
        BY <1>6, <2>6
      <3>4. \A x \in Slot : x \in Range(h.shFree) => h.sh[x].fate = "Pending"
        BY <1>1 DEF SlotsOK
      <3>5. \A x \in Slot : x \in Range(h.shFree) <=> Reclaimable(h.sh[x])
        BY <1>1 DEF SlotsOK
      <3>6. \A x \in Slot : x \in Range(g.shFree) <=> Reclaimable(g.sh[x])
        BY <2>7, <3>2, <3>3, <3>5 DEF Reclaimable
      <3>7. \A x \in Slot : x \in Range(g.shFree) => g.sh[x].fate = "Pending"
        BY <2>7, <3>2, <3>3, <3>4
      <3> QED BY <3>2, <3>6, <3>7 DEF SlotsOK
    <2>11. ContsOK(g, hand) /\ QueueOK(g, run)
      BY <1>1, <1>6, <2>6, <2>8 DEF ContsOK, QueueOK
    <2>12. ASSUME NEW x \in Slot PROVE LinkOK(g, run, x)
      <3>1. CASE x = s
        <4>1. Range(g.sh[x].conts) = {} /\ IsInjective(g.sh[x].conts)
          BY <2>7, <3>1 DEF Range, IsInjective
        <4> QED BY <2>7, <3>1, <4>1 DEF LinkOK
      <3>2. CASE x # s
        <4>1. LinkOK(h, run, x) /\ g.sh[x].conts = h.sh[x].conts /\ g.sh[x].fate = h.sh[x].fate
          BY <1>1, <1>6, <2>6, <3>2
        <4>2. g.cn = h.cn /\ g.queue = h.queue
          BY <1>6, <2>6
        <4> QED BY <2>8, <4>1, <4>2 DEF LinkOK
      <3> QED BY <3>1, <3>2
    <2>13. PlacedOK(g, run)
      BY <1>1, <1>6, <1>9, <2>3, <2>6, <2>8 DEF PlacedOK
    <2>14. Keeps(h, g)
      <3>1. h.shFree \in Seq(Slot)
        BY <1>1, HeapFields
      <3>2. Range(g.shFree) = Range(h.shFree) \cup {s}
        BY <1>6, <2>6, <3>1, AppendElements
      <3> QED BY <1>6, <2>6, <3>2 DEF Keeps, KeepsFates
    <2>15. CoreInv(g, less, hand, run)
      BY <2>6, <2>9, <2>10, <2>11, <2>12, <2>13 DEF CoreInv, PlacesOK
    <2>16. ASSUME NEW x, CombInv(h, x) PROVE CombInv(g, x)
      <3>1. \A y \in Slot : CombOK(h.sh[y].fate, h.sh[y].res, h.sh[y].comb)
        BY <2>16 DEF CombInv
      <3>2. \A y \in Slot : CombOK(g.sh[y].fate, g.sh[y].res, g.sh[y].comb)
        BY <1>6, <2>6, <2>7, <3>1, NoCombOK
      <3>3. \A c \in LiveIn(g) \ {x} : ReportsTo(g.cn[c], g.sh[g.cn[c].out].comb)
        BY <1>6, <2>2, <2>6, <2>8, <2>16 DEF CombInv
      <3> QED BY <1>6, <2>6, <2>8, <2>16, <3>2, <3>3 DEF CombInv
    <2>17. \A x \in Slot : g.sh[x].comb = h.sh[x].comb \/ (g.sh[x].comb = NoComb /\ less[x] = 0)
      BY <1>6, <2>1, <2>6, <2>7
    <2> QED BY <1>2, <1>3, <1>6, <1>10, <2>4, <2>5, <2>6, <2>14, <2>15, <2>16, <2>17 DEF Released
  <1> QED BY <1>11, <1>12

\* The continuation being run goes; its reference to the output is left for
\* the caller to drop.
LEMMA FreeContCore ==
  ASSUME NEW h, NEW ext \in [Slot -> Nat], NEW hand, NEW c \in Cont, CoreInv(h, ext, hand, c),
         NEW out, out = h.cn[c].out, c \in LiveIn(h)
  PROVE  LET g == FreeCont(h, c)
             more == More(ext, out) IN
         /\ out \in Slot
         /\ CoreInv(g, more, hand, 0) /\ Keeps(h, g) /\ g.sh = h.sh
         /\ LiveIn(g) = LiveIn(h) \ {c} /\ (\A x \in Cont \ {c} : g.cn[x] = h.cn[x])
         /\ CombInv(h, c) => CombInv(g, 0)
  <1>1. /\ h \in Heap /\ RefsOK(h, ext) /\ SlotsOK(h) /\ ContsOK(h, hand)
        /\ QueueOK(h, c) /\ PlacedOK(h, c) /\ \A x \in Slot : LinkOK(h, c, x)
    BY DEF CoreInv, PlacesOK
  <1>2. PICK g : g = FreeCont(h, c)
    OBVIOUS
  <1>3. /\ g \in Heap /\ g.sh = h.sh /\ g.shFree = h.shFree /\ g.cnFree = Append(h.cnFree, c) /\ g.queue = h.queue
        /\ g.cn[c] = NoCont /\ \A x \in Cont \ {c} : g.cn[x] = h.cn[x]
    BY <1>1, <1>2, FreeContShape
  <1>4. LiveIn(g) = LiveIn(h) \ {c}
    BY <1>3 DEF LiveIn
  <1>5. \A d \in LiveIn(g) : d \in LiveIn(h) /\ d # c /\ d \in Cont /\ g.cn[d] = h.cn[d]
    BY <1>3, <1>4 DEF LiveIn
  <1>6. out \in Slot
    BY <1>1, HeapFields
  <1>7. PICK more : more = More(ext, out)
    OBVIOUS
  <1>8. more \in [Slot -> Nat] /\ more[out] = ext[out] + 1 /\ \A x \in Slot \ {out} : more[x] = ext[x]
    BY <1>6, <1>7, MoreAndLess
  <1>9. RefsOK(g, more)
    <2>1. Refs(g, out) = Refs(h, out) \ {c} /\ c \in Refs(h, out)
      BY <1>4, <1>5 DEF Refs
    <2>2. \A x \in Slot \ {out} : Refs(g, x) = Refs(h, x)
      BY <1>4, <1>5 DEF Refs
    <2>3. Cardinality(Refs(g, out)) = Cardinality(Refs(h, out)) - 1
      <3>1. PICK R : R = Refs(h, out)
        OBVIOUS
      <3>2. IsFiniteSet(R) /\ c \in R
        BY <2>1, <3>1, RefsFinite
      <3>3. Cardinality(R \ {c}) = Cardinality(R) - 1
        BY <3>2, FS_RemoveElement
      <3> QED BY <2>1, <3>1, <3>3
    <2>4. Cardinality(Refs(h, out)) \in Nat /\ ext[out] \in Nat
      BY <1>6, RefsFinite
    <2>5. h.sh[out].ref = Cardinality(Refs(h, out)) + ext[out]
      BY <1>1, <1>6 DEF RefsOK
    <2>6. g.sh[out].ref = Cardinality(Refs(g, out)) + more[out]
      <3>1. PICK n, m, e : n = Cardinality(Refs(h, out)) /\ m = Cardinality(Refs(g, out)) /\ e = ext[out]
        OBVIOUS
      <3>2. n \in Nat /\ e \in Nat /\ m = n - 1 /\ g.sh[out].ref = n + e /\ more[out] = e + 1
        BY <1>3, <1>8, <2>3, <2>4, <2>5, <3>1
      <3> QED BY <3>1, <3>2
    <2>7. ASSUME NEW x \in Slot, x # out PROVE g.sh[x].ref = Cardinality(Refs(g, x)) + more[x]
      <3>1. h.sh[x].ref = Cardinality(Refs(h, x)) + ext[x]
        BY <1>1 DEF RefsOK
      <3> QED BY <1>3, <1>8, <2>2, <2>7, <3>1
    <2> QED BY <2>6, <2>7 DEF RefsOK
  <1>11. SlotsOK(g)
    BY <1>1, <1>3 DEF SlotsOK
  <1>12. ContsOK(g, hand)
    <2>1. h.cnFree \in Seq(Cont) /\ c \notin Range(h.cnFree) /\ IsInjective(h.cnFree) /\ c \notin hand
      BY <1>1, HeapFields DEF ContsOK
    <2>2. IsInjective(g.cnFree) /\ Range(g.cnFree) = Range(h.cnFree) \cup {c}
      BY <1>3, <2>1, AppendElements
    <2> QED BY <1>1, <1>4, <2>1, <2>2 DEF ContsOK
  <1>13. QueueOK(g, 0)
    <2>1. \A d \in Range(h.queue) : d \in LiveIn(h) /\ d # c /\ d # 0
      BY <1>1, Pools DEF QueueOK, LiveIn
    <2> QED BY <1>1, <1>3, <1>4, <2>1 DEF QueueOK
  <1>14. ASSUME NEW x \in Slot PROVE LinkOK(g, 0, x)
    <2>1. \A d \in Range(h.sh[x].conts) : d \in LiveIn(h) /\ h.cn[d].in = x /\ d \notin Range(h.queue) /\ d # c
      BY <1>1 DEF LinkOK
    <2>2. \A d \in LiveIn(h) : d # 0
      BY Pools DEF LiveIn
    <2> QED BY <1>1, <1>3, <1>4, <1>5, <2>1, <2>2 DEF LinkOK
  <1>15. PlacedOK(g, 0)
    BY <1>1, <1>3, <1>5 DEF PlacedOK
  <1>16. CoreInv(g, more, hand, 0) /\ Keeps(h, g)
    BY <1>3, <1>9, <1>11, <1>12, <1>13, <1>14, <1>15 DEF CoreInv, PlacesOK, Keeps, KeepsFates
  <1>17. CombInv(h, c) => CombInv(g, 0)
    BY <1>3, <1>5 DEF CombInv
  <1> QED BY <1>2, <1>3, <1>4, <1>6, <1>7, <1>16, <1>17

\* The tail of ExecuteCont: e with an input that is in the pool freed again, or e.
FreedTwice(e, g, in) == in \in Range(e.shFree) /\ g = FreeShared(e, in)
Ends(h, e, g, c, in, ext) ==
  /\ CoreInv(e, ext, {}, 0) /\ Keeps(h, e) /\ CombInv(e, 0)
  /\ \A x \in Slot : e.sh[x].comb = h.sh[x].comb \/ e.sh[x].comb = NoComb
  /\ LiveIn(e) = LiveIn(h) \ {c} /\ \A d \in Cont \ {c} : e.cn[d] = h.cn[d]
  /\ g = e \/ FreedTwice(e, g, in)

\* Trying the input at the end of ExecuteCont never takes back a slot that is in
\* use: it does nothing, or it frees a free slot.
LEMMA EndContCore ==
  ASSUME NEW h, NEW ext \in [Slot -> Nat], NEW c \in Cont, CoreInv(h, ext, {}, c), CombInv(h, c),
         c \in LiveIn(h), NEW in, in = h.cn[c].in, NEW out, out = h.cn[c].out
  PROVE  \E e : Ends(h, e, EndCont(h, c, in, out), c, in, ext)
  <1>1. PICK f : f = FreeCont(h, c)
    OBVIOUS
  <1>2. PICK more : more = More(ext, out)
    OBVIOUS
  <1>3. /\ out \in Slot
        /\ CoreInv(f, more, {}, 0) /\ Keeps(h, f) /\ f.sh = h.sh /\ CombInv(f, 0)
        /\ LiveIn(f) = LiveIn(h) \ {c} /\ \A d \in Cont \ {c} : f.cn[d] = h.cn[d]
    BY <1>1, <1>2, FreeContCore
  <1>4. more \in [Slot -> Nat] /\ more[out] > 0 /\ Less(more, out) = ext
    BY <1>2, <1>3, MoreAndLess
  <1>5. PICK e : e = Release(f, out)
    OBVIOUS
  <1>6. /\ CoreInv(e, ext, {}, 0) /\ Keeps(f, e) /\ CombInv(e, 0) /\ e.cn = f.cn
        /\ \A x \in Slot : e.sh[x].comb = f.sh[x].comb \/ e.sh[x].comb = NoComb
    <2>1. Released(f, e, Less(more, out), {}, 0)
      BY <1>3, <1>4, <1>5, ReleaseCore
    <2> QED BY <1>3, <1>4, <2>1 DEF Released
  <1>7. h \in Heap /\ SlotsOK(e)
    BY <1>6 DEF CoreInv
  <1>8. in \in Slot
    BY <1>7, HeapFields
  <1>9. PICK g : g = EndCont(h, c, in, out)
    OBVIOUS
  <1>10. g = TryReclaim(e, in)
    BY <1>1, <1>5, <1>9 DEF EndCont
  <1>11. g = e \/ FreedTwice(e, g, in)
    BY <1>7, <1>8, <1>10 DEF TryReclaim, SlotsOK, FreedTwice
  <1>12. Keeps(h, e)
    BY <1>3, <1>6, KeepsTrans DEF Keeps
  <1>13. LiveIn(e) = LiveIn(f)
    BY <1>6 DEF LiveIn
  <1>14. Ends(h, e, g, c, in, ext)
    BY <1>3, <1>6, <1>11, <1>12, <1>13 DEF Ends
  <1> QED BY <1>9, <1>14

\* The pump takes the first continuation.
LEMMA DequeueCore ==
  ASSUME NEW h, NEW ext, NEW hand, CoreInv(h, ext, hand, 0), h.queue # << >>, limit \in Nat
  PROVE  LET g == [h EXCEPT !.queue = Tail(@)]
             c == Head(h.queue) IN
         /\ CoreInv(g, ext, hand, c) /\ Keeps(h, g) /\ c \in LiveIn(h) /\ g.sh = h.sh /\ g.cn = h.cn
         /\ \A x : CombInv(h, x) => CombInv(g, x)
  <1>1. /\ h \in Heap /\ RefsOK(h, ext) /\ SlotsOK(h) /\ ContsOK(h, hand)
        /\ QueueOK(h, 0) /\ PlacedOK(h, 0) /\ \A x \in Slot : LinkOK(h, 0, x)
    BY DEF CoreInv, PlacesOK
  <1>2. PICK q : q = Tail(h.queue)
    OBVIOUS
  <1>3. PICK c : c = Head(h.queue)
    OBVIOUS
  <1>4. h.queue \in Seq(Cont) /\ IsInjective(h.queue) /\ Len(h.queue) <= limit
    BY <1>1, HeapFields DEF QueueOK
  <1>5. /\ q \in Seq(Cont) /\ IsInjective(q) /\ Range(q) = Range(h.queue) \ {c}
        /\ c \in Range(h.queue) /\ c \in Cont /\ Len(q) = Len(h.queue) - 1
    BY <1>2, <1>3, <1>4, TailElements
  <1>6. PICK g : g = [h EXCEPT !.queue = q]
    OBVIOUS
  <1>7. g \in Heap /\ g.sh = h.sh /\ g.cn = h.cn /\ g.shFree = h.shFree /\ g.cnFree = h.cnFree /\ g.queue = q
    BY <1>1, <1>5, <1>6, WithQueue
  <1>8. LiveIn(g) = LiveIn(h) /\ (\A x : Refs(g, x) = Refs(h, x))
    BY <1>7, RefsSame
  <1>9. c \in LiveIn(h)
    BY <1>1, <1>5 DEF QueueOK
  <1>10. RefsOK(g, ext) /\ SlotsOK(g) /\ ContsOK(g, hand)
    BY <1>1, <1>7, <1>8 DEF RefsOK, SlotsOK, ContsOK, Reclaimable
  <1>11. QueueOK(g, c)
    <2>1. Len(h.queue) \in Nat
      BY <1>4
    <2>2. Len(q) <= limit
      BY <1>4, <1>5, <2>1
    <2> QED BY <1>1, <1>5, <1>7, <1>8, <2>2 DEF QueueOK
  <1>12. ASSUME NEW x \in Slot PROVE LinkOK(g, c, x)
    BY <1>1, <1>5, <1>7, <1>8 DEF LinkOK
  <1>13. PlacedOK(g, c)
    <2>1. \A d \in LiveIn(h) : d \in Cont /\ d # 0
      BY Pools DEF LiveIn
    <2> QED BY <1>1, <1>5, <1>7, <1>8, <1>9, <2>1 DEF PlacedOK
  <1>14. CoreInv(g, ext, hand, c) /\ Keeps(h, g)
    BY <1>7, <1>10, <1>11, <1>12, <1>13 DEF CoreInv, PlacesOK, Keeps, KeepsFates
  <1>15. ASSUME NEW x, CombInv(h, x) PROVE CombInv(g, x)
    BY <1>7, <1>8, <1>15 DEF CombInv
  <1>16. g = [h EXCEPT !.queue = Tail(@)]
    BY <1>2, <1>6
  <1> QED BY <1>3, <1>7, <1>9, <1>14, <1>15, <1>16

\* A continuation that was taken is attached: linked to a pending input,
\* enqueued for a settled one.
Attached(h, g, c, k, ext, hand, run) ==
  /\ CoreInv(g, ext, hand \ {c}, run) /\ Keeps(h, g) /\ LiveIn(g) = LiveIn(h) \cup {c} /\ c \notin LiveIn(h)
  /\ g.cn[c] = k /\ (\A x \in Cont \ {c} : g.cn[x] = h.cn[x]) /\ g.cnFree = h.cnFree
  /\ \A x \in Slot : g.sh[x].fate = h.sh[x].fate /\ g.sh[x].res = h.sh[x].res /\ g.sh[x].comb = h.sh[x].comb

\* Attach of a continuation an operation has in hand.
LEMMA AttachCore ==
  ASSUME NEW h, NEW ext \in [Slot -> Nat], NEW hand, NEW run, CoreInv(h, ext, hand, run), limit \in Nat,
         NEW c \in hand, NEW kind \in Kind, NEW in \in Slot, NEW out \in Slot, NEW idx \in 1 .. MaxAllSize,
         ext[in] > 0, ext[out] > 0, CanAttach(h, in)
  PROVE  Attached(h, Attach(h, c, kind, in, out, idx), c,
                  [kind |-> kind, in |-> in, out |-> out, idx |-> idx], ext, hand, run)
  <1>1. /\ h \in Heap /\ RefsOK(h, ext) /\ SlotsOK(h) /\ ContsOK(h, hand)
        /\ QueueOK(h, run) /\ PlacedOK(h, run) /\ \A x \in Slot : LinkOK(h, run, x)
    BY DEF CoreInv, PlacesOK
  <1>2. c \in Cont /\ c \notin Range(h.cnFree) /\ c \notin LiveIn(h)
    BY <1>1 DEF ContsOK
  <1>3. PICK g : g = Attach(h, c, kind, in, out, idx)
    OBVIOUS
  <1>4. PICK k : k = [kind |-> kind, in |-> in, out |-> out, idx |-> idx]
    OBVIOUS
  <1>5. k \in ContRec /\ k.kind = kind /\ k.in = in /\ k.out = out /\ k.idx = idx /\ k # NoCont
    BY <1>4 DEF ContRec, NoCont, Kind
  <1>6. Links(h, g, c, k, in, out)
    BY <1>1, <1>2, <1>3, <1>4, AttachShape
  <1>7. /\ g \in Heap /\ g.shFree = h.shFree /\ g.cnFree = h.cnFree
        /\ g.cn[c] = k /\ \A x \in Cont \ {c} : g.cn[x] = h.cn[x]
    BY <1>6 DEF Links
  <1>8. g.queue = IF h.sh[in].fate = "Pending" THEN h.queue ELSE Append(h.queue, c)
    BY <1>6 DEF Links
  <1>9. g.sh[out].ref = h.sh[out].ref + 1 /\ \A x \in Slot \ {out} : g.sh[x].ref = h.sh[x].ref
    BY <1>6 DEF Links
  <1>10. /\ h.sh[in].fate = "Pending" => g.sh[in].conts = Append(h.sh[in].conts, c)
        /\ \A x \in Slot : x # in \/ h.sh[in].fate # "Pending" => g.sh[x].conts = h.sh[x].conts
    BY <1>6 DEF Links
  <1>11. \A x \in Slot : g.sh[x].fate = h.sh[x].fate /\ g.sh[x].res = h.sh[x].res /\ g.sh[x].comb = h.sh[x].comb
    BY <1>6 DEF Links
  <1>12. LiveIn(g) = LiveIn(h) \cup {c}
    BY <1>2, <1>5, <1>7 DEF LiveIn
  <1>13. \A d \in LiveIn(h) : d # c /\ d \in Cont /\ g.cn[d] = h.cn[d]
    BY <1>2, <1>7 DEF LiveIn
  <1>14. c # run
    BY <1>1, <1>2, Pools DEF PlacedOK
  <1>15. h.queue \in Seq(Cont) /\ IsInjective(h.queue) /\ c \notin Range(h.queue) /\ Len(h.queue) <= limit
    BY <1>1, <1>2, HeapFields DEF QueueOK
  <1>16. \A x \in Slot : h.sh[x].conts \in Seq(Cont) /\ IsInjective(h.sh[x].conts) /\ c \notin Range(h.sh[x].conts)
    BY <1>1, <1>2, HeapFields DEF LinkOK
  <1>17. RefsOK(g, ext)
    <2>1. Refs(g, out) = Refs(h, out) \cup {c} /\ c \notin Refs(h, out)
      BY <1>2, <1>5, <1>7, <1>12, <1>13 DEF Refs
    <2>2. \A x \in Slot \ {out} : Refs(g, x) = Refs(h, x)
      BY <1>5, <1>7, <1>12, <1>13 DEF Refs
    <2>3. Cardinality(Refs(g, out)) = Cardinality(Refs(h, out)) + 1
      <3>1. PICK R : R = Refs(h, out)
        OBVIOUS
      <3>2. IsFiniteSet(R) /\ c \notin R
        BY <2>1, <3>1, RefsFinite
      <3>3. Cardinality(R \cup {c}) = Cardinality(R) + 1
        BY <3>2, FS_AddElement
      <3> QED BY <2>1, <3>1, <3>3
    <2>4. g.sh[out].ref = Cardinality(Refs(g, out)) + ext[out]
      <3>1. PICK n, m, e : n = Cardinality(Refs(h, out)) /\ m = Cardinality(Refs(g, out)) /\ e = ext[out]
        OBVIOUS
      <3>2. n \in Nat /\ e \in Nat /\ m = n + 1 /\ h.sh[out].ref = n + e
        BY <1>1, <2>3, <3>1, RefsFinite DEF RefsOK
      <3> QED BY <1>9, <3>1, <3>2
    <2>5. ASSUME NEW x \in Slot, x # out PROVE g.sh[x].ref = Cardinality(Refs(g, x)) + ext[x]
      <3>1. h.sh[x].ref = Cardinality(Refs(h, x)) + ext[x]
        BY <1>1 DEF RefsOK
      <3> QED BY <1>9, <2>2, <2>5, <3>1
    <2> QED BY <2>4, <2>5 DEF RefsOK
  <1>19. SlotsOK(g)
    <2>1. h.sh[out].ref \in Nat /\ h.sh[out].ref > 0 /\ h.sh[in].ref \in Nat /\ h.sh[in].ref > 0
      BY <1>1, Counted
    <2>2. \A x \in Slot : Reclaimable(g.sh[x]) <=> Reclaimable(h.sh[x])
      BY <1>9, <1>10, <2>1 DEF Reclaimable
    <2> QED BY <1>1, <1>7, <1>11, <2>2 DEF SlotsOK
  <1>20. ContsOK(g, hand \ {c})
    BY <1>1, <1>2, <1>7, <1>12 DEF ContsOK
  <1>21. CASE h.sh[in].fate = "Pending"
    <2>1. g.queue = h.queue
      BY <1>8, <1>21
    <2>2. QueueOK(g, run)
      BY <1>1, <1>12, <2>1 DEF QueueOK
    <2>3. /\ g.sh[in].conts = Append(h.sh[in].conts, c) /\ \A x \in Slot : x # in => g.sh[x].conts = h.sh[x].conts
      BY <1>10, <1>21
    <2>4. IsInjective(g.sh[in].conts) /\ Range(g.sh[in].conts) = Range(h.sh[in].conts) \cup {c}
      BY <1>2, <1>16, <2>3, AppendElements
    <2>5. ASSUME NEW x \in Slot PROVE LinkOK(g, run, x)
      <3>1. \A d \in Range(h.sh[x].conts) : d \in LiveIn(h) /\ h.cn[d].in = x /\ d \notin Range(h.queue) /\ d # run
        BY <1>1 DEF LinkOK
      <3>2. \A d \in Range(h.sh[x].conts) : d \in LiveIn(g) /\ g.cn[d].in = x /\ d \notin Range(g.queue) /\ d # run
        BY <1>12, <1>13, <2>1, <3>1
      <3>3. CASE x = in
        <4>1. c \in LiveIn(g) /\ g.cn[c].in = x /\ c \notin Range(g.queue) /\ c # run
          BY <1>5, <1>7, <1>12, <1>14, <1>15, <2>1, <3>3
        <4> QED BY <1>11, <1>21, <2>4, <3>2, <3>3, <4>1 DEF LinkOK
      <3>4. CASE x # in
        <4>1. LinkOK(h, run, x) /\ g.sh[x].conts = h.sh[x].conts /\ g.sh[x].fate = h.sh[x].fate
          BY <1>1, <1>11, <2>3, <3>4
        <4> QED BY <3>2, <4>1 DEF LinkOK
      <3> QED BY <3>3, <3>4
    <2>6. PlacedOK(g, run)
      <3>1. ASSUME NEW d \in LiveIn(g)
            PROVE  d \in Range(g.queue) \/ d \in Range(g.sh[g.cn[d].in].conts) \/ d = run
        <4>1. CASE d = c
          BY <1>5, <1>7, <2>4, <4>1
        <4>2. CASE d # c
          <5>1. d \in LiveIn(h) /\ h.cn[d].in \in Slot /\ g.cn[d] = h.cn[d]
            BY <1>1, <1>12, <1>13, <4>2, HeapFields
          <5>2. d \in Range(h.queue) \/ d \in Range(h.sh[h.cn[d].in].conts) \/ d = run
            BY <1>1, <5>1 DEF PlacedOK
          <5> QED BY <2>1, <2>3, <2>4, <5>1, <5>2
        <4> QED BY <4>1, <4>2
      <3> QED BY <1>1, <1>12, <3>1 DEF PlacedOK
    <2> QED BY <1>2, <1>3, <1>4, <1>7, <1>11, <1>12, <1>17, <1>19, <1>20, <2>2, <2>5, <2>6
            DEF CoreInv, PlacesOK, Keeps, KeepsFates, Attached
  <1>22. CASE h.sh[in].fate # "Pending"
    <2>1. g.queue = Append(h.queue, c) /\ \A x \in Slot : g.sh[x].conts = h.sh[x].conts
      BY <1>8, <1>10, <1>22
    <2>2. IsInjective(g.queue) /\ Range(g.queue) = Range(h.queue) \cup {c} /\ Len(g.queue) = Len(h.queue) + 1
      BY <1>2, <1>15, <2>1, AppendElements
    <2>3. Len(g.queue) <= limit
      <3>1. Len(h.queue) \in Nat /\ Len(h.queue) < limit
        BY <1>15, <1>22 DEF CanAttach
      <3> QED BY <2>2, <3>1
    <2>4. QueueOK(g, run)
      BY <1>1, <1>12, <1>14, <2>2, <2>3 DEF QueueOK
    <2>5. ASSUME NEW x \in Slot PROVE LinkOK(g, run, x)
      <3>1. \A d \in Range(h.sh[x].conts) : d \in LiveIn(h) /\ h.cn[d].in = x /\ d \notin Range(h.queue) /\ d # run
        BY <1>1 DEF LinkOK
      <3>2. \A d \in Range(h.sh[x].conts) : d \in LiveIn(g) /\ g.cn[d].in = x /\ d \notin Range(g.queue) /\ d # run
        BY <1>12, <1>13, <2>2, <3>1
      <3>3. LinkOK(h, run, x) /\ g.sh[x].conts = h.sh[x].conts /\ g.sh[x].fate = h.sh[x].fate
        BY <1>1, <1>11, <2>1
      <3> QED BY <3>2, <3>3 DEF LinkOK
    <2>6. PlacedOK(g, run)
      <3>1. ASSUME NEW d \in LiveIn(g)
            PROVE  d \in Range(g.queue) \/ d \in Range(g.sh[g.cn[d].in].conts) \/ d = run
        <4>1. CASE d = c
          BY <2>2, <4>1
        <4>2. CASE d # c
          <5>1. d \in LiveIn(h) /\ h.cn[d].in \in Slot /\ g.cn[d] = h.cn[d]
            BY <1>1, <1>12, <1>13, <4>2, HeapFields
          <5>2. d \in Range(h.queue) \/ d \in Range(h.sh[h.cn[d].in].conts) \/ d = run
            BY <1>1, <5>1 DEF PlacedOK
          <5> QED BY <2>1, <2>2, <5>1, <5>2
        <4> QED BY <4>1, <4>2
      <3> QED BY <1>1, <1>12, <3>1 DEF PlacedOK
    <2> QED BY <1>2, <1>3, <1>4, <1>7, <1>11, <1>12, <1>17, <1>19, <1>20, <2>4, <2>5, <2>6
            DEF CoreInv, PlacesOK, Keeps, KeepsFates, Attached
  <1> QED BY <1>21, <1>22

\* The combiner the new continuation reports to awaits a result at its index.
LEMMA AttachComb ==
  ASSUME NEW h, NEW g, NEW c, NEW k \in ContRec, NEW ext, NEW hand, NEW run,
         Attached(h, g, c, k, ext, hand, run), CombInv(h, 0), ReportsTo(k, h.sh[k.out].comb), h \in Heap,
         \A d \in LiveIn(h) : h.cn[d].out = k.out => h.cn[d].idx # k.idx
  PROVE  CombInv(g, 0)
  <1>1. /\ LiveIn(g) = LiveIn(h) \cup {c} /\ c \notin LiveIn(h) /\ g.cn[c] = k
        /\ \A x \in Cont \ {c} : g.cn[x] = h.cn[x]
    BY DEF Attached
  <1>2. \A x \in Slot : g.sh[x].fate = h.sh[x].fate /\ g.sh[x].res = h.sh[x].res /\ g.sh[x].comb = h.sh[x].comb
    BY DEF Attached
  <1>3. \A d \in LiveIn(h) : d \in Cont /\ g.cn[d] = h.cn[d] /\ h.cn[d].out \in Slot
    BY <1>1, HeapFields
  <1>4. \A x \in Slot : CombOK(g.sh[x].fate, g.sh[x].res, g.sh[x].comb)
    BY <1>2 DEF CombInv
  <1>5. \A d \in LiveIn(h) \ {0} : ReportsTo(g.cn[d], g.sh[g.cn[d].out].comb)
    BY <1>2, <1>3 DEF CombInv
  <1>6. ReportsTo(g.cn[c], g.sh[g.cn[c].out].comb)
    BY <1>1, <1>2 DEF ContRec
  <1>7. \A a, b \in LiveIn(h) :
       h.cn[a].kind = "All" /\ h.cn[a].out = h.cn[b].out /\ h.cn[a].idx = h.cn[b].idx => a = b
    BY DEF CombInv
  <1>8. \A a, b \in LiveIn(g) :
       g.cn[a].kind = "All" /\ g.cn[a].out = g.cn[b].out /\ g.cn[a].idx = g.cn[b].idx => a = b
    BY <1>1, <1>3, <1>7
  <1> QED BY <1>1, <1>4, <1>5, <1>6, <1>8 DEF CombInv

\* Continuations that were taken and not used go back.
LEMMA FreeContsCore ==
  ASSUME NEW h, NEW ext, NEW run, NEW t \in Seq(Cont), IsInjective(t), CoreInv(h, ext, Range(t), run)
  PROVE  LET g == FreeConts(h, t) IN
         Relisted(h, g, ext, {}, run) /\ g.sh = h.sh /\ (\A c \in Cont : g.cn[c] = h.cn[c])
  <1>1. h \in Heap /\ ContsOK(h, Range(t)) /\ h.cnFree \in Seq(Cont)
    BY HeapFields DEF CoreInv
  <1>2. PICK g : g = FreeConts(h, t)
    OBVIOUS
  <1>3. /\ g \in Heap /\ g.sh = h.sh /\ g.shFree = h.shFree /\ g.cnFree = h.cnFree \o t /\ g.queue = h.queue
        /\ \A x \in Cont : g.cn[x] = IF x \in Range(t) THEN NoCont ELSE h.cn[x]
    BY <1>1, <1>2, FreeContsShape
  <1>4. \A c \in Cont : g.cn[c] = h.cn[c]
    BY <1>1, <1>3 DEF ContsOK, LiveIn
  <1>5. IsInjective(h.cnFree) /\ Range(h.cnFree) \cap Range(t) = {}
    BY <1>1 DEF ContsOK
  <1>6. IsInjective(g.cnFree) /\ Range(g.cnFree) = Range(h.cnFree) \cup Range(t)
    BY <1>1, <1>3, <1>5, ConcatElements
  <1>7. {} \subseteq Cont \ Range(g.cnFree) /\ Range(g.cnFree) \cup {} = Range(h.cnFree) \cup Range(t)
    BY <1>6
  <1>8. Relisted(h, g, ext, {}, run)
    BY <1>3, <1>4, <1>6, <1>7, FreeListCore
  <1> QED BY <1>2, <1>3, <1>4, <1>8

\* The rest of a sequence from a position on.
Rest(cs, i) == {cs[j] : j \in i .. Len(cs)}

\* The continuations not attached yet, as a sequence and as a set.
LEMMA RestElements ==
  ASSUME NEW cs \in Seq(Cont), IsInjective(cs), NEW i \in 1 .. Len(cs)
  PROVE  /\ SubSeq(cs, i, Len(cs)) \in Seq(Cont) /\ IsInjective(SubSeq(cs, i, Len(cs)))
         /\ Range(SubSeq(cs, i, Len(cs))) = Rest(cs, i)
         /\ cs[i] \in Rest(cs, i) /\ Rest(cs, i) \ {cs[i]} = Rest(cs, i + 1)
  <1>1. PICK n : n = Len(cs)
    OBVIOUS
  <1>2. n \in Nat /\ DOMAIN cs = 1 .. n /\ i \in Nat /\ i >= 1 /\ i <= n
    BY <1>1
  <1>3. PICK t : t = SubSeq(cs, i, n)
    OBVIOUS
  <1>4. t \in Seq(Cont) /\ IsInjective(t)
    <2>1. PICK k : k = i - 1
      OBVIOUS
    <2>2. k \in 0 .. Len(cs) /\ i = k + 1
      BY <1>1, <1>2, <2>1
    <2>3. SubSeq(cs, k + 1, Len(cs)) \in Seq(Cont) /\ IsInjective(SubSeq(cs, k + 1, Len(cs)))
      BY <2>2, SplitElements
    <2> QED BY <1>1, <1>3, <2>2, <2>3
  <1>5. DOMAIN t = 1 .. (n - i) + 1 /\ \A j \in 1 .. (n - i) + 1 : t[j] = cs[i + j - 1]
    BY <1>1, <1>2, <1>3
  <1>6. Range(t) = Rest(cs, i)
    <2>1. \A j \in 1 .. (n - i) + 1 : t[j] \in Rest(cs, i)
      <3>1. \A j \in 1 .. (n - i) + 1 : i + j - 1 \in i .. n
        BY <1>2
      <3> QED BY <1>1, <1>5, <3>1 DEF Rest
    <2>2. \A j \in i .. n : cs[j] \in Range(t)
      <3>1. \A j \in i .. n : (j - i) + 1 \in 1 .. (n - i) + 1 /\ i + ((j - i) + 1) - 1 = j
        BY <1>2
      <3>2. \A j \in i .. n : t[(j - i) + 1] = cs[j]
        BY <1>5, <3>1
      <3> QED BY <1>5, <3>1, <3>2 DEF Range
    <2>3. Range(t) = {t[j] : j \in 1 .. (n - i) + 1}
      BY <1>5 DEF Range
    <2> QED BY <1>1, <2>1, <2>2, <2>3 DEF Rest
  <1>7. cs[i] \in Rest(cs, i) /\ Rest(cs, i) \ {cs[i]} = Rest(cs, i + 1)
    <2>1. \A j \in i .. n : j \in DOMAIN cs /\ (j = i \/ j \in i + 1 .. n)
      BY <1>2
    <2>2. \A j \in i + 1 .. n : j \in DOMAIN cs /\ j # i /\ j \in i .. n
      BY <1>2
    <2>3. i \in i .. n
      BY <1>2
    <2>4. \A j \in i + 1 .. n : cs[j] # cs[i]
      BY <1>2, <2>2 DEF IsInjective
    <2> QED BY <1>1, <2>1, <2>2, <2>3, <2>4 DEF Rest
  <1> QED BY <1>1, <1>3, <1>4, <1>6, <1>7

\* The heap after the first i continuations of All or Race were attached, and
\* a heap in which the operation is over.  What was live is as it was.
Stays(h, g) == \A c \in LiveIn(h) : c \in LiveIn(g) /\ g.cn[c] = h.cn[c]
CombsStay(h, g) == \A x \in Slot : g.sh[x].comb = h.sh[x].comb \/ g.sh[x].comb = NoComb

Going(h, g, i, ext, cs, out, run) ==
  /\ CoreInv(g, ext, Rest(cs, i + 1), run) /\ InputsHeld(g) /\ Keeps(h, g) /\ CombInv(g, 0)
  /\ Stays(h, g) /\ \A x \in Slot : g.sh[x].comb = h.sh[x].comb
  /\ \A c \in LiveIn(g) : g.cn[c].out = out => g.cn[c].idx \in 1 .. i
Over(h, g, ext, run) ==
  /\ CoreInv(g, ext, {}, run) /\ InputsHeld(g) /\ Keeps(h, g) /\ CombInv(g, 0)
  /\ Stays(h, g) /\ CombsStay(h, g)

Stepped(h, b, i, ext, cs, out, run) ==
  \/ b = [ok |-> TRUE, h |-> b.h] /\ Going(h, b.h, i, ext, cs, out, run)
  \/ b.ok = FALSE /\ Over(h, b.h, Less(ext, out), run)

\* One turn of the loop of All and Race.
LEMMA AttachStep ==
  ASSUME NEW h, NEW ext \in [Slot -> Nat], NEW run, NEW out \in Slot, ext[out] > 0, limit \in Nat,
         NEW cs \in Seq(Cont), IsInjective(cs), NEW i \in 1 .. Len(cs), Len(cs) <= MaxAllSize,
         NEW fs \in [1 .. Len(cs) -> Slot], ext[fs[i]] > 0, Handle(fs[i]), NEW kind \in Kind,
         \A in \in Slot : ReportsTo([kind |-> kind, in |-> in, out |-> out, idx |-> i], h.sh[out].comb),
         NEW g, NEW j, j = i - 1, Going(h, g, j, ext, cs, out, run)
  PROVE  Stepped(h, AttachNext([ok |-> TRUE, h |-> g], kind, cs, fs, out, i), i, ext, cs, out, run)
  <1>1. i = j + 1 /\ i \in Nat /\ j \in Nat /\ i \in 1 .. MaxAllSize
    BY Pools
  <1>2. /\ CoreInv(g, ext, Rest(cs, i), run) /\ InputsHeld(g) /\ Keeps(h, g) /\ CombInv(g, 0)
        /\ Stays(h, g) /\ (\A x \in Slot : g.sh[x].comb = h.sh[x].comb)
        /\ \A c \in LiveIn(g) : g.cn[c].out = out => g.cn[c].idx \in 1 .. j
    BY <1>1 DEF Going
  <1>3. g \in Heap
    BY <1>2 DEF CoreInv
  <1>4. PICK in : in = fs[i]
    OBVIOUS
  <1>5. in \in Slot /\ ext[in] > 0 /\ Handle(in)
    BY <1>4
  <1>6. PICK c : c = cs[i]
    OBVIOUS
  <1>7. c \in Rest(cs, i) /\ Rest(cs, i) \ {c} = Rest(cs, i + 1)
    BY <1>6, RestElements
  <1>8. PICK b : b = AttachNext([ok |-> TRUE, h |-> g], kind, cs, fs, out, i)
    OBVIOUS
  <1>9. CASE CanAttach(g, in)
    <2>1. PICK f : f = Attach(g, c, kind, in, out, i)
      OBVIOUS
    <2>2. b = [ok |-> TRUE, h |-> f]
      BY <1>4, <1>6, <1>8, <1>9, <2>1 DEF AttachNext
    <2>3. PICK k : k = [kind |-> kind, in |-> in, out |-> out, idx |-> i]
      OBVIOUS
    <2>4. k \in ContRec /\ k.in = in /\ k.out = out /\ k.idx = i
      BY <1>1, <1>5, <2>3 DEF ContRec
    <2>5. Attached(g, f, c, k, ext, Rest(cs, i), run)
      BY <1>1, <1>2, <1>5, <1>7, <1>9, <2>1, <2>3, AttachCore
    <2>6. CombInv(f, 0)
      <3>1. ReportsTo(k, g.sh[k.out].comb)
        BY <1>2, <1>5, <2>3, <2>4
      <3>2. \A d \in LiveIn(g) : g.cn[d].out = k.out => g.cn[d].idx # k.idx
        BY <1>1, <1>2, <2>4
      <3> QED BY <1>2, <1>3, <2>4, <2>5, <3>1, <3>2, AttachComb
    <2>7. /\ CoreInv(f, ext, Rest(cs, i + 1), run) /\ Keeps(g, f) /\ LiveIn(f) = LiveIn(g) \cup {c} /\ c \notin LiveIn(g)
          /\ f.cn[c] = k /\ (\A x \in Cont \ {c} : f.cn[x] = g.cn[x])
          /\ \A x \in Slot : f.sh[x].comb = g.sh[x].comb
      BY <1>7, <2>5 DEF Attached
    <2>8. \A d \in LiveIn(g) : d \in LiveIn(f) /\ f.cn[d] = g.cn[d]
      BY <2>7 DEF LiveIn
    <2>9. Stays(h, f)
      BY <1>2, <2>8 DEF Stays
    <2>10. InputsHeld(f)
      BY <1>2, <1>5, <2>4, <2>7, <2>8 DEF InputsHeld
    <2>11. Keeps(h, f)
      BY <1>2, <2>7, KeepsTrans DEF Keeps
    <2>12. \A d \in LiveIn(f) : f.cn[d].out = out => f.cn[d].idx \in 1 .. i
      <3>1. 1 .. j \subseteq 1 .. i /\ i \in 1 .. i
        BY <1>1
      <3>2. \A d \in LiveIn(g) : f.cn[d].out = out => f.cn[d].idx \in 1 .. i
        BY <1>2, <2>8, <3>1
      <3>3. f.cn[c].idx \in 1 .. i
        BY <2>4, <2>7, <3>1
      <3> QED BY <2>7, <3>2, <3>3
    <2>13. Going(h, f, i, ext, cs, out, run)
      BY <1>2, <2>6, <2>7, <2>9, <2>10, <2>11, <2>12 DEF Going
    <2>14. b.h = f /\ b = [ok |-> TRUE, h |-> b.h]
      BY <2>2
    <2> QED BY <1>8, <2>13, <2>14 DEF Stepped
  <1>10. CASE ~ CanAttach(g, in)
    <2>1. PICK t : t = SubSeq(cs, i, Len(cs))
      OBVIOUS
    <2>2. t \in Seq(Cont) /\ IsInjective(t) /\ Range(t) = Rest(cs, i)
      BY <2>1, RestElements
    <2>3. PICK f : f = FreeConts(g, t)
      OBVIOUS
    <2>4. PICK e : e = Release(f, out)
      OBVIOUS
    <2>5. b.ok = FALSE /\ b.h = e
      BY <1>4, <1>8, <1>10, <2>1, <2>3, <2>4 DEF AttachNext
    <2>6. Relisted(g, f, ext, {}, run) /\ f.sh = g.sh /\ (\A d \in Cont : f.cn[d] = g.cn[d])
      BY <1>2, <2>2, <2>3, FreeContsCore
    <2>7. CoreInv(f, ext, {}, run) /\ Keeps(g, f) /\ CombInv(f, 0)
      BY <1>2, <2>6 DEF Relisted
    <2>8. LiveIn(f) = LiveIn(g) /\ LiveIn(g) \subseteq Cont
      BY <2>6, RefsSame DEF LiveIn
    <2>10. Released(f, e, Less(ext, out), {}, run)
      BY <2>4, <2>7, ReleaseCore
    <2>11. /\ CoreInv(e, Less(ext, out), {}, run) /\ Keeps(f, e) /\ CombInv(e, 0) /\ e.cn = f.cn
           /\ \A x \in Slot : e.sh[x].comb = f.sh[x].comb \/ e.sh[x].comb = NoComb
      BY <2>7, <2>10 DEF Released
    <2>12. LiveIn(e) = LiveIn(g)
      BY <2>8, <2>11 DEF LiveIn
    <2>13. Stays(h, e) /\ CombsStay(h, e) /\ InputsHeld(e)
      BY <1>2, <2>6, <2>8, <2>11, <2>12 DEF Stays, CombsStay, InputsHeld
    <2>14. Keeps(h, e)
      BY <1>2, <2>7, <2>11, KeepsTrans DEF Keeps
    <2> QED BY <1>8, <2>5, <2>11, <2>13, <2>14 DEF Over, Stepped
  <1> QED BY <1>9, <1>10

\* AttachAll runs AttachNext over the futures, from the first to the last.
IsRun(a, h, kind, cs, fs, out, n) ==
  a[0] = [ok |-> TRUE, h |-> h] /\ \A i \in 1 .. n : a[i] = AttachNext(a[i - 1], kind, cs, fs, out, i)

\* AttachAll is the end of a run of AttachNext.
LEMMA AttachRuns ==
  ASSUME NEW h, NEW kind, NEW cs, NEW n \in Nat, NEW fs \in [1 .. n -> Slot], NEW out
  PROVE  \E a : IsRun(a, h, kind, cs, fs, out, n) /\ AttachAll(h, kind, cs, fs, out) = a[n]
  <1> DEFINE Step(f, m) == [i \in 0 .. m |-> IF i = 0 THEN [ok |-> TRUE, h |-> h]
                                             ELSE AttachNext(f[i - 1], kind, cs, fs, out, i)]
             Missing == {m \in Nat : \A f : f # Step(f, m)}
  <1>1. Missing = {}
    <2> SUFFICES ASSUME Missing # {} PROVE FALSE
      OBVIOUS
    <2>1. PICK m \in Missing : \A y \in Missing : m <= y
      <3>1. Missing \subseteq Nat
        OBVIOUS
      <3> HIDE DEF Missing
      <3> QED BY <3>1, LeastNat
    <2>2. m \in Nat /\ \A f : f # Step(f, m)
      OBVIOUS
    <2>3. CASE m = 0
      <3>1. PICK f : f = [i \in 0 .. m |-> [ok |-> TRUE, h |-> h]]
        OBVIOUS
      <3>2. f = Step(f, m)
        BY <2>3, <3>1
      <3> QED BY <2>2, <3>2
    <2>4. CASE m # 0
      <3>1. m - 1 \in Nat /\ m - 1 \notin Missing
        <4> HIDE DEF Missing
        <4> QED BY <2>1, <2>2, <2>4
      <3>2. PICK f : f = Step(f, m - 1)
        BY <3>1
      <3>3. PICK e : e = [i \in 0 .. m |-> IF i = m THEN AttachNext(f[m - 1], kind, cs, fs, out, m) ELSE f[i]]
        OBVIOUS
      <3>4. \A i \in 0 .. m - 1 : e[i] = f[i]
        BY <2>2, <3>3
      <3>5. ASSUME NEW i \in 0 .. m
            PROVE e[i] = IF i = 0 THEN [ok |-> TRUE, h |-> h] ELSE AttachNext(e[i - 1], kind, cs, fs, out, i)
        <4>1. CASE i = m
          BY <2>2, <2>4, <3>3, <3>4, <4>1
        <4>2. CASE i # m
          <5>1. i \in 0 .. m - 1
            BY <2>2, <4>2
          <5>2. f[i] = IF i = 0 THEN [ok |-> TRUE, h |-> h] ELSE AttachNext(f[i - 1], kind, cs, fs, out, i)
            BY <3>2, <5>1, Zenon
          <5>3. CASE i = 0
            BY <3>4, <5>1, <5>2, <5>3
          <5>4. CASE i # 0
            <6>1. i - 1 \in 0 .. m - 1
              BY <2>2, <5>1, <5>4
            <6> QED BY <3>4, <5>1, <5>2, <5>4, <6>1
          <5> QED BY <5>3, <5>4
        <4> QED BY <4>1, <4>2
      <3>6. e = Step(e, m)
        BY <3>3, <3>5
      <3> QED BY <2>2, <3>6
    <2> QED BY <2>3, <2>4
  <1>2. Len(fs) = n
    OBVIOUS
  <1>3. PICK a : a = CHOOSE f : f = Step(f, n)
    OBVIOUS
  <1>4. a = Step(a, n)
    <2>1. n \notin Missing
      BY <1>1
    <2>2. \E f : f = Step(f, n)
      BY <2>1, Zenon
    <2> QED BY <1>3, <2>2, Zenon
  <1>5. a[0] = [ok |-> TRUE, h |-> h] /\ \A i \in 1 .. n : a[i] = AttachNext(a[i - 1], kind, cs, fs, out, i)
    <2>1. \A i \in 0 .. n : a[i] = IF i = 0 THEN [ok |-> TRUE, h |-> h]
                                           ELSE AttachNext(a[i - 1], kind, cs, fs, out, i)
      BY <1>4, Zenon
    <2>2. 0 \in 0 .. n /\ \A i \in 1 .. n : i \in 0 .. n /\ i # 0
      OBVIOUS
    <2> QED BY <2>1, <2>2, Zenon
  <1>6. AttachAll(h, kind, cs, fs, out) = a[n]
    BY <1>2, <1>3, Zenon DEF AttachAll
  <1>7. IsRun(a, h, kind, cs, fs, out, n)
    BY <1>5 DEF IsRun
  <1> QED BY <1>6, <1>7

\* All the continuations are attached, or none of those left is and the
\* creation reference is gone.  Were it otherwise, there would be a least
\* number of steps after which neither is the case.
Joined(h, a, ext, out, run) ==
  \/ a.ok = TRUE /\ Over(h, a.h, ext, run)
  \/ a.ok = FALSE /\ Over(h, a.h, Less(ext, out), run)

\* The whole loop: it attaches all, or gives back what it took.
LEMMA AttachAllCore ==
  ASSUME NEW h, NEW ext \in [Slot -> Nat], NEW run, NEW out \in Slot, ext[out] > 0, limit \in Nat,
         NEW n \in Nat, n > 0, n <= MaxAllSize, NEW cs \in Seq(Cont), IsInjective(cs), Len(cs) = n,
         NEW fs \in [1 .. n -> Slot], NEW kind \in Kind,
         \A i \in 1 .. n : ext[fs[i]] > 0 /\ Handle(fs[i]),
         \A i \in 1 .. n : \A in \in Slot :
            ReportsTo([kind |-> kind, in |-> in, out |-> out, idx |-> i], h.sh[out].comb),
         CoreInv(h, ext, Range(cs), run), InputsHeld(h), CombInv(h, 0), Refs(h, out) = {}
  PROVE  Joined(h, AttachAll(h, kind, cs, fs, out), ext, out, run)
  <1> DEFINE Fine(b, i) == Stepped(h, b, i, ext, cs, out, run)
  <1>1. PICK a : IsRun(a, h, kind, cs, fs, out, n) /\ AttachAll(h, kind, cs, fs, out) = a[n]
    BY AttachRuns
  <1>2. /\ a[0] = [ok |-> TRUE, h |-> h]
        /\ \A i \in 1 .. n : a[i] = AttachNext(a[i - 1], kind, cs, fs, out, i)
        /\ AttachAll(h, kind, cs, fs, out) = a[n]
    BY <1>1 DEF IsRun
  <1>3. Fine(a[0], 0)
    <2>1. Rest(cs, 1) = Range(cs)
      <3>1. DOMAIN cs = 1 .. Len(cs)
        OBVIOUS
      <3> QED BY <3>1 DEF Rest, Range
    <2>2. CoreInv(h, ext, Rest(cs, 0 + 1), run)
      BY <2>1
    <2>3. Keeps(h, h) /\ Stays(h, h)
      BY DEF Keeps, KeepsFates, Stays
    <2>4. \A c \in LiveIn(h) : h.cn[c].out # out
      BY DEF Refs
    <2>5. Going(h, h, 0, ext, cs, out, run)
      BY <2>2, <2>3, <2>4 DEF Going
    <2> QED BY <1>2, <2>5 DEF Stepped
  <1>4. ASSUME NEW i \in 1 .. n, Fine(a[i - 1], i - 1) PROVE Fine(a[i], i)
    <2>1. PICK b : b = a[i - 1]
      OBVIOUS
    <2>2. PICK j : j = i - 1
      OBVIOUS
    <2>3. a[i] = AttachNext(b, kind, cs, fs, out, i)
      BY <1>2, <2>1
    <2>4. CASE b = [ok |-> TRUE, h |-> b.h] /\ Going(h, b.h, j, ext, cs, out, run)
      <3>1. PICK g : g = b.h
        OBVIOUS
      <3>2. PICK e : e = AttachNext([ok |-> TRUE, h |-> g], kind, cs, fs, out, i)
        OBVIOUS
      <3>3. Going(h, g, j, ext, cs, out, run) /\ e = a[i]
        BY <2>3, <2>4, <3>1, <3>2
      <3>4. /\ ext[fs[i]] > 0 /\ Handle(fs[i])
            /\ \A in \in Slot : ReportsTo([kind |-> kind, in |-> in, out |-> out, idx |-> i], h.sh[out].comb)
            /\ i \in 1 .. Len(cs) /\ Len(cs) <= MaxAllSize /\ fs \in [1 .. Len(cs) -> Slot]
        OBVIOUS
      <3>5. Stepped(h, e, i, ext, cs, out, run)
        BY <2>2, <3>2, <3>3, <3>4, AttachStep
      <3> QED BY <3>3, <3>5
    <2>5. CASE b.ok = FALSE /\ Over(h, b.h, Less(ext, out), run)
      <3>1. a[i] = b
        BY <2>3, <2>5 DEF AttachNext
      <3> QED BY <2>5, <3>1 DEF Stepped
    <2> QED BY <1>4, <2>1, <2>2, <2>4, <2>5 DEF Stepped
  <1> HIDE DEF Fine
  <1>5. Fine(a[n], n)
    <2> DEFINE Bad == {i \in 0 .. n : ~ Fine(a[i], i)}
    <2> SUFFICES ASSUME ~ Fine(a[n], n) PROVE FALSE
      OBVIOUS
    <2>1. Bad # {}
      <3>1. n \in 0 .. n
        OBVIOUS
      <3> QED BY <3>1
    <2>2. PICK m \in Bad : \A y \in Bad : m <= y
      <3>1. Bad \subseteq Nat
        OBVIOUS
      <3> HIDE DEF Bad
      <3> QED BY <2>1, <3>1, LeastNat
    <2>3. m \in 0 .. n /\ ~ Fine(a[m], m)
      OBVIOUS
    <2>4. m # 0
      BY <1>3, <2>3
    <2>5. m \in 1 .. n /\ m - 1 \in 0 .. n /\ ~ (m <= m - 1)
      BY <2>3, <2>4
    <2>6. m - 1 \notin Bad
      <3> HIDE DEF Bad
      <3> QED BY <2>2, <2>5
    <2>7. Fine(a[m - 1], m - 1)
      BY <2>5, <2>6
    <2> QED BY <1>4, <2>3, <2>5, <2>7
  <1>6. Rest(cs, n + 1) = {}
    BY DEF Rest
  <1>7. PICK b : b = a[n]
    OBVIOUS
  <1>8. ASSUME Going(h, b.h, n, ext, cs, out, run) PROVE Over(h, b.h, ext, run)
    BY <1>6, <1>8 DEF Going, Over, CombsStay
  <1> QED BY <1>2, <1>5, <1>7, <1>8 DEF Fine, Stepped, Joined
-----------------------------------------------------------------------------
(* A continuation reports to its output.                                   *)

\* The state of All: its fields, and what a failure and a result make of it.
LEMMA AllFields ==
  ASSUME NEW st \in CombRec, st.kind = "All"
  PROVE  /\ st.total \in 1 .. MaxAllSize /\ st.total \in Nat /\ st.done \in 0 .. st.total /\ st.failed \in BOOLEAN
         /\ st.results \in [1 .. st.total -> Result \cup {"unset"}]
         /\ st \in [kind : {"All"}, total : {st.total}, done : 0 .. st.total, failed : BOOLEAN,
                    results : [1 .. st.total -> Result \cup {"unset"}]]
  <1>1. st # NoComb
    BY DEF NoComb
  <1>2. st \notin [kind : {"Race"}, settled : BOOLEAN, first : Result \cup {"unset"}]
    OBVIOUS
  <1>3. PICK n \in 1 .. MaxAllSize : st \in [kind : {"All"}, total : {n}, done : 0 .. n, failed : BOOLEAN,
                                             results : [1 .. n -> Result \cup {"unset"}]]
    BY <1>1, <1>2 DEF CombRec
  <1>4. st.total = n
    BY <1>3
  <1>5. n \in Nat
    BY Pools
  <1> QED BY <1>3, <1>4, <1>5

\* Two records of this shape with the same fields are members of the same set.
LEMMA AllMember ==
  ASSUME NEW n \in 1 .. MaxAllSize, NEW d \in 0 .. n, NEW f \in BOOLEAN, NEW rs \in [1 .. n -> Result \cup {"unset"}]
  PROVE  [kind |-> "All", total |-> n, done |-> d, failed |-> f, results |-> rs] \in CombRec
  <1>1. [kind |-> "All", total |-> n, done |-> d, failed |-> f, results |-> rs]
          \in [kind : {"All"}, total : {n}, done : 0 .. n, failed : BOOLEAN, results : [1 .. n -> Result \cup {"unset"}]]
    OBVIOUS
  <1> QED BY <1>1 DEF CombRec

\* A failure changes the flag only.
LEMMA FailedState ==
  ASSUME NEW st \in CombRec, st.kind = "All"
  PROVE  LET u == [st EXCEPT !.failed = TRUE] IN
         /\ u \in CombRec /\ u.kind = "All" /\ u.total = st.total /\ u.done = st.done
         /\ u.failed = TRUE /\ u.results = st.results
  <1>1. PICK n : n = st.total
    OBVIOUS
  <1>2. /\ st \in [kind : {"All"}, total : {n}, done : 0 .. n, failed : BOOLEAN, results : [1 .. n -> Result \cup {"unset"}]]
        /\ n \in 1 .. MaxAllSize
    BY <1>1, AllFields
  <1>3. PICK u : u = [st EXCEPT !.failed = TRUE]
    OBVIOUS
  <1>4. /\ u \in [kind : {"All"}, total : {n}, done : 0 .. n, failed : BOOLEAN, results : [1 .. n -> Result \cup {"unset"}]]
        /\ u.kind = "All" /\ u.total = st.total /\ u.done = st.done
        /\ u.failed = TRUE /\ u.results = st.results
    BY <1>2, <1>3
  <1>5. u \in CombRec
    BY <1>2, <1>4 DEF CombRec
  <1> QED BY <1>3, <1>4, <1>5

\* A result at an index that had none: one more is in place.
Advanced(st, u, i) ==
  /\ u \in CombRec /\ u.kind = "All" /\ u.total = st.total /\ u.done = st.done + 1 /\ st.done < st.total
  /\ u.failed = st.failed /\ (\A j \in 1 .. st.total \ {i} : u.results[j] = st.results[j])
  /\ \A j \in 1 .. u.total : u.results[j] \in {"ok", "unset"}
  /\ u.done = Cardinality({j \in 1 .. u.total : u.results[j] = "ok"})

\* Recording a result counts one result more.
LEMMA OneMore ==
  ASSUME NEW st \in CombRec, st.kind = "All", NEW fate, NEW res, CombOK(fate, res, st),
         NEW i \in 1 .. st.total, st.results[i] = "unset"
  PROVE  Advanced(st, [st EXCEPT !.results[i] = "ok", !.done = @ + 1], i)
  <1>1. PICK n : n = st.total
    OBVIOUS
  <1>2. /\ st \in [kind : {"All"}, total : {n}, done : 0 .. n, failed : BOOLEAN, results : [1 .. n -> Result \cup {"unset"}]]
        /\ n \in 1 .. MaxAllSize /\ n \in Nat
    BY <1>1, AllFields
  <1>3. PICK rs : rs = st.results
    OBVIOUS
  <1>4. rs \in [1 .. n -> Result \cup {"unset"}] /\ i \in 1 .. n /\ rs[i] = "unset" /\ st.done \in Nat
    BY <1>1, <1>2, <1>3
  <1>5. (\A j \in 1 .. n : rs[j] \in {"ok", "unset"}) /\ st.done = Cardinality({j \in 1 .. n : rs[j] = "ok"})
    BY <1>1, <1>3 DEF CombOK
  <1>6. PICK t : t = [rs EXCEPT ![i] = "ok"]
    OBVIOUS
  <1>7. t \in [1 .. n -> Result \cup {"unset"}] /\ t[i] = "ok" /\ \A j \in 1 .. n \ {i} : t[j] = rs[j]
    BY <1>4, <1>6 DEF Result
  <1>8. PICK A : A = {j \in 1 .. n : rs[j] = "ok"}
    OBVIOUS
  <1>9. {j \in 1 .. n : t[j] = "ok"} = A \cup {i} /\ i \notin A
    BY <1>4, <1>7, <1>8
  <1>10. IsFiniteSet(1 .. n) /\ Cardinality(1 .. n) = n
    BY <1>2, FS_Interval
  <1>11. A \cup {i} \subseteq 1 .. n /\ A \subseteq 1 .. n
    BY <1>4, <1>8
  <1>12. IsFiniteSet(A)
    BY <1>10, <1>11, FS_Subset
  <1>13. Cardinality(A \cup {i}) = Cardinality(A) + 1
    BY <1>9, <1>12, FS_AddElement
  <1>14. Cardinality(A \cup {i}) <= n
    BY <1>10, <1>11, FS_Subset
  <1>15. st.done = Cardinality(A) /\ st.done + 1 <= n /\ st.done + 1 \in 0 .. n
    BY <1>2, <1>4, <1>5, <1>8, <1>13, <1>14
  <1>16. PICK u : u = [st EXCEPT !.results[i] = "ok", !.done = @ + 1]
    OBVIOUS
  <1>17. u = [kind |-> "All", total |-> n, done |-> st.done + 1, failed |-> st.failed, results |-> t]
    BY <1>2, <1>3, <1>6, <1>16
  <1>18. u.kind = "All" /\ u.total = n /\ u.done = st.done + 1 /\ u.failed = st.failed /\ u.results = t
    BY <1>17
  <1>19. u \in CombRec
    BY <1>2, <1>7, <1>15, <1>17, AllMember
  <1>20. u.done = Cardinality({j \in 1 .. u.total : u.results[j] = "ok"})
    BY <1>9, <1>13, <1>15, <1>18
  <1>21. \A j \in 1 .. u.total : u.results[j] \in {"ok", "unset"}
    BY <1>5, <1>7, <1>18
  <1>22. st.done < st.total
    BY <1>1, <1>2, <1>4, <1>15
  <1> QED BY <1>1, <1>3, <1>7, <1>16, <1>18, <1>19, <1>20, <1>21, <1>22 DEF Advanced

\* Only the combiner of one slot and its fate changed.
LEMMA CombUpdate ==
  ASSUME NEW h \in Heap, NEW g, NEW c, NEW out \in Slot, CombInv(h, 0), g.cn = h.cn,
         \A x \in Slot \ {out} : g.sh[x].fate = h.sh[x].fate /\ g.sh[x].res = h.sh[x].res /\ g.sh[x].comb = h.sh[x].comb,
         CombOK(g.sh[out].fate, g.sh[out].res, g.sh[out].comb),
         \A d \in LiveIn(h) \ {c} : h.cn[d].out = out => ReportsTo(h.cn[d], g.sh[out].comb)
  PROVE  CombInv(g, c)
  <1>1. LiveIn(g) = LiveIn(h)
    BY DEF LiveIn
  <1>2. \A x \in Slot : CombOK(h.sh[x].fate, h.sh[x].res, h.sh[x].comb)
    BY DEF CombInv
  <1>3. \A x \in Slot : CombOK(g.sh[x].fate, g.sh[x].res, g.sh[x].comb)
    BY <1>2
  <1>4. \A d \in LiveIn(h) : d # 0 /\ h.cn[d].out \in Slot
    BY Pools, HeapFields DEF LiveIn
  <1>5. \A d \in LiveIn(h) : ReportsTo(h.cn[d], h.sh[h.cn[d].out].comb)
    BY <1>4 DEF CombInv
  <1>6. \A d \in LiveIn(h) \ {c} : ReportsTo(g.cn[d], g.sh[g.cn[d].out].comb)
    BY <1>4, <1>5
  <1> QED BY <1>1, <1>3, <1>6 DEF CombInv

\* c has reported to its output.
Reported(h, g, c, ext, hand, out) ==
  /\ CoreInv(g, ext, hand, c) /\ Keeps(h, g) /\ g.cn = h.cn /\ CombInv(g, c)
  /\ \A x \in Slot \ {out} : g.sh[x].comb = h.sh[x].comb
  /\ h.sh[out].comb.kind = "None" => g.sh[out].comb.kind = "None"

\* What c, about to report, finds: its output referred to, and a combiner that
\* awaits it.
LEMMA Reporter ==
  ASSUME NEW h, NEW ext \in [Slot -> Nat], NEW hand, NEW c \in LiveIn(h), CoreInv(h, ext, hand, c), CombInv(h, 0)
  PROVE  /\ h \in Heap /\ h.cn[c].out \in Slot /\ h.cn[c].in \in Slot /\ h.cn[c] \in ContRec
         /\ h.sh[h.cn[c].out].ref # 0 /\ h.sh[h.cn[c].out].comb \in CombRec
         /\ ReportsTo(h.cn[c], h.sh[h.cn[c].out].comb)
         /\ CombOK(h.sh[h.cn[c].out].fate, h.sh[h.cn[c].out].res, h.sh[h.cn[c].out].comb)
         /\ \A d \in LiveIn(h) : ReportsTo(h.cn[d], h.sh[h.cn[d].out].comb)
         /\ CombInv(h, c) /\ c \in Cont
  <1>1. h \in Heap /\ RefsOK(h, ext)
    BY DEF CoreInv
  <1>2. \A d \in LiveIn(h) : d \in Cont /\ d # 0 /\ h.cn[d].out \in Slot
    BY <1>1, Pools, HeapFields DEF LiveIn
  <1>3. \A d \in LiveIn(h) : ReportsTo(h.cn[d], h.sh[h.cn[d].out].comb)
    BY <1>2 DEF CombInv
  <1>4. CombInv(h, c)
    BY <1>3 DEF CombInv
  <1>5. h.sh[h.cn[c].out].ref # 0
    BY <1>1, <1>2, Counted
  <1>6. CombOK(h.sh[h.cn[c].out].fate, h.sh[h.cn[c].out].res, h.sh[h.cn[c].out].comb)
    BY <1>2 DEF CombInv
  <1> QED BY <1>1, <1>2, <1>3, <1>4, <1>5, <1>6, HeapFields

\* A Then, Catch or Finally settles its output.
LEMMA PlainReport ==
  ASSUME NEW h, NEW ext \in [Slot -> Nat], NEW hand, NEW c \in LiveIn(h), CoreInv(h, ext, hand, c), CombInv(h, 0),
         NEW out, out = h.cn[c].out, h.cn[c].kind \in {"Then", "Catch", "Finally"}, NEW v \in Result, limit \in Nat
  PROVE  Reported(h, SettleWith(h, out, v), c, ext, hand, out)
  <1>1. PICK g : g = SettleWith(h, out, v)
    OBVIOUS
  <1>2. h \in Heap /\ out \in Slot /\ h.sh[out].ref # 0 /\ h.sh[out].comb.kind = "None"
    BY Reporter DEF ReportsTo
  <1>3. /\ CoreInv(g, ext, hand, c) /\ Keeps(h, g) /\ g.cn = h.cn
        /\ \A x \in Slot : g.sh[x].comb = h.sh[x].comb
        /\ \A x \in Slot \ {out} : g.sh[x].fate = h.sh[x].fate /\ g.sh[x].res = h.sh[x].res
    <2>1. Settled(h, g, out, v, ext, hand, c)
      BY <1>1, <1>2, SettleCore
    <2> QED BY <2>1 DEF Settled
  <1>4. CombOK(g.sh[out].fate, g.sh[out].res, g.sh[out].comb)
    BY <1>2, <1>3, NoCombOK
  <1>5. \A d \in LiveIn(h) \ {c} : h.cn[d].out = out => ReportsTo(h.cn[d], g.sh[out].comb)
    BY <1>2, <1>3, Reporter
  <1>6. CombInv(g, c)
    <2>1. g.cn = h.cn /\ \A x \in Slot \ {out} : g.sh[x].fate = h.sh[x].fate /\ g.sh[x].res = h.sh[x].res /\ g.sh[x].comb = h.sh[x].comb
      BY <1>3
    <2> QED BY <1>2, <1>4, <1>5, <2>1, CombUpdate
  <1> QED BY <1>1, <1>2, <1>3, <1>6 DEF Reported

\* A combiner's state changes, and the output may be settled then.
LEMMA StateThenSettle ==
  ASSUME NEW h, NEW ext \in [Slot -> Nat], NEW hand, NEW c \in LiveIn(h), CoreInv(h, ext, hand, c), CombInv(h, 0),
         NEW out, out = h.cn[c].out, NEW st \in CombRec, NEW v \in Result, limit \in Nat, h.sh[out].comb.kind # "None",
         h.sh[out].fate = "Pending" => CombOK(FateOf(v), v, st),
         h.sh[out].fate # "Pending" => CombOK(h.sh[out].fate, h.sh[out].res, st),
         \A d \in LiveIn(h) \ {c} : h.cn[d].out = out => ReportsTo(h.cn[d], st)
  PROVE  Reported(h, SettleWith([h EXCEPT !.sh[out].comb = st], out, v), c, ext, hand, out)
  <1>1. PICK f : f = [h EXCEPT !.sh[out].comb = st]
    OBVIOUS
  <1>2. PICK g : g = SettleWith(f, out, v)
    OBVIOUS
  <1>3. h \in Heap /\ out \in Slot /\ h.sh[out].ref # 0
    BY Reporter
  <1>4. /\ CoreInv(f, ext, hand, c) /\ Keeps(h, f) /\ f.cn = h.cn
        /\ f.sh[out].comb = st /\ \A x \in Slot \ {out} : f.sh[x].comb = h.sh[x].comb
        /\ \A x \in Slot : f.sh[x].fate = h.sh[x].fate /\ f.sh[x].res = h.sh[x].res /\ f.sh[x].ref = h.sh[x].ref
    <2>1. Recombined(h, f, out, st, ext, hand, c)
      BY <1>1, <1>3, CombCore
    <2> QED BY <2>1 DEF Recombined
  <1>5. f.sh[out].ref # 0
    BY <1>3, <1>4
  <1>6. /\ CoreInv(g, ext, hand, c) /\ Keeps(f, g) /\ g.cn = f.cn
        /\ \A x \in Slot : g.sh[x].comb = f.sh[x].comb
        /\ \A x \in Slot \ {out} : g.sh[x].fate = f.sh[x].fate /\ g.sh[x].res = f.sh[x].res
        /\ g.sh[out].fate = IF f.sh[out].fate = "Pending" THEN FateOf(v) ELSE f.sh[out].fate
        /\ g.sh[out].res = IF f.sh[out].fate = "Pending" THEN v ELSE f.sh[out].res
    <2>1. Settled(f, g, out, v, ext, hand, c)
      BY <1>2, <1>3, <1>4, <1>5, SettleCore
    <2> QED BY <2>1 DEF Settled
  <1>7. CombOK(g.sh[out].fate, g.sh[out].res, g.sh[out].comb)
    BY <1>3, <1>4, <1>6
  <1>8. \A d \in LiveIn(h) \ {c} : h.cn[d].out = out => ReportsTo(h.cn[d], g.sh[out].comb)
    BY <1>3, <1>4, <1>6
  <1>9. /\ g.cn = h.cn
        /\ \A x \in Slot \ {out} : g.sh[x].fate = h.sh[x].fate /\ g.sh[x].res = h.sh[x].res /\ g.sh[x].comb = h.sh[x].comb
    BY <1>4, <1>6
  <1>10. CombInv(g, c)
    BY <1>3, <1>7, <1>8, <1>9, CombUpdate
  <1>11. Keeps(h, g)
    BY <1>4, <1>6, KeepsTrans DEF Keeps
  <1> QED BY <1>1, <1>2, <1>6, <1>9, <1>10, <1>11 DEF Reported

\* A combiner's state changes and the output stays as it is.
LEMMA StateOnly ==
  ASSUME NEW h, NEW ext \in [Slot -> Nat], NEW hand, NEW c \in LiveIn(h), CoreInv(h, ext, hand, c), CombInv(h, 0),
         NEW out, out = h.cn[c].out, NEW st \in CombRec, CombOK(h.sh[out].fate, h.sh[out].res, st), h.sh[out].comb.kind # "None",
         \A d \in LiveIn(h) \ {c} : h.cn[d].out = out => ReportsTo(h.cn[d], st)
  PROVE  Reported(h, [h EXCEPT !.sh[out].comb = st], c, ext, hand, out)
  <1>1. PICK g : g = [h EXCEPT !.sh[out].comb = st]
    OBVIOUS
  <1>2. h \in Heap /\ out \in Slot
    BY Reporter
  <1>3. /\ CoreInv(g, ext, hand, c) /\ Keeps(h, g) /\ g.cn = h.cn
        /\ g.sh[out].comb = st /\ \A x \in Slot \ {out} : g.sh[x].comb = h.sh[x].comb
        /\ \A x \in Slot : g.sh[x].fate = h.sh[x].fate /\ g.sh[x].res = h.sh[x].res
    <2>1. Recombined(h, g, out, st, ext, hand, c)
      BY <1>1, <1>2, CombCore
    <2> QED BY <2>1 DEF Recombined
  <1>4. CombInv(g, c)
    <2>1. CombOK(g.sh[out].fate, g.sh[out].res, g.sh[out].comb)
      BY <1>2, <1>3
    <2>2. \A d \in LiveIn(h) \ {c} : h.cn[d].out = out => ReportsTo(h.cn[d], g.sh[out].comb)
      BY <1>3
    <2>3. g.cn = h.cn /\ \A x \in Slot \ {out} : g.sh[x].fate = h.sh[x].fate /\ g.sh[x].res = h.sh[x].res /\ g.sh[x].comb = h.sh[x].comb
      BY <1>3
    <2> QED BY <1>2, <2>1, <2>2, <2>3, CombUpdate
  <1> QED BY <1>1, <1>3, <1>4 DEF Reported

\* The other continuations that report to the same All wait for other indices.
OthersReport(h, c, out, st) == \A d \in LiveIn(h) \ {c} : h.cn[d].out = out => ReportsTo(h.cn[d], st)

\* The indices of an All are distinct, so the others still find theirs unset.
LEMMA OthersWait ==
  ASSUME NEW h, NEW c \in LiveIn(h), NEW out, out = h.cn[c].out, h.cn[c].kind = "All", CombInv(h, 0),
         \A d \in LiveIn(h) : h.cn[d].kind \in Kind /\ ReportsTo(h.cn[d], h.sh[h.cn[d].out].comb),
         NEW i, i = h.cn[c].idx, NEW was, was = h.sh[out].comb, was.kind = "All",
         NEW st, st.kind = "All", st.total = was.total, \A j \in 1 .. was.total \ {i} : st.results[j] = was.results[j]
  PROVE  OthersReport(h, c, out, st)
  <1> SUFFICES ASSUME NEW d \in LiveIn(h), d # c, h.cn[d].out = out PROVE ReportsTo(h.cn[d], st)
    BY DEF OthersReport
  <1>1. ReportsTo(h.cn[d], h.sh[out].comb)
    OBVIOUS
  <1>2. h.cn[d].kind = "All"
    BY <1>1 DEF ReportsTo, Kind
  <1>3. h.cn[d].idx # h.cn[c].idx
    BY DEF CombInv
  <1>4. h.cn[d].idx \in 1 .. st.total /\ h.sh[out].comb.results[h.cn[d].idx] = "unset"
    BY <1>1, <1>2 DEF ReportsTo
  <1>5. st.results[h.cn[d].idx] = "unset"
    BY <1>3, <1>4
  <1> QED BY <1>2, <1>4, <1>5 DEF ReportsTo

\* An input of All has settled.
LEMMA AllReport ==
  ASSUME NEW h, NEW ext \in [Slot -> Nat], NEW hand, NEW c \in LiveIn(h), CoreInv(h, ext, hand, c), CombInv(h, 0),
         NEW out, out = h.cn[c].out, h.cn[c].kind = "All", NEW v \in Result, limit \in Nat
  PROVE  Reported(h, HandleAll(h, c, v), c, ext, hand, out)
  <1>1. PICK st : st = h.sh[out].comb
    OBVIOUS
  <1>2. PICK i : i = h.cn[c].idx
    OBVIOUS
  <1>3. PICK fate, res : fate = h.sh[out].fate /\ res = h.sh[out].res
    OBVIOUS
  <1>4. /\ h \in Heap /\ st \in CombRec /\ CombOK(fate, res, st) /\ ReportsTo(h.cn[c], st) /\ CombInv(h, c)
        /\ \A d \in LiveIn(h) : ReportsTo(h.cn[d], h.sh[h.cn[d].out].comb)
    BY <1>1, <1>3, Reporter
  <1>5. st.kind = "All" /\ i \in 1 .. st.total /\ st.results[i] = "unset"
    BY <1>2, <1>4 DEF ReportsTo
  <1>6. /\ \A j \in 1 .. st.total : st.results[j] \in {"ok", "unset"}
        /\ st.done = Cardinality({j \in 1 .. st.total : st.results[j] = "ok"})
        /\ fate = "Fulfilled" => st.done = st.total
        /\ fate = "Rejected" => st.failed /\ ~ IsOk(res)
    BY <1>4, <1>5 DEF CombOK
  <1>7. \A d \in LiveIn(h) : h.cn[d].kind \in Kind /\ ReportsTo(h.cn[d], h.sh[h.cn[d].out].comb)
    BY <1>4, HeapFields
  <1>8. h.sh[out].comb.kind # "None"
    BY <1>1, <1>5
  <1>9. CASE st.failed
    <2>1. HandleAll(h, c, v) = h
      BY <1>1, <1>9 DEF HandleAll
    <2>2. Keeps(h, h)
      BY DEF Keeps, KeepsFates
    <2> QED BY <1>4, <2>1, <2>2 DEF Reported
  <1>10. CASE ~ st.failed /\ ~ IsOk(v)
    <2>1. PICK u : u = [st EXCEPT !.failed = TRUE]
      OBVIOUS
    <2>2. /\ u \in CombRec /\ u.kind = "All" /\ u.total = st.total /\ u.done = st.done
          /\ u.failed = TRUE /\ u.results = st.results
      BY <1>4, <1>5, <2>1, FailedState
    <2>3. HandleAll(h, c, v) = SettleWith([h EXCEPT !.sh[out].comb.failed = TRUE], out, v)
      BY <1>1, <1>10 DEF HandleAll
    <2>4. [h EXCEPT !.sh[out].comb.failed = TRUE] = [h EXCEPT !.sh[out].comb = u]
      BY <1>1, <2>1
    <2>5. HandleAll(h, c, v) = SettleWith([h EXCEPT !.sh[out].comb = u], out, v)
      BY <2>3, <2>4
    <2>6. CombOK("Rejected", v, u) /\ CombOK(fate, res, u)
      BY <1>6, <1>10, <2>2 DEF CombOK
    <2>7. FateOf(v) = "Rejected"
      BY <1>10 DEF FateOf
    <2>8. \A d \in LiveIn(h) \ {c} : h.cn[d].out = out => ReportsTo(h.cn[d], u)
      <3>1. \A j \in 1 .. st.total \ {i} : u.results[j] = st.results[j]
        BY <2>2
      <3>2. u.kind = "All" /\ u.total = st.total /\ st.kind = "All"
        BY <1>5, <2>2
      <3>3. OthersReport(h, c, out, u)
        BY <1>1, <1>2, <1>7, <3>1, <3>2, OthersWait
      <3> QED BY <3>3 DEF OthersReport
    <2>9. CombOK(FateOf(v), v, u) /\ CombOK(h.sh[out].fate, h.sh[out].res, u)
      BY <1>3, <2>6, <2>7
    <2>10. Reported(h, SettleWith([h EXCEPT !.sh[out].comb = u], out, v), c, ext, hand, out)
      BY <1>8, <2>2, <2>8, <2>9, StateThenSettle
    <2> QED BY <2>5, <2>10
  <1>11. CASE ~ st.failed /\ IsOk(v)
    <2>1. PICK u : u = [st EXCEPT !.results[i] = "ok", !.done = @ + 1]
      OBVIOUS
    <2>2. /\ u \in CombRec /\ u.kind = "All" /\ u.total = st.total /\ u.done = st.done + 1 /\ st.done < st.total
          /\ u.failed = st.failed /\ (\A j \in 1 .. st.total \ {i} : u.results[j] = st.results[j])
          /\ \A j \in 1 .. u.total : u.results[j] \in {"ok", "unset"}
          /\ u.done = Cardinality({j \in 1 .. u.total : u.results[j] = "ok"})
      <3>1. Advanced(st, u, i)
        BY <1>4, <1>5, <2>1, OneMore
      <3> QED BY <3>1 DEF Advanced
    <2>3. v = "ok"
      BY <1>11 DEF IsOk
    <2>4. fate # "Fulfilled" /\ fate # "Rejected"
      <3>1. st.done \in Nat /\ st.total \in Nat
        BY <1>4, <1>5, AllFields
      <3> QED BY <1>6, <1>11, <2>2, <3>1
    <2>5. \A d \in LiveIn(h) \ {c} : h.cn[d].out = out => ReportsTo(h.cn[d], u)
      <3>1. \A j \in 1 .. st.total \ {i} : u.results[j] = st.results[j]
        BY <2>2
      <3>2. u.kind = "All" /\ u.total = st.total /\ st.kind = "All"
        BY <1>5, <2>2
      <3>3. OthersReport(h, c, out, u)
        BY <1>1, <1>2, <1>7, <3>1, <3>2, OthersWait
      <3> QED BY <3>3 DEF OthersReport
    <2>6. CombOK(h.sh[out].fate, h.sh[out].res, u)
      BY <1>3, <2>2, <2>4 DEF CombOK
    <2>7. HandleAll(h, c, v) = IF AllDone(u) THEN SettleWith([h EXCEPT !.sh[out].comb = u], out, "ok")
                                             ELSE [h EXCEPT !.sh[out].comb = u]
      BY <1>1, <1>2, <1>11, <2>1, <2>3 DEF HandleAll
    <2>8. CASE AllDone(u)
      <3>1. st.done \in Nat /\ st.total \in Nat
        BY <1>4, <1>5, AllFields
      <3>2. u.done = u.total
        BY <2>2, <2>8, <3>1 DEF AllDone
      <3>3. CombOK("Fulfilled", "ok", u) /\ FateOf("ok") = "Fulfilled" /\ "ok" \in Result
        BY <2>2, <3>2 DEF CombOK, FateOf, IsOk, Result
      <3>4. CombOK(FateOf("ok"), "ok", u)
        BY <3>3
      <3>5. Reported(h, SettleWith([h EXCEPT !.sh[out].comb = u], out, "ok"), c, ext, hand, out)
        BY <1>8, <2>2, <2>5, <2>6, <3>3, <3>4, StateThenSettle
      <3> QED BY <2>7, <2>8, <3>5
    <2>9. CASE ~ AllDone(u)
      <3>1. Reported(h, [h EXCEPT !.sh[out].comb = u], c, ext, hand, out)
        BY <1>8, <2>2, <2>5, <2>6, StateOnly
      <3> QED BY <2>7, <2>9, <3>1
    <2> QED BY <2>8, <2>9
  <1>12. st.failed \in BOOLEAN
    BY <1>4, <1>5, AllFields
  <1> QED BY <1>9, <1>10, <1>11, <1>12

\* An input of Race has settled.
LEMMA RaceReport ==
  ASSUME NEW h, NEW ext \in [Slot -> Nat], NEW hand, NEW c \in LiveIn(h), CoreInv(h, ext, hand, c), CombInv(h, 0),
         NEW out, out = h.cn[c].out, h.cn[c].kind = "Race", NEW v \in Result, limit \in Nat
  PROVE  Reported(h, HandleRace(h, c, v), c, ext, hand, out)
  <1>1. PICK st : st = h.sh[out].comb
    OBVIOUS
  <1>2. /\ h \in Heap /\ out \in Slot /\ st \in CombRec /\ CombOK(h.sh[out].fate, h.sh[out].res, st) /\ ReportsTo(h.cn[c], st) /\ CombInv(h, c)
        /\ \A d \in LiveIn(h) : ReportsTo(h.cn[d], h.sh[h.cn[d].out].comb)
    BY <1>1, Reporter
  <1>3. st.kind = "Race"
    BY <1>2 DEF ReportsTo
  <1>4. (h.sh[out].fate # "Pending" <=> st.settled) /\ (st.settled <=> st.first # "unset")
    BY <1>2, <1>3 DEF CombOK
  <1>5. CASE st.settled
    <2>1. HandleRace(h, c, v) = h
      BY <1>1, <1>5 DEF HandleRace
    <2>2. Keeps(h, h)
      BY DEF Keeps, KeepsFates
    <2> QED BY <1>2, <2>1, <2>2 DEF Reported
  <1>6. CASE ~ st.settled
    <2>1. PICK u : u = [st EXCEPT !.settled = TRUE, !.first = v]
      OBVIOUS
    <2>2. st \in [kind : {"Race"}, settled : BOOLEAN, first : Result \cup {"unset"}]
      <3>1. st # NoComb
        BY <1>3 DEF NoComb
      <3>2. \A n : st \notin [kind : {"All"}, total : {n}, done : 0 .. n, failed : BOOLEAN,
                              results : [1 .. n -> Result \cup {"unset"}]]
        BY <1>3
      <3> QED BY <1>2, <3>1, <3>2 DEF CombRec
    <2>3. /\ u \in [kind : {"Race"}, settled : BOOLEAN, first : Result \cup {"unset"}] /\ u.kind = "Race"
          /\ u.settled = TRUE /\ u.first = v
      BY <2>1, <2>2
    <2>4. u \in CombRec
      BY <2>3 DEF CombRec
    <2>5. u = [st EXCEPT !.settled = TRUE, !.first = IF @ = "unset" THEN v ELSE @]
      BY <1>4, <1>6, <2>1, <2>2
    <2>6. HandleRace(h, c, v) = SettleWith([h EXCEPT !.sh[out].comb = u], out, v)
      BY <1>1, <1>6, <2>5 DEF HandleRace
    <2>7. FateOf(v) # "Pending" /\ v # "unset"
      BY DEF FateOf, Result
    <2>8. CombOK(FateOf(v), v, u)
      BY <2>3, <2>7 DEF CombOK
    <2>9. h.sh[out].fate = "Pending"
      BY <1>4, <1>6
    <2>10. \A d \in LiveIn(h) \ {c} : h.cn[d].out = out => ReportsTo(h.cn[d], u)
      BY <1>1, <1>2, <1>3, <2>3 DEF ReportsTo
    <2>11. Reported(h, SettleWith([h EXCEPT !.sh[out].comb = u], out, v), c, ext, hand, out)
      BY <1>1, <1>3, <2>4, <2>8, <2>9, <2>10, StateThenSettle
    <2> QED BY <2>6, <2>11
  <1> QED BY <1>5, <1>6
=============================================================================
