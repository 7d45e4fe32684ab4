------------------------- MODULE CancelTokenProofs --------------------------
(***************************************************************************)
(* Proofs about CancelToken, for every number of tokens, of callbacks, of  *)
(* cancellable maps and every capacity of the scheduler's queue.           *)
(***************************************************************************)
EXTENDS CancelToken, DataLemmas

CtRec == [cancelled : BOOLEAN, dispatching : BOOLEAN, cbCount : 0 .. MaxCancelCBs,
          cbNext : 0 .. MaxCancelCBs, refCount : Nat]

\* The free list holds exactly the slots without a reference, each once.
FreeInv ==
  /\ IsInjective(ctFree)
  /\ \A t \in Token : t \in Range(ctFree) <=> ct[t].refCount = 0

\* No task is queued twice, or queued while it runs; a token's flag and a
\* map's place say which tasks there are.
TaskInv ==
  /\ IsInjective(queue) /\ frame \notin Range(queue)
  /\ \A t \in Token :
       ct[t].dispatching <=> CancelTask(t) \in Range(queue) \/ frame = CancelTask(t)
  /\ \A m \in MapId :
       /\ maps[m].at = "queued" <=> MapTask(m) \in Range(queue)
       /\ maps[m].at = "running" <=> frame = MapTask(m)
       /\ maps[m].at # "none" => maps[m].ct \in Token

\* The callbacks called so far are numbered below the next one to call.
CallInv ==
  \A t \in Token :
    /\ ct[t].cbNext <= ct[t].cbCount
    /\ ct[t].dispatching => ct[t].cancelled
    /\ ~ ct[t].cancelled => fired[t] = << >>
    /\ \A i \in DOMAIN fired[t] : fired[t][i] < ct[t].cbNext
    /\ \A i, j \in DOMAIN fired[t] : i < j => fired[t][i] < fired[t][j]

IInv == TypeOK /\ RefExact /\ FreeInv /\ TaskInv /\ CallInv

-----------------------------------------------------------------------------
\* A task is the dispatch of one token or the continuation of one map.
LEMMA Tasks ==
  /\ \A t \in Token : CancelTask(t) \in Task /\ CancelTask(t).task = "cancel" /\ CancelTask(t).id = t
  /\ \A m \in MapId : MapTask(m) \in Task /\ MapTask(m).task = "map" /\ MapTask(m).id = m
  /\ \A x \in Task : x.task = "cancel" => x.id \in Token /\ x = CancelTask(x.id)
  /\ \A x \in Task : x.task = "map" => x.id \in MapId /\ x = MapTask(x.id)
  /\ \A x \in Task : x # NoFrame /\ x.task # "none" /\ x.task \in {"cancel", "map"}
  /\ NoFrame.task = "none"
  BY DEF Task, CancelTask, MapTask, NoFrame

\* The maps of a token form a finite set.
LEMMA MapsFinite ==
  ASSUME NEW t
  PROVE  IsFiniteSet(MapsOf(t)) /\ Cardinality(MapsOf(t)) \in Nat
  BY MapIdAssumption, FS_Subset, FS_CardinalityType DEF MapsOf

\* A reference is a handle, a dispatch or a map.
LEMMA RefParts ==
  ASSUME IInv, NEW t \in Token
  PROVE  /\ t \in held => ct[t].refCount >= 1
         /\ ct[t].dispatching => ct[t].refCount >= 1
         /\ MapsOf(t) # {} => ct[t].refCount >= 1
         /\ t \in held /\ ct[t].dispatching => ct[t].refCount >= 2
         /\ t \in held /\ MapsOf(t) # {} => ct[t].refCount >= 2
         /\ ct[t].dispatching /\ MapsOf(t) # {} => ct[t].refCount >= 2
  <1>1. IsFiniteSet(MapsOf(t)) /\ Cardinality(MapsOf(t)) \in Nat
    BY MapsFinite
  <1>2. MapsOf(t) # {} => Cardinality(MapsOf(t)) >= 1
    BY <1>1, FS_EmptySet
  <1>3. ct[t].refCount = Cardinality(MapsOf(t)) + (IF t \in held THEN 1 ELSE 0)
                         + (IF ct[t].dispatching THEN 1 ELSE 0)
    BY DEF IInv, RefExact
  <1> QED BY <1>1, <1>2, <1>3

\* Without duplicates a task is at one place of the queue or at none.
LEMMA TaskCount ==
  ASSUME queue \in Seq(Task), IsInjective(queue), NEW x
  PROVE  Cardinality({i \in DOMAIN queue : queue[i] = x}) = IF x \in Range(queue) THEN 1 ELSE 0
  <1> DEFINE P == {i \in DOMAIN queue : queue[i] = x}
  <1>1. CASE x \in Range(queue)
    <2>1. PICK i \in DOMAIN queue : queue[i] = x
      BY <1>1 DEF Range
    <2>2. P = {i}
      BY <2>1 DEF IsInjective
    <2> QED BY <1>1, <2>2, FS_Singleton
  <1>2. CASE x \notin Range(queue)
    <2>1. P = {}
      BY <1>2 DEF Range
    <2> QED BY <1>2, <2>1, FS_EmptySet
  <1> QED BY <1>1, <1>2

\* The inductive invariant implies what the runs check.
LEMMA InvImpliesTokenInv == IInv => TokenInv
  <1> SUFFICES ASSUME IInv PROVE TokenInv
    OBVIOUS
  <1>1. TypeOK /\ RefExact /\ FreeInv /\ TaskInv /\ CallInv
    BY DEF IInv
  <1>2. NoDangling
    <2> SUFFICES ASSUME NEW t \in Range(ctFree)
                 PROVE  /\ t \notin held /\ MapsOf(t) = {}
                        /\ CancelTask(t) \notin Range(queue) /\ frame # CancelTask(t)
      BY <1>1 DEF NoDangling, FreeInv
    <2>1. t \in Token
      BY <1>1, SeqElements DEF TypeOK
    <2>2. ct[t].refCount = 0
      BY <1>1, <2>1 DEF FreeInv
    <2>3. t \notin held /\ MapsOf(t) = {} /\ ~ ct[t].dispatching
      BY <2>1, <2>2, RefParts
    <2> QED BY <1>1, <2>1, <2>3 DEF TaskInv
  <1>3. OneDispatch
    <2> SUFFICES ASSUME NEW t \in Token
                 PROVE  Cardinality({i \in DOMAIN queue : queue[i] = CancelTask(t)})
                        + (IF frame = CancelTask(t) THEN 1 ELSE 0)
                        = IF ct[t].dispatching THEN 1 ELSE 0
      BY DEF OneDispatch
    <2>1. Cardinality({i \in DOMAIN queue : queue[i] = CancelTask(t)})
          = IF CancelTask(t) \in Range(queue) THEN 1 ELSE 0
      BY <1>1, TaskCount DEF TypeOK, TaskInv
    <2>2. frame \notin Range(queue)
          /\ (ct[t].dispatching <=> CancelTask(t) \in Range(queue) \/ frame = CancelTask(t))
      BY <1>1 DEF TaskInv
    <2> QED BY <2>1, <2>2
  <1>4. FiredInOrder
    BY <1>1 DEF FiredInOrder, CallInv
  <1> QED BY <1>1, <1>2, <1>3, <1>4 DEF TokenInv

\* The pool starts with every slot free and nothing queued.
LEMMA InitInv == Init => IInv
  <1> SUFFICES ASSUME Init PROVE IInv
    OBVIOUS
  <1> USE TokensAssumption, LimitsAssumption
  <1>1. /\ ct = [t \in Token |-> FreeRec] /\ ctFree = [i \in Token |-> i] /\ held = {}
        /\ maps = [m \in MapId |-> NoMap] /\ queue = << >> /\ limit \in Limits
        /\ frame = NoFrame /\ fired = [t \in Token |-> << >>]
    BY DEF Init
  <1>2. TypeOK
    <2>1. ctFree \in Seq(Token)
      BY <1>1 DEF Token
    <2>2. ct \in [Token -> [cancelled : BOOLEAN, dispatching : BOOLEAN, cbCount : 0 .. MaxCancelCBs,
                       cbNext : 0 .. MaxCancelCBs, refCount : Nat]]
      BY <1>1 DEF FreeRec
    <2>3. queue \in Seq(Task) /\ Len(queue) <= limit
      BY <1>1
    <2>4. fired \in [Token -> Seq(Nat)]
      BY <1>1
    <2>5. maps \in [MapId -> [at : {"none", "attached", "queued", "running"}, ct : Token \cup {0}]]
      BY <1>1 DEF NoMap
    <2> QED BY <1>1, <2>1, <2>2, <2>3, <2>4, <2>5 DEF TypeOK
  <1>3. RefExact
    <2>1. \A t \in Token : MapsOf(t) = {}
      BY <1>1 DEF MapsOf, NoMap
    <2>2. \A t \in Token : ct[t].refCount = 0 /\ ct[t].dispatching = FALSE /\ t \notin held
      BY <1>1 DEF FreeRec
    <2>3. \A t \in Token : Cardinality(MapsOf(t)) = 0
      BY <2>1, FS_EmptySet
    <2> QED BY <2>2, <2>3 DEF RefExact
  <1>4. FreeInv
    BY <1>1 DEF FreeInv, IsInjective, Range, FreeRec
  <1>5. TaskInv
    <2>1. Range(queue) = {} /\ IsInjective(queue)
      BY <1>1 DEF Range, IsInjective
    <2> QED BY <1>1, <2>1, Tasks DEF TaskInv, NoMap, FreeRec
  <1>6. CallInv
    BY <1>1 DEF CallInv, FreeRec
  <1> QED BY <1>2, <1>3, <1>4, <1>5, <1>6 DEF IInv

-----------------------------------------------------------------------------
\* A new map joins its token's maps, and no other token's.
LEMMA MapAdded ==
  ASSUME NEW m \in MapId, NEW t \in Token, NEW place \in {"attached", "queued"},
         maps \in [MapId -> [at : {"none", "attached", "queued", "running"}, ct : Token \cup {0}]],
         maps[m].at = "none", maps' = [maps EXCEPT ![m] = [at |-> place, ct |-> t]]
  PROVE  /\ Cardinality(MapsOf(t)') = Cardinality(MapsOf(t)) + 1
         /\ \A u \in Token \ {t} : MapsOf(u)' = MapsOf(u)
  <1>1. m \notin MapsOf(t) /\ MapsOf(t)' = MapsOf(t) \cup {m}
    BY DEF MapsOf
  <1>2. \A u \in Token \ {t} : MapsOf(u)' = MapsOf(u)
    BY DEF MapsOf
  <1>3. IsFiniteSet(MapsOf(t))
    BY MapsFinite
  <1> QED BY <1>1, <1>2, <1>3, FS_AddElement

\* A map that ends leaves its token's maps, and no other token's.
LEMMA MapRemoved ==
  ASSUME NEW m \in MapId, NEW t \in Token, maps[m].ct = t, maps[m].at # "none",
         maps' = [maps EXCEPT ![m] = NoMap],
         maps \in [MapId -> [at : {"none", "attached", "queued", "running"}, ct : Token \cup {0}]]
  PROVE  /\ m \in MapsOf(t)
         /\ Cardinality(MapsOf(t)') = Cardinality(MapsOf(t)) - 1
         /\ \A u \in Token \ {t} : MapsOf(u)' = MapsOf(u)
  <1>1. m \in MapsOf(t) /\ MapsOf(t)' = MapsOf(t) \ {m}
    BY DEF MapsOf, NoMap
  <1>2. \A u \in Token \ {t} : MapsOf(u)' = MapsOf(u)
    BY DEF MapsOf, NoMap
  <1>3. IsFiniteSet(MapsOf(t))
    BY MapsFinite
  <1> QED BY <1>1, <1>2, <1>3, FS_RemoveElement

\* ReleaseCancel gives up one reference, and puts the slot back on the free
\* list exactly when that was the last one.  r is the token's record, perhaps
\* with its dispatch ended.
LEMMA Release ==
  ASSUME IInv, NEW t \in Token, NEW r \in CtRec, r.refCount = ct[t].refCount, r.refCount >= 1,
         r.cancelled = ct[t].cancelled, r.cbNext = ct[t].cbNext, r.cbCount = ct[t].cbCount,
         r.dispatching => ct[t].dispatching, ReleaseCancel(t, r)
  PROVE  /\ ct' \in [Token -> CtRec] /\ ctFree' \in Seq(Token) /\ fired' \in [Token -> Seq(Nat)]
         /\ FreeInv' /\ CallInv'
         /\ ct'[t].refCount = ct[t].refCount - 1
         /\ ct'[t].dispatching <=> r.refCount > 1 /\ r.dispatching
         /\ \A u \in Token \ {t} : ct'[u] = ct[u]
  <1>1. TypeOK /\ FreeInv /\ CallInv
    BY DEF IInv
  <1>2. ct \in [Token -> CtRec] /\ ctFree \in Seq(Token) /\ fired \in [Token -> Seq(Nat)]
    BY <1>1 DEF TypeOK, CtRec
  <1>3. t \notin Range(ctFree)
    BY <1>1 DEF FreeInv
  <1>4. CASE r.refCount = 1
    <2>1. ct' = [ct EXCEPT ![t] = FreeRec] /\ ctFree' = Append(ctFree, t)
          /\ fired' = [fired EXCEPT ![t] = << >>]
      BY <1>4 DEF ReleaseCancel, Freed
    <2>2. FreeRec \in CtRec /\ FreeRec.refCount = 0 /\ FreeRec.dispatching = FALSE
          /\ FreeRec.cancelled = FALSE /\ FreeRec.cbNext <= FreeRec.cbCount
      BY TokensAssumption DEF FreeRec, CtRec
    <2>3. ct' \in [Token -> CtRec] /\ ct'[t] = FreeRec /\ \A u \in Token \ {t} : ct'[u] = ct[u]
      BY <1>2, <2>1, <2>2
    <2>4. fired' \in [Token -> Seq(Nat)] /\ fired'[t] = << >> /\ \A u \in Token \ {t} : fired'[u] = fired[u]
      BY <1>2, <2>1
    <2>5. ctFree' \in Seq(Token) /\ Range(ctFree') = Range(ctFree) \cup {t} /\ IsInjective(ctFree')
      BY <1>1, <1>2, <1>3, <2>1, AppendElements DEF FreeInv
    <2>6. FreeInv'
      BY <1>1, <2>2, <2>3, <2>5 DEF FreeInv
    <2>7. CallInv'
      BY <1>1, <2>2, <2>3, <2>4 DEF CallInv
    <2> QED BY <1>4, <2>2, <2>3, <2>4, <2>5, <2>6, <2>7
  <1>5. CASE r.refCount # 1
    <2>1. ct' = [ct EXCEPT ![t] = [r EXCEPT !.refCount = @ - 1]] /\ UNCHANGED <<ctFree, fired>>
      BY <1>5 DEF ReleaseCancel, Freed
    <2>2. r.refCount \in Nat /\ r.refCount > 1
      BY <1>5 DEF CtRec
    <2> DEFINE q == [r EXCEPT !.refCount = @ - 1]
    <2>3. q \in CtRec /\ q.refCount = r.refCount - 1 /\ q.refCount # 0 /\ q.dispatching = r.dispatching
          /\ q.cancelled = r.cancelled /\ q.cbNext = r.cbNext /\ q.cbCount = r.cbCount
      BY <2>2 DEF CtRec
    <2>4. ct' \in [Token -> CtRec] /\ ct'[t] = q /\ \A u \in Token \ {t} : ct'[u] = ct[u]
      BY <1>2, <2>1, <2>3
    <2> HIDE DEF q
    <2>5. FreeInv'
      BY <1>1, <2>1, <2>2, <2>3, <2>4 DEF FreeInv
    <2>6. CallInv'
      BY <1>1, <2>1, <2>3, <2>4 DEF CallInv
    <2> QED BY <1>2, <2>1, <2>2, <2>3, <2>4, <2>5, <2>6
  <1> QED BY <1>4, <1>5

\* An operation that changes one record, not its references or its dispatch.
LEMMA SetRec ==
  ASSUME IInv, NEW t \in Token, NEW r \in CtRec, ct' = [ct EXCEPT ![t] = r],
         UNCHANGED <<ctFree, held, maps, queue, limit, frame, fired>>,
         r.refCount = ct[t].refCount, r.dispatching = ct[t].dispatching,
         r.cbNext <= r.cbCount, r.dispatching => r.cancelled, ct[t].cancelled => r.cancelled,
         \A i \in DOMAIN fired[t] : fired[t][i] < r.cbNext
  PROVE  IInv'
  <1>1. TypeOK /\ RefExact /\ FreeInv /\ TaskInv /\ CallInv
    BY DEF IInv
  <1>2. ct' \in [Token -> CtRec] /\ ct'[t] = r /\ \A u \in Token \ {t} : ct'[u] = ct[u]
    BY <1>1 DEF TypeOK, CtRec
  <1>3. \A u \in Token : ct'[u].refCount = ct[u].refCount /\ ct'[u].dispatching = ct[u].dispatching
    BY <1>2
  <1>4. TypeOK'
    BY <1>1, <1>2 DEF TypeOK, CtRec
  <1>5. RefExact'
    <2>1. \A u \in Token : MapsOf(u)' = MapsOf(u)
      BY DEF MapsOf
    <2> QED BY <1>1, <1>3, <2>1 DEF RefExact
  <1>6. FreeInv' /\ TaskInv'
    BY <1>1, <1>3 DEF FreeInv, TaskInv
  <1>7. CallInv'
    BY <1>1, <1>2 DEF CallInv
  <1> QED BY <1>4, <1>5, <1>6, <1>7 DEF IInv

\* A reference taken changes the count alone.
LEMMA RetainedRec ==
  ASSUME NEW r \in CtRec
  PROVE  /\ Retained(r) \in CtRec /\ Retained(r).refCount = r.refCount + 1
         /\ Retained(r).dispatching = r.dispatching /\ Retained(r).cancelled = r.cancelled
         /\ Retained(r).cbNext = r.cbNext /\ Retained(r).cbCount = r.cbCount
  BY DEF CtRec, Retained

\* Starting a dispatch queues the token's one task and takes a reference for it.
LEMMA DispatchInv ==
  ASSUME IInv, NEW t \in Token, NEW r \in CtRec, t \in held, Dispatch(t, r),
         UNCHANGED <<ctFree, held, maps, limit, frame, fired>>,
         r.refCount = ct[t].refCount, ~ ct[t].dispatching, ~ r.dispatching,
         r.cbNext <= r.cbCount, r.cancelled,
         \A i \in DOMAIN fired[t] : fired[t][i] < r.cbNext
  PROVE  IInv'
  <1>1. TypeOK /\ RefExact /\ FreeInv /\ TaskInv /\ CallInv
    BY DEF IInv
  <1>2. CASE ~ HasRoom(queue)
    <2>1. ct' = [ct EXCEPT ![t] = r] /\ UNCHANGED queue
      BY <1>2 DEF Dispatch
    <2>2. r.dispatching = ct[t].dispatching
      BY <1>1 DEF CtRec, TypeOK
    <2> QED BY <2>1, <2>2, SetRec
  <1>3. CASE HasRoom(queue)
    <2> DEFINE q == Retained([r EXCEPT !.dispatching = TRUE])
    <2>1. ct' = [ct EXCEPT ![t] = q] /\ queue' = Append(queue, CancelTask(t))
      BY <1>3 DEF Dispatch
    <2>2. q \in CtRec /\ q.refCount = ct[t].refCount + 1 /\ q.dispatching = TRUE
          /\ q.cancelled = r.cancelled /\ q.cbNext = r.cbNext /\ q.cbCount = r.cbCount
      <3> DEFINE d == [r EXCEPT !.dispatching = TRUE]
      <3>1. d \in CtRec /\ d.refCount = r.refCount /\ d.dispatching = TRUE
            /\ d.cancelled = r.cancelled /\ d.cbNext = r.cbNext /\ d.cbCount = r.cbCount
        BY DEF CtRec
      <3> HIDE DEF d
      <3>2. Retained(d) \in CtRec /\ Retained(d).refCount = d.refCount + 1
            /\ Retained(d).dispatching = d.dispatching /\ Retained(d).cancelled = d.cancelled
            /\ Retained(d).cbNext = d.cbNext /\ Retained(d).cbCount = d.cbCount
        BY <3>1, RetainedRec
      <3> QED BY <3>1, <3>2 DEF d
    <2> HIDE DEF q
    <2>3. ct' \in [Token -> CtRec] /\ ct'[t] = q /\ \A u \in Token \ {t} : ct'[u] = ct[u]
      BY <1>1, <2>1, <2>2 DEF TypeOK, CtRec
    <2>4. CancelTask(t) \in Task /\ CancelTask(t) \notin Range(queue) /\ frame # CancelTask(t)
      BY <1>1, Tasks DEF TaskInv
    <2>5. queue' \in Seq(Task) /\ Len(queue') = Len(queue) + 1 /\ IsInjective(queue')
          /\ Range(queue') = Range(queue) \cup {CancelTask(t)}
      BY <1>1, <2>1, <2>4, AppendElements DEF TypeOK, TaskInv
    <2>6. TypeOK'
      <3>1. limit \in Nat /\ Len(queue) \in Nat /\ Len(queue') <= limit
        BY <1>1, <1>3, <2>5, LimitsAssumption DEF TypeOK, HasRoom
      <3> QED BY <1>1, <2>3, <2>5, <3>1 DEF TypeOK, CtRec
    <2>7. RefExact'
      <3>1. \A u \in Token : MapsOf(u)' = MapsOf(u)
        BY DEF MapsOf
      <3>2. ASSUME NEW u \in Token
            PROVE  ct'[u].refCount = Cardinality(MapsOf(u)) + (IF u \in held THEN 1 ELSE 0)
                                     + (IF ct'[u].dispatching THEN 1 ELSE 0)
        <4>1. ct[u].refCount = Cardinality(MapsOf(u)) + (IF u \in held THEN 1 ELSE 0)
                               + (IF ct[u].dispatching THEN 1 ELSE 0)
          BY <1>1 DEF RefExact
        <4>2. Cardinality(MapsOf(u)) \in Nat
          BY MapsFinite
        <4> QED BY <2>2, <2>3, <4>1, <4>2
      <3> QED BY <3>1, <3>2 DEF RefExact
    <2>8. FreeInv'
      <3>1. ct[t].refCount \in Nat /\ ct[t].refCount >= 1
        BY <1>1, RefParts DEF TypeOK
      <3> QED BY <1>1, <2>2, <2>3, <3>1 DEF FreeInv
    <2>9. TaskInv'
      BY <1>1, <2>2, <2>3, <2>4, <2>5, Tasks DEF TaskInv
    <2>10. CallInv'
      BY <1>1, <2>2, <2>3 DEF CallInv
    <2> QED BY <2>6, <2>7, <2>8, <2>9, <2>10 DEF IInv
  <1> QED BY <1>2, <1>3

\* RefExact of one token, in terms of numbers.
RefsAt(t) ==
  ct[t].refCount = Cardinality(MapsOf(t)) + (IF t \in held THEN 1 ELSE 0)
                   + (IF ct[t].dispatching THEN 1 ELSE 0)

\* RefExact is kept when it is for the one token the step touches.
LEMMA RefsMove ==
  ASSUME RefExact, NEW t \in Token, RefsAt(t)',
         \A u \in Token \ {t} : /\ ct'[u] = ct[u] /\ MapsOf(u)' = MapsOf(u)
                                /\ u \in held' <=> u \in held
  PROVE  RefExact'
  <1>1. ASSUME NEW u \in Token \ {t} PROVE RefsAt(u)'
    BY <1>1 DEF RefExact, RefsAt
  <1> QED BY <1>1 DEF RefExact, RefsAt

\* What the updates of a record leave alone.
LEMMA RecUpdates ==
  ASSUME NEW c \in CtRec
  PROVE  /\ LET r == [c EXCEPT !.cancelled = TRUE, !.cbNext = 0]
            IN  r \in CtRec /\ r.refCount = c.refCount /\ r.dispatching = c.dispatching /\ r.cancelled
                /\ r.cbNext = 0 /\ r.cbCount = c.cbCount
         /\ c.cbCount < MaxCancelCBs =>
              LET r == [c EXCEPT !.cbCount = @ + 1]
              IN  r \in CtRec /\ r.refCount = c.refCount /\ r.dispatching = c.dispatching
                  /\ r.cancelled = c.cancelled /\ r.cbCount = c.cbCount + 1 /\ r.cbNext = c.cbNext
         /\ c.cbCount > 0 =>
              LET r == [c EXCEPT !.cbNext = c.cbCount - 1]
              IN  r \in CtRec /\ r.refCount = c.refCount /\ r.dispatching = c.dispatching
                  /\ r.cancelled = c.cancelled /\ r.cbCount = c.cbCount /\ r.cbNext = c.cbCount - 1
         /\ c.cbNext < c.cbCount =>
              LET r == [c EXCEPT !.cbNext = c.cbNext + 1]
              IN  r \in CtRec /\ r.refCount = c.refCount /\ r.dispatching = c.dispatching
                  /\ r.cancelled = c.cancelled /\ r.cbCount = c.cbCount /\ r.cbNext = c.cbNext + 1
         /\ Ended(c) \in CtRec /\ Ended(c).refCount = c.refCount /\ Ended(c).dispatching = FALSE
         /\ Ended(c).cancelled = c.cancelled /\ Ended(c).cbCount = c.cbCount /\ Ended(c).cbNext = c.cbNext
  <1> USE TokensAssumption DEF CtRec
  <1>1. LET r == [c EXCEPT !.cancelled = TRUE, !.cbNext = 0]
        IN  r \in CtRec /\ r.refCount = c.refCount /\ r.dispatching = c.dispatching /\ r.cancelled
            /\ r.cbNext = 0 /\ r.cbCount = c.cbCount
    <2>1. [c EXCEPT !.cancelled = TRUE] \in CtRec
      OBVIOUS
    <2>2. PICK d \in CtRec : d = [c EXCEPT !.cancelled = TRUE]
      BY <2>1
    <2>3. d.refCount = c.refCount /\ d.dispatching = c.dispatching /\ d.cancelled /\ d.cbCount = c.cbCount
      BY <2>2
    <2>4. LET r == [d EXCEPT !.cbNext = 0]
          IN  r \in CtRec /\ r.refCount = d.refCount /\ r.dispatching = d.dispatching
              /\ r.cancelled = d.cancelled /\ r.cbNext = 0 /\ r.cbCount = d.cbCount
      OBVIOUS
    <2>5. [c EXCEPT !.cancelled = TRUE, !.cbNext = 0] = [d EXCEPT !.cbNext = 0]
      BY <2>2
    <2> QED BY <2>3, <2>4, <2>5
  <1>2. c.cbCount < MaxCancelCBs =>
          LET r == [c EXCEPT !.cbCount = @ + 1]
          IN  r \in CtRec /\ r.refCount = c.refCount /\ r.dispatching = c.dispatching
              /\ r.cancelled = c.cancelled /\ r.cbCount = c.cbCount + 1 /\ r.cbNext = c.cbNext
    OBVIOUS
  <1>3. c.cbCount > 0 =>
          LET r == [c EXCEPT !.cbNext = c.cbCount - 1]
          IN  r \in CtRec /\ r.refCount = c.refCount /\ r.dispatching = c.dispatching
              /\ r.cancelled = c.cancelled /\ r.cbCount = c.cbCount /\ r.cbNext = c.cbCount - 1
    OBVIOUS
  <1>4. c.cbNext < c.cbCount =>
          LET r == [c EXCEPT !.cbNext = c.cbNext + 1]
          IN  r \in CtRec /\ r.refCount = c.refCount /\ r.dispatching = c.dispatching
              /\ r.cancelled = c.cancelled /\ r.cbCount = c.cbCount /\ r.cbNext = c.cbNext + 1
    OBVIOUS
  <1>5. /\ Ended(c) \in CtRec /\ Ended(c).refCount = c.refCount /\ Ended(c).dispatching = FALSE
        /\ Ended(c).cancelled = c.cancelled /\ Ended(c).cbCount = c.cbCount /\ Ended(c).cbNext = c.cbNext
    BY DEF Ended
  <1> QED BY <1>1, <1>2, <1>3, <1>4, <1>5

\* Taking a token from the free list: nothing refers to a free slot.
LEMMA CreateInv ==
  ASSUME IInv, CancelTokenCreate
  PROVE  IInv'
  <1>1. TypeOK /\ RefExact /\ FreeInv /\ TaskInv /\ CallInv
    BY DEF IInv
  <1> DEFINE t == Last(ctFree)  r == [FreeRec EXCEPT !.refCount = 1]
  <1>2. /\ ctFree # << >> /\ ct' = [ct EXCEPT ![t] = r] /\ held' = held \cup {t}
        /\ fired' = [fired EXCEPT ![t] = << >>] /\ ctFree' = Front(ctFree)
        /\ UNCHANGED <<maps, queue, limit, frame>>
    BY DEF CancelTokenCreate
  <1>3. r \in CtRec /\ r.refCount = 1 /\ r.dispatching = FALSE /\ r.cancelled = FALSE /\ r.cbNext <= r.cbCount
    <2>0. FreeRec \in CtRec
      BY TokensAssumption DEF CtRec, FreeRec
    <2>1. PICK c \in CtRec : c = FreeRec
      BY <2>0
    <2>2. c.dispatching = FALSE /\ c.cancelled = FALSE /\ c.cbNext = 0 /\ c.cbCount = 0
      BY <2>1 DEF FreeRec
    <2>3. r = [c EXCEPT !.refCount = 1]
      BY <2>1
    <2> QED BY <2>2, <2>3 DEF CtRec
  <1>4. t \in Token /\ t \in Range(ctFree) /\ ctFree' \in Seq(Token) /\ IsInjective(ctFree')
        /\ Range(ctFree') = Range(ctFree) \ {t}
    BY <1>1, <1>2, FrontElements DEF TypeOK, FreeInv
  <1> HIDE DEF r
  <1>5. PICK tt \in Token : tt = t
    BY <1>4
  <1> HIDE DEF t
  <1>6. ct[tt].refCount = 0 /\ tt \notin held /\ MapsOf(tt) = {} /\ ~ ct[tt].dispatching
    <2>1. ct[tt].refCount = 0
      BY <1>1, <1>4, <1>5 DEF FreeInv
    <2> QED BY <2>1, RefParts
  <1>7. ct' \in [Token -> CtRec] /\ ct'[tt] = r /\ \A u \in Token \ {tt} : ct'[u] = ct[u]
    BY <1>1, <1>2, <1>3, <1>5 DEF TypeOK, CtRec
  <1>8. fired' \in [Token -> Seq(Nat)] /\ fired'[tt] = << >> /\ \A u \in Token \ {tt} : fired'[u] = fired[u]
    BY <1>1, <1>2, <1>5 DEF TypeOK
  <1>9. TypeOK'
    BY <1>1, <1>2, <1>4, <1>5, <1>7, <1>8 DEF TypeOK, CtRec
  <1>10. RefExact'
    <2>1. \A u \in Token : MapsOf(u)' = MapsOf(u)
      BY <1>2 DEF MapsOf
    <2>2. Cardinality(MapsOf(tt)) = 0
      BY <1>6, FS_EmptySet
    <2>3. RefsAt(tt)'
      BY <1>2, <1>3, <1>5, <1>7, <2>1, <2>2 DEF RefsAt
    <2> QED BY <1>1, <1>2, <1>5, <1>7, <2>1, <2>3, RefsMove
  <1>11. FreeInv'
    BY <1>1, <1>3, <1>4, <1>5, <1>7 DEF FreeInv
  <1>12. TaskInv'
    BY <1>1, <1>2, <1>3, <1>6, <1>7 DEF TaskInv
  <1>13. CallInv'
    BY <1>1, <1>3, <1>7, <1>8 DEF CallInv
  <1> QED BY <1>9, <1>10, <1>11, <1>12, <1>13 DEF IInv

\* A client gives up its handle; a dispatch or a map may keep the token.
LEMMA DestroyInv ==
  ASSUME IInv, NEW t \in Token, CancelTokenDestroy(t)
  PROVE  IInv'
  <1>1. TypeOK /\ RefExact /\ FreeInv /\ TaskInv /\ CallInv
    BY DEF IInv
  <1>2. t \in held /\ held' = held \ {t} /\ ReleaseCancel(t, ct[t]) /\ UNCHANGED <<maps, queue, limit, frame>>
    BY DEF CancelTokenDestroy
  <1>3. ct[t] \in CtRec /\ ct[t].refCount \in Nat /\ ct[t].refCount >= 1
    BY <1>1, <1>2, RefParts DEF TypeOK, CtRec
  <1>4. /\ ct' \in [Token -> CtRec] /\ ctFree' \in Seq(Token) /\ fired' \in [Token -> Seq(Nat)]
        /\ FreeInv' /\ CallInv'
        /\ ct'[t].refCount = ct[t].refCount - 1
        /\ ct'[t].dispatching <=> ct[t].refCount > 1 /\ ct[t].dispatching
        /\ \A u \in Token \ {t} : ct'[u] = ct[u]
    BY <1>2, <1>3, Release
  <1>5. ct'[t].dispatching <=> ct[t].dispatching
    BY <1>2, <1>3, <1>4, RefParts
  <1>6. TypeOK'
    BY <1>1, <1>2, <1>4 DEF TypeOK, CtRec
  <1>7. RefExact'
    <2>1. \A u \in Token : MapsOf(u)' = MapsOf(u)
      BY <1>2 DEF MapsOf
    <2>2. Cardinality(MapsOf(t)) \in Nat
      BY MapsFinite
    <2>3. RefsAt(t)
      BY <1>1 DEF RefExact, RefsAt
    <2>4. RefsAt(t)'
      BY <1>2, <1>4, <1>5, <2>1, <2>2, <2>3 DEF RefsAt
    <2> QED BY <1>1, <1>2, <1>4, <2>1, <2>4, RefsMove
  <1>8. TaskInv'
    BY <1>1, <1>2, <1>4, <1>5 DEF TaskInv
  <1> QED BY <1>4, <1>6, <1>7, <1>8 DEF IInv

\* The first Cancel of a token: no callback has been called yet.
LEMMA CancelInv ==
  ASSUME IInv, NEW t \in Token, Cancel(t)
  PROVE  IInv'
  <1>1. TypeOK /\ CallInv
    BY DEF IInv
  <1> DEFINE r == [ct[t] EXCEPT !.cancelled = TRUE, !.cbNext = 0]
  <1>2. /\ t \in held /\ ~ ct[t].cancelled /\ UNCHANGED <<ctFree, held, maps, limit, frame, fired>>
        /\ IF r.cbCount > 0 THEN Dispatch(t, r) ELSE ct' = [ct EXCEPT ![t] = r] /\ UNCHANGED queue
    BY DEF Cancel, FirstCancel
  <1>3. ct[t] \in CtRec
    BY <1>1 DEF TypeOK, CtRec
  <1>4. r \in CtRec /\ r.refCount = ct[t].refCount /\ r.dispatching = ct[t].dispatching /\ r.cancelled
        /\ r.cbNext = 0 /\ r.cbNext <= r.cbCount
    <2>1. r \in CtRec /\ r.refCount = ct[t].refCount /\ r.dispatching = ct[t].dispatching /\ r.cancelled
          /\ r.cbNext = 0
      BY <1>3, RecUpdates
    <2> HIDE DEF r
    <2> QED BY <2>1 DEF CtRec
  <1>5. ~ ct[t].dispatching /\ fired[t] = << >>
    BY <1>1, <1>2 DEF CallInv
  <1> HIDE DEF r
  <1>6. CASE r.cbCount > 0
    BY <1>2, <1>4, <1>5, <1>6, DispatchInv
  <1>7. CASE ~ (r.cbCount > 0)
    BY <1>2, <1>4, <1>5, <1>7, SetRec
  <1> QED BY <1>6, <1>7

\* A new callback, before, during or after the dispatch.
LEMMA OnCancelInv ==
  ASSUME IInv, NEW t \in Token, OnCancel(t)
  PROVE  IInv'
  <1>1. TypeOK /\ CallInv
    BY DEF IInv
  <1> DEFINE r == [ct[t] EXCEPT !.cbCount = @ + 1]  s == [r EXCEPT !.cbNext = r.cbCount - 1]
  <1>2. /\ t \in held /\ ct[t].cbCount < MaxCancelCBs
        /\ UNCHANGED <<ctFree, held, maps, limit, frame, fired>>
        /\ IF Starts(r) THEN Dispatch(t, s) ELSE ct' = [ct EXCEPT ![t] = r] /\ UNCHANGED queue
    BY DEF OnCancel
  <1>3. ct[t] \in CtRec /\ ct[t].cbNext <= ct[t].cbCount /\ (ct[t].dispatching => ct[t].cancelled)
        /\ fired[t] \in Seq(Nat) /\ \A i \in DOMAIN fired[t] : fired[t][i] < ct[t].cbNext
    BY <1>1 DEF TypeOK, CtRec, CallInv
  <1>4. r \in CtRec /\ r.refCount = ct[t].refCount /\ r.dispatching = ct[t].dispatching
        /\ r.cancelled = ct[t].cancelled /\ r.cbCount = ct[t].cbCount + 1 /\ r.cbNext = ct[t].cbNext
    BY <1>2, <1>3, RecUpdates
  <1>5. r.cbNext \in Nat /\ ct[t].cbCount \in Nat /\ r.cbNext <= r.cbCount
    BY <1>3, <1>4, TokensAssumption DEF CtRec
  <1>6. CASE Starts(r)
    <2> HIDE DEF r
    <2>1. s \in CtRec /\ s.refCount = r.refCount /\ s.dispatching = r.dispatching
          /\ s.cancelled = r.cancelled /\ s.cbCount = r.cbCount /\ s.cbNext = ct[t].cbCount
      <3>1. r.cbCount > 0 /\ r.cbCount - 1 = ct[t].cbCount
        BY <1>4, <1>5
      <3> QED BY <1>4, <3>1, RecUpdates
    <2> HIDE DEF s
    <2>2. \A i \in DOMAIN fired[t] : fired[t][i] < s.cbNext
      BY <1>3, <1>4, <1>5, <2>1
    <2>3. r.cancelled /\ ~ r.dispatching
      BY <1>6 DEF Starts
    <2>4. s.cancelled /\ ~ s.dispatching /\ ~ ct[t].dispatching /\ s.cbNext <= s.cbCount
          /\ s.refCount = ct[t].refCount
      BY <1>4, <1>5, <2>1, <2>3
    <2> QED BY <1>2, <1>6, <2>1, <2>2, <2>4, DispatchInv
  <1>7. CASE ~ Starts(r)
    <2> HIDE DEF r
    <2> QED BY <1>2, <1>3, <1>4, <1>5, <1>7, SetRec
  <1> QED BY <1>6, <1>7

\* A dispatch task runs: it calls the next callback, or there is none left.
LEMMA ExecInv ==
  ASSUME IInv, ExecCancelCB
  PROVE  IInv'
  <1>1. TypeOK /\ RefExact /\ FreeInv /\ TaskInv /\ CallInv
    BY DEF IInv
  <1>2. /\ frame = NoFrame /\ queue # << >> /\ Head(queue).task = "cancel" /\ queue' = Tail(queue)
        /\ UNCHANGED <<held, maps, limit>>
    BY DEF ExecCancelCB
  <1>3. Head(queue) \in Task /\ Head(queue) \in Range(queue) /\ queue' \in Seq(Task)
        /\ Len(queue') = Len(queue) - 1 /\ IsInjective(queue') /\ Range(queue') = Range(queue) \ {Head(queue)}
    BY <1>1, <1>2, TailElements DEF TypeOK, TaskInv
  <1>4. PICK t \in Token : Head(queue).id = t /\ Head(queue) = CancelTask(t)
    BY <1>2, <1>3, Tasks
  <1>5. ct[t] \in CtRec /\ ct[t].dispatching /\ ct[t].cancelled /\ ct[t].refCount >= 1
    BY <1>1, <1>3, <1>4, RefParts DEF TypeOK, CtRec, TaskInv, CallInv
  <1>6. limit \in Nat /\ Len(queue) \in Nat /\ Len(queue') <= limit
    BY <1>1, <1>3, LimitsAssumption DEF TypeOK
  <1>7. \A u \in Token : MapsOf(u)' = MapsOf(u)
    BY <1>2 DEF MapsOf
  <1>8. RefsAt(t) /\ Cardinality(MapsOf(t)) \in Nat
    BY <1>1, MapsFinite DEF RefExact, RefsAt
  <1>9. CASE ct[t].cbNext >= ct[t].cbCount
    <2>1. ReleaseCancel(t, Ended(ct[t])) /\ frame' = NoFrame
      BY <1>2, <1>4, <1>9 DEF ExecCancelCB
    <2>2. Ended(ct[t]) \in CtRec /\ Ended(ct[t]).refCount = ct[t].refCount /\ ~ Ended(ct[t]).dispatching
          /\ Ended(ct[t]).cancelled = ct[t].cancelled /\ Ended(ct[t]).cbNext = ct[t].cbNext
          /\ Ended(ct[t]).cbCount = ct[t].cbCount
      BY <1>5, RecUpdates
    <2>3. /\ ct' \in [Token -> CtRec] /\ ctFree' \in Seq(Token) /\ fired' \in [Token -> Seq(Nat)]
          /\ FreeInv' /\ CallInv' /\ ct'[t].refCount = ct[t].refCount - 1 /\ ~ ct'[t].dispatching
          /\ \A u \in Token \ {t} : ct'[u] = ct[u]
      BY <1>5, <2>1, <2>2, Release
    <2>4. TypeOK'
      BY <1>1, <1>2, <1>3, <1>6, <2>1, <2>3 DEF TypeOK, CtRec
    <2>5. RefExact'
      <3>1. RefsAt(t)'
        BY <1>2, <1>5, <1>7, <1>8, <2>3 DEF RefsAt
      <3> QED BY <1>1, <1>2, <1>7, <2>3, <3>1, RefsMove
    <2>6. TaskInv'
      <3>1. \A u \in Token \ {t} : CancelTask(u) # CancelTask(t)
        BY Tasks
      <3>2. ASSUME NEW u \in Token
            PROVE  ct'[u].dispatching <=> CancelTask(u) \in Range(queue') \/ frame' = CancelTask(u)
        <4>1. frame' # CancelTask(u) /\ frame # CancelTask(u)
          BY <1>2, <2>1, Tasks
        <4> QED BY <1>1, <1>3, <1>4, <2>3, <3>1, <4>1 DEF TaskInv
      <3>3. \A m \in MapId : MapTask(m) # CancelTask(t)
        BY Tasks
      <3> QED BY <1>1, <1>2, <1>3, <1>4, <2>1, <3>2, <3>3 DEF TaskInv
    <2> QED BY <2>3, <2>4, <2>5, <2>6 DEF IInv
  <1>10. CASE ~ (ct[t].cbNext >= ct[t].cbCount)
    <2>1. /\ ct' = [ct EXCEPT ![t].cbNext = @ + 1] /\ frame' = CancelTask(t) /\ ctFree' = ctFree
          /\ fired' = [fired EXCEPT ![t] = Append(@, ct[t].cbNext)]
      BY <1>4, <1>10 DEF ExecCancelCB
    <2>2. PICK c \in CtRec : c = ct[t]
      BY <1>5
    <2> DEFINE r == [c EXCEPT !.cbNext = c.cbNext + 1]
    <2>3. ct[t].cbNext \in Nat /\ ct[t].cbCount \in Nat /\ ct[t].cbNext < ct[t].cbCount
      BY <1>5, <1>10 DEF CtRec
    <2>4. r \in CtRec /\ r.refCount = c.refCount /\ r.dispatching = c.dispatching
          /\ r.cancelled = c.cancelled /\ r.cbCount = c.cbCount /\ r.cbNext = c.cbNext + 1
      BY <2>2, <2>3, RecUpdates
    <2>5. ct' = [ct EXCEPT ![t] = r]
      BY <2>1, <2>2
    <2> HIDE DEF r
    <2>6. ct' \in [Token -> CtRec] /\ ct'[t] = r /\ \A u \in Token \ {t} : ct'[u] = ct[u]
      BY <1>1, <2>4, <2>5 DEF TypeOK, CtRec
    <2>7. /\ fired[t] \in Seq(Nat) /\ fired' \in [Token -> Seq(Nat)]
          /\ fired'[t] = Append(fired[t], ct[t].cbNext)
          /\ \A u \in Token \ {t} : fired'[u] = fired[u]
      BY <1>1, <2>1, <2>3 DEF TypeOK
    <2>8. TypeOK'
      <3>1. frame' \in Task
        BY <2>1, Tasks
      <3> QED BY <1>1, <1>2, <1>3, <1>6, <2>1, <2>6, <2>7, <3>1 DEF TypeOK, CtRec
    <2>9. RefExact'
      <3>1. RefsAt(t)'
        BY <1>2, <1>7, <1>8, <2>2, <2>4, <2>6 DEF RefsAt
      <3> QED BY <1>1, <1>2, <1>7, <2>6, <3>1, RefsMove
    <2>10. FreeInv'
      BY <1>1, <2>1, <2>2, <2>4, <2>6 DEF FreeInv
    <2>11. TaskInv'
      <3>1. \A u \in Token : ct'[u].dispatching <=> ct[u].dispatching
        BY <2>2, <2>4, <2>6
      <3> QED BY <1>1, <1>2, <1>3, <1>4, <2>1, <3>1, Tasks DEF TaskInv
    <2>12. CallInv'
      <3> DEFINE s == fired[t]  x == ct[t].cbNext
      <3>1. s \in Seq(Nat) /\ x \in Nat /\ (\A i \in DOMAIN s : s[i] < x)
            /\ \A i, j \in DOMAIN s : i < j => s[i] < s[j]
        BY <1>1, <2>3, <2>7 DEF CallInv
      <3> HIDE DEF s, x
      <3>2. /\ \A i \in DOMAIN Append(s, x) : Append(s, x)[i] < x + 1
            /\ \A i, j \in DOMAIN Append(s, x) : i < j => Append(s, x)[i] < Append(s, x)[j]
        BY <3>1
      <3>3. /\ \A i \in DOMAIN fired'[t] : fired'[t][i] < ct'[t].cbNext
            /\ \A i, j \in DOMAIN fired'[t] : i < j => fired'[t][i] < fired'[t][j]
        BY <2>2, <2>4, <2>6, <2>7, <3>2 DEF s, x
      <3>4. ct'[t].cbNext <= ct'[t].cbCount /\ ct'[t].cancelled
        BY <1>5, <2>2, <2>3, <2>4, <2>6
      <3> QED BY <1>1, <2>6, <2>7, <3>3, <3>4 DEF CallInv
    <2> QED BY <2>8, <2>9, <2>10, <2>11, <2>12 DEF IInv
  <1> QED BY <1>9, <1>10

\* The callback returns: the dispatch goes on with a task of its own, or ends.
LEMMA ExecReturnInv ==
  ASSUME IInv, ExecCancelCBReturn
  PROVE  IInv'
  <1>1. TypeOK /\ RefExact /\ FreeInv /\ TaskInv /\ CallInv
    BY DEF IInv
  <1>2. frame.task = "cancel" /\ frame' = NoFrame /\ UNCHANGED <<held, maps, limit>>
    BY DEF ExecCancelCBReturn
  <1>3. PICK t \in Token : frame.id = t /\ frame = CancelTask(t)
    BY <1>1, <1>2, Tasks DEF TypeOK
  <1>4. ct[t] \in CtRec /\ ct[t].dispatching /\ ct[t].refCount >= 1 /\ CancelTask(t) \notin Range(queue)
    BY <1>1, <1>3, RefParts DEF TypeOK, CtRec, TaskInv
  <1>5. \A u \in Token : MapsOf(u)' = MapsOf(u)
    BY <1>2 DEF MapsOf
  <1>6. CASE MoreToCall(ct[t]) /\ HasRoom(queue)
    <2>1. queue' = Append(queue, CancelTask(t)) /\ UNCHANGED <<ct, ctFree, fired>>
      BY <1>3, <1>6 DEF ExecCancelCBReturn
    <2>2. queue' \in Seq(Task) /\ Len(queue') = Len(queue) + 1 /\ IsInjective(queue')
          /\ Range(queue') = Range(queue) \cup {CancelTask(t)}
      BY <1>1, <1>4, <2>1, AppendElements, Tasks DEF TypeOK, TaskInv
    <2>3. TypeOK'
      <3>1. limit \in Nat /\ Len(queue) \in Nat /\ Len(queue') <= limit
        BY <1>1, <1>6, <2>2, LimitsAssumption DEF TypeOK, HasRoom
      <3> QED BY <1>1, <1>2, <2>1, <2>2, <3>1 DEF TypeOK
    <2>4. RefExact' /\ FreeInv' /\ CallInv'
      BY <1>1, <1>2, <1>5, <2>1 DEF RefExact, FreeInv, CallInv
    <2>5. TaskInv'
      <3>1. NoFrame \notin Range(queue')
        BY <2>2, SeqElements, Tasks
      <3> QED BY <1>1, <1>2, <1>3, <2>1, <2>2, <3>1, Tasks DEF TaskInv
    <2> QED BY <2>3, <2>4, <2>5 DEF IInv
  <1>7. CASE ~ (MoreToCall(ct[t]) /\ HasRoom(queue))
    <2>1. ReleaseCancel(t, Ended(ct[t])) /\ UNCHANGED queue
      BY <1>3, <1>7 DEF ExecCancelCBReturn
    <2>2. Ended(ct[t]) \in CtRec /\ Ended(ct[t]).refCount = ct[t].refCount /\ ~ Ended(ct[t]).dispatching
          /\ Ended(ct[t]).cancelled = ct[t].cancelled /\ Ended(ct[t]).cbNext = ct[t].cbNext
          /\ Ended(ct[t]).cbCount = ct[t].cbCount
      BY <1>4, RecUpdates
    <2>3. /\ ct' \in [Token -> CtRec] /\ ctFree' \in Seq(Token) /\ fired' \in [Token -> Seq(Nat)]
          /\ FreeInv' /\ CallInv' /\ ct'[t].refCount = ct[t].refCount - 1 /\ ~ ct'[t].dispatching
          /\ \A u \in Token \ {t} : ct'[u] = ct[u]
      BY <1>4, <2>1, <2>2, Release
    <2>4. TypeOK'
      BY <1>1, <1>2, <2>1, <2>3 DEF TypeOK, CtRec
    <2>5. RefExact'
      <3>1. RefsAt(t) /\ Cardinality(MapsOf(t)) \in Nat
        BY <1>1, MapsFinite DEF RefExact, RefsAt
      <3>2. RefsAt(t)'
        BY <1>2, <1>4, <1>5, <2>3, <3>1 DEF RefsAt
      <3> QED BY <1>1, <1>2, <1>5, <2>3, <3>2, RefsMove
    <2>6. TaskInv'
      <3>1. NoFrame \notin Range(queue)
        BY <1>1, SeqElements, Tasks DEF TypeOK
      <3>2. \A u \in Token \ {t} : CancelTask(u) # CancelTask(t)
        BY Tasks
      <3>3. ASSUME NEW u \in Token
            PROVE  ct'[u].dispatching <=> CancelTask(u) \in Range(queue') \/ frame' = CancelTask(u)
        <4>1. frame' # CancelTask(u)
          BY <1>2, Tasks
        <4> QED BY <1>1, <1>3, <1>4, <2>1, <2>3, <3>2, <4>1 DEF TaskInv
      <3>4. \A m \in MapId : MapTask(m) # frame /\ MapTask(m) # frame'
        BY <1>2, <1>3, Tasks
      <3> QED BY <1>1, <1>2, <2>1, <3>1, <3>3, <3>4 DEF TaskInv
    <2> QED BY <2>3, <2>4, <2>5, <2>6 DEF IInv
  <1> QED BY <1>6, <1>7

\* A continuation that is queued finds no copy of itself, queued or running.
LEMMA QueueMap ==
  ASSUME IInv, NEW m \in MapId, maps[m].at \notin {"queued", "running"}, HasRoom(queue),
         queue' = Append(queue, MapTask(m)), UNCHANGED <<limit, frame>>
  PROVE  /\ queue' \in Seq(Task) /\ Len(queue') <= limit' /\ IsInjective(queue')
         /\ Range(queue') = Range(queue) \cup {MapTask(m)} /\ frame' \notin Range(queue')
  <1>1. TypeOK /\ TaskInv
    BY DEF IInv
  <1>2. MapTask(m) \in Task /\ MapTask(m) \notin Range(queue) /\ frame # MapTask(m)
    BY <1>1, Tasks DEF TaskInv
  <1>3. queue' \in Seq(Task) /\ Len(queue') = Len(queue) + 1 /\ IsInjective(queue')
        /\ Range(queue') = Range(queue) \cup {MapTask(m)}
    BY <1>1, <1>2, AppendElements DEF TypeOK, TaskInv
  <1>4. limit \in Nat /\ Len(queue) \in Nat /\ Len(queue') <= limit'
    BY <1>1, <1>3, LimitsAssumption DEF TypeOK, HasRoom
  <1> QED BY <1>1, <1>2, <1>3, <1>4 DEF TaskInv

\* A cancellable map takes a reference for its continuation.
LEMMA MapCancellableInv ==
  ASSUME IInv, NEW m \in MapId, NEW t \in Token, MapCancellable(m, t)
  PROVE  IInv'
  <1>1. TypeOK /\ RefExact /\ FreeInv /\ TaskInv /\ CallInv
    BY DEF IInv
  <1>2. /\ t \in held /\ maps[m] = NoMap /\ ct' = [ct EXCEPT ![t] = Retained(@)]
        /\ UNCHANGED <<ctFree, held, limit, frame, fired>>
    BY DEF MapCancellable
  <1>3. PICK place \in {"attached", "queued"} :
          /\ maps' = [maps EXCEPT ![m] = [at |-> place, ct |-> t]]
          /\ place = "attached" => UNCHANGED queue
          /\ place = "queued" => HasRoom(queue) /\ queue' = Append(queue, MapTask(m))
    <2>1. CASE maps' = [maps EXCEPT ![m] = [at |-> "attached", ct |-> t]] /\ UNCHANGED queue
      BY <2>1
    <2>2. CASE HasRoom(queue) /\ maps' = [maps EXCEPT ![m] = [at |-> "queued", ct |-> t]]
               /\ queue' = Append(queue, MapTask(m))
      BY <2>2
    <2> QED BY <2>1, <2>2 DEF MapCancellable
  <1>4. maps[m].at = "none"
    BY <1>2 DEF NoMap
  <1>5. ct[t] \in CtRec
    BY <1>1 DEF TypeOK, CtRec
  <1> DEFINE r == Retained(ct[t])
  <1>6. r \in CtRec /\ r.refCount = ct[t].refCount + 1 /\ r.dispatching = ct[t].dispatching
        /\ r.cancelled = ct[t].cancelled /\ r.cbNext = ct[t].cbNext /\ r.cbCount = ct[t].cbCount
    BY <1>5, RetainedRec
  <1>7. ct' = [ct EXCEPT ![t] = r]
    BY <1>2
  <1> HIDE DEF r
  <1>8. ct' \in [Token -> CtRec] /\ ct'[t] = r /\ \A u \in Token \ {t} : ct'[u] = ct[u]
    BY <1>1, <1>6, <1>7 DEF TypeOK, CtRec
  <1>9. /\ maps' \in [MapId -> [at : {"none", "attached", "queued", "running"}, ct : Token \cup {0}]]
        /\ maps'[m].at = place /\ maps'[m].ct = t /\ \A k \in MapId \ {m} : maps'[k] = maps[k]
    BY <1>1, <1>3 DEF TypeOK
  <1>10. /\ queue' \in Seq(Task) /\ Len(queue') <= limit' /\ IsInjective(queue') /\ frame' \notin Range(queue')
         /\ Range(queue') = IF place = "queued" THEN Range(queue) \cup {MapTask(m)} ELSE Range(queue)
    <2>1. CASE place = "attached"
      BY <1>1, <1>2, <1>3, <2>1 DEF TypeOK, TaskInv
    <2>2. CASE place = "queued"
      BY <1>2, <1>3, <1>4, <2>2, QueueMap
    <2> QED BY <2>1, <2>2
  <1>11. TypeOK'
    BY <1>1, <1>2, <1>8, <1>9, <1>10 DEF TypeOK, CtRec
  <1>12. RefExact'
    <2>1. Cardinality(MapsOf(t)') = Cardinality(MapsOf(t)) + 1 /\ \A u \in Token \ {t} : MapsOf(u)' = MapsOf(u)
      BY <1>1, <1>3, <1>4, MapAdded DEF TypeOK
    <2>2. RefsAt(t) /\ Cardinality(MapsOf(t)) \in Nat
      BY <1>1, MapsFinite DEF RefExact, RefsAt
    <2>3. RefsAt(t)'
      BY <1>2, <1>6, <1>8, <2>1, <2>2 DEF RefsAt
    <2> QED BY <1>1, <1>2, <1>8, <2>1, <2>3, RefsMove
  <1>13. FreeInv'
    <2>1. ct[t].refCount \in Nat /\ ct[t].refCount >= 1
      BY <1>1, <1>2, RefParts DEF TypeOK
    <2> QED BY <1>1, <1>2, <1>6, <1>8, <2>1 DEF FreeInv
  <1>14. TaskInv'
    <2>1. \A u \in Token : ct'[u].dispatching <=> ct[u].dispatching
      BY <1>6, <1>8
    <2>2. \A u \in Token : CancelTask(u) # MapTask(m)
      BY Tasks
    <2>3. \A k \in MapId \ {m} : MapTask(k) # MapTask(m)
      BY Tasks
    <2>4. \A u \in Token : ct'[u].dispatching <=> CancelTask(u) \in Range(queue') \/ frame' = CancelTask(u)
      BY <1>1, <1>2, <1>10, <2>1, <2>2 DEF TaskInv
    <2>5. ASSUME NEW k \in MapId
          PROVE  /\ maps'[k].at = "queued" <=> MapTask(k) \in Range(queue')
                 /\ maps'[k].at = "running" <=> frame' = MapTask(k)
                 /\ maps'[k].at # "none" => maps'[k].ct \in Token
      BY <1>1, <1>2, <1>4, <1>9, <1>10, <2>3 DEF TaskInv
    <2> QED BY <1>10, <2>4, <2>5 DEF TaskInv
  <1>15. CallInv'
    BY <1>1, <1>2, <1>6, <1>8 DEF CallInv
  <1> QED BY <1>11, <1>12, <1>13, <1>14, <1>15 DEF IInv

\* The input of an attached map settles and its continuation is queued.
LEMMA InputSettlesInv ==
  ASSUME IInv, NEW m \in MapId, InputSettles(m)
  PROVE  IInv'
  <1>1. TypeOK /\ RefExact /\ FreeInv /\ TaskInv /\ CallInv
    BY DEF IInv
  <1>2. /\ maps[m].at = "attached" /\ HasRoom(queue) /\ queue' = Append(queue, MapTask(m))
        /\ maps' = [maps EXCEPT ![m].at = "queued"]
        /\ UNCHANGED <<ct, ctFree, held, limit, frame, fired>>
    BY DEF InputSettles
  <1>3. /\ queue' \in Seq(Task) /\ Len(queue') <= limit' /\ IsInjective(queue')
        /\ Range(queue') = Range(queue) \cup {MapTask(m)} /\ frame' \notin Range(queue')
    BY <1>2, QueueMap
  <1>4. /\ maps' \in [MapId -> [at : {"none", "attached", "queued", "running"}, ct : Token \cup {0}]]
        /\ maps'[m].at = "queued" /\ maps'[m].ct = maps[m].ct /\ \A k \in MapId \ {m} : maps'[k] = maps[k]
    BY <1>1, <1>2 DEF TypeOK
  <1>5. TypeOK'
    BY <1>1, <1>2, <1>3, <1>4 DEF TypeOK
  <1>6. RefExact' /\ FreeInv' /\ CallInv'
    <2>1. \A u \in Token : MapsOf(u)' = MapsOf(u)
      BY <1>2, <1>4 DEF MapsOf
    <2> QED BY <1>1, <1>2, <2>1 DEF RefExact, FreeInv, CallInv
  <1>7. TaskInv'
    <2>1. \A u \in Token : CancelTask(u) # MapTask(m)
      BY Tasks
    <2>2. \A k \in MapId \ {m} : MapTask(k) # MapTask(m)
      BY Tasks
    <2>3. \A u \in Token : ct'[u].dispatching <=> CancelTask(u) \in Range(queue') \/ frame' = CancelTask(u)
      BY <1>1, <1>2, <1>3, <2>1 DEF TaskInv
    <2>4. ASSUME NEW k \in MapId
          PROVE  /\ maps'[k].at = "queued" <=> MapTask(k) \in Range(queue')
                 /\ maps'[k].at = "running" <=> frame' = MapTask(k)
                 /\ maps'[k].at # "none" => maps'[k].ct \in Token
      BY <1>1, <1>2, <1>3, <1>4, <2>2 DEF TaskInv
    <2> QED BY <1>3, <2>3, <2>4 DEF TaskInv
  <1> QED BY <1>5, <1>6, <1>7 DEF IInv

\* A map's record goes, and the reference it held with it.  Shared by the
\* continuation that is skipped and the one that returns.
LEMMA MapDone ==
  ASSUME IInv, NEW m \in MapId, maps[m].at \in {"queued", "running"},
         maps' = [maps EXCEPT ![m] = NoMap], ReleaseCancel(maps[m].ct, ct[maps[m].ct]),
         UNCHANGED <<held, limit>>, frame' = NoFrame,
         queue' \in Seq(Task), Len(queue') <= limit, IsInjective(queue'),
         maps[m].at = "queued" => frame = NoFrame,
         Range(queue') = Range(queue) \ {MapTask(m)}
  PROVE  IInv'
  <1>1. TypeOK /\ RefExact /\ FreeInv /\ TaskInv /\ CallInv
    BY DEF IInv
  <1>2. PICK t \in Token : t = maps[m].ct
    BY <1>1 DEF TaskInv
  <1>3. /\ m \in MapsOf(t) /\ Cardinality(MapsOf(t)') = Cardinality(MapsOf(t)) - 1
        /\ \A u \in Token \ {t} : MapsOf(u)' = MapsOf(u)
    BY <1>1, <1>2, MapRemoved DEF TypeOK
  <1>4. ct[t] \in CtRec /\ ct[t].refCount \in Nat /\ ct[t].refCount >= 1
    BY <1>1, <1>3, RefParts DEF TypeOK, CtRec
  <1>5. ReleaseCancel(t, ct[t])
    BY <1>2
  <1>6. /\ ct' \in [Token -> CtRec] /\ ctFree' \in Seq(Token) /\ fired' \in [Token -> Seq(Nat)]
        /\ FreeInv' /\ CallInv' /\ ct'[t].refCount = ct[t].refCount - 1
        /\ ct'[t].dispatching <=> ct[t].refCount > 1 /\ ct[t].dispatching
        /\ \A u \in Token \ {t} : ct'[u] = ct[u]
    BY <1>4, <1>5, Release
  <1>7. ct'[t].dispatching <=> ct[t].dispatching
    <2>1. ct[t].dispatching => ct[t].refCount >= 2
      BY <1>3, RefParts
    <2> QED BY <1>4, <1>6, <2>1
  <1>8. /\ maps' \in [MapId -> [at : {"none", "attached", "queued", "running"}, ct : Token \cup {0}]]
        /\ maps'[m].at = "none" /\ \A k \in MapId \ {m} : maps'[k] = maps[k]
    BY <1>1 DEF TypeOK, NoMap
  <1>9. TypeOK'
    BY <1>1, <1>6, <1>8 DEF TypeOK, CtRec
  <1>10. RefExact'
    <2>1. RefsAt(t) /\ Cardinality(MapsOf(t)) \in Nat
      BY <1>1, MapsFinite DEF RefExact, RefsAt
    <2>2. RefsAt(t)'
      BY <1>3, <1>4, <1>6, <1>7, <2>1 DEF RefsAt
    <2> QED BY <1>1, <1>3, <1>6, <2>2, RefsMove
  <1>11. TaskInv'
    <2>1. frame = NoFrame \/ frame = MapTask(m)
      BY <1>1 DEF TaskInv
    <2>2. \A u \in Token : CancelTask(u) # MapTask(m) /\ CancelTask(u) # NoFrame
      BY Tasks
    <2>3. \A k \in MapId : (k # m => MapTask(k) # MapTask(m)) /\ MapTask(k) # NoFrame
      BY Tasks
    <2>4. frame' \notin Range(queue')
      BY SeqElements, Tasks
    <2>5. ASSUME NEW u \in Token
          PROVE  ct'[u].dispatching <=> CancelTask(u) \in Range(queue') \/ frame' = CancelTask(u)
      <3>1. ct'[u].dispatching <=> ct[u].dispatching
        BY <1>6, <1>7
      <3> QED BY <1>1, <2>1, <2>2, <3>1 DEF TaskInv
    <2>6. ASSUME NEW k \in MapId
          PROVE  /\ maps'[k].at = "queued" <=> MapTask(k) \in Range(queue')
                 /\ maps'[k].at = "running" <=> frame' = MapTask(k)
                 /\ maps'[k].at # "none" => maps'[k].ct \in Token
      BY <1>1, <1>8, <2>1, <2>3 DEF TaskInv
    <2> QED BY <2>4, <2>5, <2>6 DEF TaskInv
  <1> QED BY <1>6, <1>9, <1>10, <1>11 DEF IInv

\* A continuation runs, or is skipped when its token is cancelled by then.
LEMMA CancellableThenInv ==
  ASSUME IInv, CancellableThen
  PROVE  IInv'
  <1>1. TypeOK /\ RefExact /\ FreeInv /\ TaskInv /\ CallInv
    BY DEF IInv
  <1>2. /\ frame = NoFrame /\ queue # << >> /\ Head(queue).task = "map" /\ queue' = Tail(queue)
        /\ UNCHANGED <<held, limit>>
    BY DEF CancellableThen
  <1>3. Head(queue) \in Task /\ Head(queue) \in Range(queue) /\ queue' \in Seq(Task)
        /\ Len(queue') = Len(queue) - 1 /\ IsInjective(queue') /\ Range(queue') = Range(queue) \ {Head(queue)}
    BY <1>1, <1>2, TailElements DEF TypeOK, TaskInv
  <1>4. PICK m \in MapId : Head(queue).id = m /\ Head(queue) = MapTask(m)
    BY <1>2, <1>3, Tasks
  <1>5. maps[m].at = "queued" /\ maps[m].ct \in Token
    BY <1>1, <1>3, <1>4 DEF TaskInv
  <1>6. limit \in Nat /\ Len(queue) \in Nat /\ Len(queue') <= limit
    BY <1>1, <1>3, LimitsAssumption DEF TypeOK
  <1>7. CASE ct[maps[m].ct].cancelled
    <2>1. maps' = [maps EXCEPT ![m] = NoMap] /\ ReleaseCancel(maps[m].ct, ct[maps[m].ct]) /\ frame' = frame
      BY <1>4, <1>7 DEF CancellableThen
    <2> QED BY <1>2, <1>3, <1>4, <1>5, <1>6, <2>1, MapDone
  <1>8. CASE ~ ct[maps[m].ct].cancelled
    <2>1. maps' = [maps EXCEPT ![m].at = "running"] /\ frame' = MapTask(m) /\ UNCHANGED <<ct, ctFree, fired>>
      BY <1>4, <1>8 DEF CancellableThen
    <2>2. /\ maps' \in [MapId -> [at : {"none", "attached", "queued", "running"}, ct : Token \cup {0}]]
          /\ maps'[m].at = "running" /\ maps'[m].ct = maps[m].ct /\ \A k \in MapId \ {m} : maps'[k] = maps[k]
      BY <1>1, <2>1 DEF TypeOK
    <2>3. TypeOK'
      <3>1. frame' \in Task
        BY <2>1, Tasks
      <3> QED BY <1>1, <1>2, <1>3, <1>6, <2>1, <2>2, <3>1 DEF TypeOK
    <2>4. RefExact' /\ FreeInv' /\ CallInv'
      <3>1. \A u \in Token : MapsOf(u)' = MapsOf(u)
        BY <1>5, <2>2 DEF MapsOf
      <3> QED BY <1>1, <1>2, <2>1, <3>1 DEF RefExact, FreeInv, CallInv
    <2>5. TaskInv'
      <3>1. \A u \in Token : CancelTask(u) # MapTask(m) /\ CancelTask(u) # NoFrame
        BY Tasks
      <3>2. \A k \in MapId : (k # m => MapTask(k) # MapTask(m)) /\ MapTask(k) # NoFrame
        BY Tasks
      <3>3. \A u \in Token : ct'[u].dispatching <=> CancelTask(u) \in Range(queue') \/ frame' = CancelTask(u)
        BY <1>1, <1>2, <1>3, <1>4, <2>1, <3>1 DEF TaskInv
      <3>4. ASSUME NEW k \in MapId
            PROVE  /\ maps'[k].at = "queued" <=> MapTask(k) \in Range(queue')
                   /\ maps'[k].at = "running" <=> frame' = MapTask(k)
                   /\ maps'[k].at # "none" => maps'[k].ct \in Token
        BY <1>1, <1>2, <1>3, <1>4, <1>5, <2>1, <2>2, <3>2 DEF TaskInv
      <3> QED BY <1>3, <1>4, <2>1, <3>3, <3>4 DEF TaskInv
    <2> QED BY <2>3, <2>4, <2>5 DEF IInv
  <1> QED BY <1>7, <1>8

\* The user's function returns and the map's reference is given up.
LEMMA CancellableThenReturnInv ==
  ASSUME IInv, CancellableThenReturn
  PROVE  IInv'
  <1>1. TypeOK /\ TaskInv
    BY DEF IInv
  <1>2. frame.task = "map" /\ frame' = NoFrame /\ UNCHANGED <<held, queue, limit>>
    BY DEF CancellableThenReturn
  <1>3. PICK m \in MapId : frame.id = m /\ frame = MapTask(m)
    BY <1>1, <1>2, Tasks DEF TypeOK
  <1>4. maps[m].at = "running" /\ MapTask(m) \notin Range(queue)
    BY <1>1, <1>3 DEF TaskInv
  <1>5. maps' = [maps EXCEPT ![m] = NoMap] /\ ReleaseCancel(maps[m].ct, ct[maps[m].ct])
    BY <1>3 DEF CancellableThenReturn
  <1>6. queue' \in Seq(Task) /\ Len(queue') <= limit /\ IsInjective(queue')
        /\ Range(queue') = Range(queue) \ {MapTask(m)}
    BY <1>1, <1>2, <1>4 DEF TypeOK, TaskInv
  <1> QED BY <1>2, <1>4, <1>5, <1>6, MapDone

-----------------------------------------------------------------------------
\* Every operation of a client, also from inside a callback, and every step of
\* the pump keeps the references, the free list and the tasks in agreement.
THEOREM InvInductive == IInv /\ [Next]_vars => IInv'
  <1> SUFFICES ASSUME IInv, [Next]_vars PROVE IInv'
    OBVIOUS
  <1>1. CASE CancelTokenCreate
    BY <1>1, CreateInv
  <1>2. ASSUME NEW t \in Token, CancelTokenDestroy(t) PROVE IInv'
    BY <1>2, DestroyInv
  <1>3. ASSUME NEW t \in Token, Cancel(t) PROVE IInv'
    BY <1>3, CancelInv
  <1>4. ASSUME NEW t \in Token, OnCancel(t) PROVE IInv'
    BY <1>4, OnCancelInv
  <1>5. ASSUME NEW m \in MapId, InputSettles(m) PROVE IInv'
    BY <1>5, InputSettlesInv
  <1>6. ASSUME NEW m \in MapId, NEW t \in Token, MapCancellable(m, t) PROVE IInv'
    BY <1>6, MapCancellableInv
  <1>7. CASE ExecCancelCB
    BY <1>7, ExecInv
  <1>8. CASE ExecCancelCBReturn
    BY <1>8, ExecReturnInv
  <1>9. CASE CancellableThen
    BY <1>9, CancellableThenInv
  <1>10. CASE CancellableThenReturn
    BY <1>10, CancellableThenReturnInv
  <1>11. CASE UNCHANGED vars
    <2>1. \A t \in Token : MapsOf(t)' = MapsOf(t)
      BY <1>11 DEF vars, MapsOf
    <2> QED BY <1>11, <2>1 DEF vars, IInv, TypeOK, RefExact, FreeInv, TaskInv, CallInv
  <1> QED BY <1>1, <1>2, <1>3, <1>4, <1>5, <1>6, <1>7, <1>8, <1>9, <1>10, <1>11 DEF Next

\* Promise.mod's tokens: the reference count is exact, no freed slot is touched
\* again, a dispatch is never doubled and no callback is called twice or out of
\* order, however many tokens, callbacks and maps there are and however small
\* the scheduler's queue is.
THEOREM TokensSafe == Spec => []TokenInv
  <1>1. Init => IInv
    BY InitInv
  <1>2. IInv /\ [Next]_vars => IInv'
    BY InvInductive
  <1>3. IInv => TokenInv
    BY InvImpliesTokenInv
  <1> QED BY <1>1, <1>2, <1>3, PTL DEF Spec
=============================================================================
