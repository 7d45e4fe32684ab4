---------------------------- MODULE CancelToken -----------------------------
(***************************************************************************)
(* libs/m2futures/src/Promise.mod:880-1166: cancellation tokens.  A token  *)
(* is a reference counted slot of a pool; cancelling it calls its          *)
(* callbacks, one per microtask, in a chain of tasks that re-enqueue       *)
(* themselves.  MapCancellable keeps a token alive until its continuation  *)
(* has run.                                                                *)
(*                                                                         *)
(* A user procedure (a cancel callback, or the function of a cancellable   *)
(* map) may call any operation, also on the token it is called for, so     *)
(* ExecCancelCB and CancellableThen are cut in two around that call.       *)
(***************************************************************************)
EXTENDS Naturals, FiniteSets, Sequences, SequencesExt

CONSTANTS
  Tokens,         \* length of ctPool (POOL_CT)
  MapId,          \* the MapCancellable calls in progress, at most one each
  MaxCancelCBs,   \* callbacks a token holds
  Limits          \* capacities of the scheduler's queue

ASSUME TokensAssumption == Tokens \in Nat \ {0} /\ MaxCancelCBs \in Nat \ {0}
ASSUME MapIdAssumption == IsFiniteSet(MapId)
ASSUME LimitsAssumption == Limits \subseteq Nat \ {0}

Token == 1 .. Tokens

VARIABLES
  ct,        \* ctPool
  ctFree,    \* its free list, top last
  held,      \* the tokens a client has a handle on
  maps,      \* the CancMapRec of each MapCancellable, and where its continuation is
  queue,     \* the scheduler's queue
  limit,     \* its capacity
  frame,     \* the task whose user procedure is running
  fired      \* history: the callbacks of each token that have been called

vars == <<ct, ctFree, held, maps, queue, limit, frame, fired>>

FreeRec == [cancelled |-> FALSE, dispatching |-> FALSE, cbCount |-> 0, cbNext |-> 0, refCount |-> 0]
NoMap == [at |-> "none", ct |-> 0]
NoFrame == [task |-> "none"]
CancelTask(t) == [task |-> "cancel", id |-> t]
MapTask(m) == [task |-> "map", id |-> m]

Init ==
  /\ ct = [t \in Token |-> FreeRec]
  /\ ctFree = [i \in Token |-> i]
  /\ held = {}
  /\ maps = [m \in MapId |-> NoMap]
  /\ queue = << >>
  /\ limit \in Limits
  /\ frame = NoFrame
  /\ fired = [t \in Token |-> << >>]

-----------------------------------------------------------------------------
HasRoom(q) == Len(q) < limit

Retained(r) == [r EXCEPT !.refCount = @ + 1]

\* ReleaseCancel frees the slot with its last reference; r is the token's
\* record when the reference is given up.
FreedAtOne(r) == r.refCount <= 2
Freed(r) == r.refCount = 1
ReleaseCancel(t, r) ==
  IF r.refCount = 0 THEN ct' = [ct EXCEPT ![t] = r] /\ UNCHANGED <<ctFree, fired>>
  ELSE IF Freed(r) THEN
    /\ ct' = [ct EXCEPT ![t] = FreeRec]
    /\ ctFree' = Append(ctFree, t)
    /\ fired' = [fired EXCEPT ![t] = << >>]
  ELSE
    /\ ct' = [ct EXCEPT ![t] = [r EXCEPT !.refCount = @ - 1]]
    /\ UNCHANGED <<ctFree, fired>>

\* Start a dispatch for the token whose record is now r, if the queue takes it.
\* The dispatch reference is taken first and given back on failure.
Dispatch(t, r) ==
  IF HasRoom(queue)
  THEN /\ queue' = Append(queue, CancelTask(t))
       /\ ct' = [ct EXCEPT ![t] = Retained([r EXCEPT !.dispatching = TRUE])]
  ELSE ct' = [ct EXCEPT ![t] = r] /\ UNCHANGED queue

CancelTokenCreate ==
  /\ ctFree # << >>
  /\ LET t == Last(ctFree) IN
     /\ ct' = [ct EXCEPT ![t] = [FreeRec EXCEPT !.refCount = 1]]
     /\ held' = held \cup {t}
     /\ fired' = [fired EXCEPT ![t] = << >>]
  /\ ctFree' = Front(ctFree)
  /\ UNCHANGED <<maps, queue, limit, frame>>

CancelTokenDestroy(t) ==
  /\ t \in held
  /\ held' = held \ {t}
  /\ ReleaseCancel(t, ct[t])
  /\ UNCHANGED <<maps, queue, limit, frame>>

\* A second Cancel returns at once.
FirstCancel(r) == ~ r.cancelled

Cancel(t) ==
  /\ t \in held
  /\ FirstCancel(ct[t])
  /\ LET r == [ct[t] EXCEPT !.cancelled = TRUE, !.cbNext = 0] IN
     IF r.cbCount > 0 THEN Dispatch(t, r) ELSE ct' = [ct EXCEPT ![t] = r] /\ UNCHANGED queue
  /\ UNCHANGED <<ctFree, held, maps, limit, frame, fired>>

\* A callback registered after the cancellation needs a dispatch of its own
\* unless one is under way.
Starts(r) == r.cancelled /\ ~ r.dispatching

OnCancel(t) ==
  /\ t \in held
  /\ ct[t].cbCount < MaxCancelCBs
  /\ LET r == [ct[t] EXCEPT !.cbCount = @ + 1] IN
     IF Starts(r) THEN Dispatch(t, [r EXCEPT !.cbNext = r.cbCount - 1])
     ELSE ct' = [ct EXCEPT ![t] = r] /\ UNCHANGED queue
  /\ UNCHANGED <<ctFree, held, maps, limit, frame, fired>>

\* The record a dispatch leaves when it ends.
Ended(r) == [r EXCEPT !.dispatching = FALSE]

\* ExecCancelCB, up to the callback.
ExecCancelCB ==
  /\ frame = NoFrame /\ queue # << >> /\ Head(queue).task = "cancel"
  /\ LET t == Head(queue).id IN
     IF ct[t].cbNext >= ct[t].cbCount
     THEN ReleaseCancel(t, Ended(ct[t])) /\ UNCHANGED frame
     ELSE /\ ct' = [ct EXCEPT ![t].cbNext = @ + 1]
          /\ fired' = [fired EXCEPT ![t] = Append(@, ct[t].cbNext)]
          /\ frame' = CancelTask(t)
          /\ UNCHANGED ctFree
  /\ queue' = Tail(queue)
  /\ UNCHANGED <<held, maps, limit>>

\* The callback returns.
ForgetsNew(r) == FALSE
MoreToCall(r) == r.cbNext < r.cbCount

ExecCancelCBReturn ==
  /\ frame.task = "cancel"
  /\ LET t == frame.id IN
     IF MoreToCall(ct[t]) /\ HasRoom(queue)
     THEN queue' = Append(queue, CancelTask(t)) /\ UNCHANGED <<ct, ctFree, fired>>
     ELSE ReleaseCancel(t, Ended(ct[t])) /\ UNCHANGED queue
  /\ frame' = NoFrame
  /\ UNCHANGED <<held, maps, limit>>

\* MapCancellable: Map attaches the continuation to a pending future, enqueues
\* it for a settled one, or fails and the reference is given back.
MapCancellable(m, t) ==
  /\ t \in held
  /\ maps[m] = NoMap
  /\ \/ /\ maps' = [maps EXCEPT ![m] = [at |-> "attached", ct |-> t]]
        /\ UNCHANGED queue
     \/ /\ HasRoom(queue)
        /\ maps' = [maps EXCEPT ![m] = [at |-> "queued", ct |-> t]]
        /\ queue' = Append(queue, MapTask(m))
  /\ ct' = [ct EXCEPT ![t] = Retained(@)]
  /\ UNCHANGED <<ctFree, held, limit, frame, fired>>

\* The future a continuation is attached to settles (Promise!DrainConts).
InputSettles(m) ==
  /\ maps[m].at = "attached"
  /\ HasRoom(queue)
  /\ maps' = [maps EXCEPT ![m].at = "queued"]
  /\ queue' = Append(queue, MapTask(m))
  /\ UNCHANGED <<ct, ctFree, held, limit, frame, fired>>

\* CancellableThen, up to the user's function; a cancelled token skips it.
CancellableThen ==
  /\ frame = NoFrame /\ queue # << >> /\ Head(queue).task = "map"
  /\ LET m == Head(queue).id
         t == maps[m].ct IN
     IF ct[t].cancelled
     THEN /\ maps' = [maps EXCEPT ![m] = NoMap]
          /\ ReleaseCancel(t, ct[t])
          /\ UNCHANGED frame
     ELSE /\ maps' = [maps EXCEPT ![m].at = "running"]
          /\ frame' = MapTask(m)
          /\ UNCHANGED <<ct, ctFree, fired>>
  /\ queue' = Tail(queue)
  /\ UNCHANGED <<held, limit>>

CancellableThenReturn ==
  /\ frame.task = "map"
  /\ LET m == frame.id IN
     /\ maps' = [maps EXCEPT ![m] = NoMap]
     /\ ReleaseCancel(maps[m].ct, ct[maps[m].ct])
  /\ frame' = NoFrame
  /\ UNCHANGED <<held, queue, limit>>

Pump == ExecCancelCB \/ ExecCancelCBReturn \/ CancellableThen \/ CancellableThenReturn

Next ==
  \/ CancelTokenCreate
  \/ \E t \in Token : CancelTokenDestroy(t) \/ Cancel(t) \/ OnCancel(t)
  \/ \E m \in MapId : InputSettles(m) \/ \E t \in Token : MapCancellable(m, t)
  \/ ExecCancelCB \/ ExecCancelCBReturn
  \/ CancellableThen \/ CancellableThenReturn

Spec == Init /\ [][Next]_vars

\* The loop pumps the queue, and every user procedure returns.
FairSpec == Spec /\ WF_vars(Pump)
-----------------------------------------------------------------------------
MapsOf(t) == {m \in MapId : maps[m].at # "none" /\ maps[m].ct = t}
Task == [task : {"cancel"}, id : Token] \cup [task : {"map"}, id : MapId]

\* The type invariant: states, counts and queue entries stay in the ranges of
\* CancelRec's fields, and the queue within the scheduler's capacity.
TypeOK ==
  /\ ct \in [Token -> [cancelled : BOOLEAN, dispatching : BOOLEAN, cbCount : 0 .. MaxCancelCBs,
                       cbNext : 0 .. MaxCancelCBs, refCount : Nat]]
  /\ ctFree \in Seq(Token) /\ held \subseteq Token
  /\ maps \in [MapId -> [at : {"none", "attached", "queued", "running"}, ct : Token \cup {0}]]
  /\ queue \in Seq(Task) /\ limit \in Limits /\ Len(queue) <= limit
  /\ frame \in Task \cup {NoFrame}
  /\ fired \in [Token -> Seq(Nat)]

\* refCount is the handle, the maps that will still look at the token and the
\* dispatch under way (Promise.mod:22).
RefExact ==
  \A t \in Token :
    ct[t].refCount = Cardinality(MapsOf(t)) + (IF t \in held THEN 1 ELSE 0)
                     + (IF ct[t].dispatching THEN 1 ELSE 0)

\* A free slot is in the free list once and nothing will touch it any more:
\* no handle, no queued or running task, no map (Promise.mod:25, "the dispatch
\* ref keeps the token alive until all enqueued ExecCancelCB steps complete").
NoDangling ==
  /\ IsInjective(ctFree)
  /\ \A t \in Range(ctFree) :
       /\ t \notin held /\ MapsOf(t) = {}
       /\ CancelTask(t) \notin Range(queue) /\ frame # CancelTask(t)

\* At most one dispatch of a token is queued or running, exactly while its
\* flag says so: "The dispatching flag prevents duplicate scheduling".
OneDispatch ==
  \A t \in Token :
    Cardinality({i \in DOMAIN queue : queue[i] = CancelTask(t)}) + (IF frame = CancelTask(t) THEN 1 ELSE 0)
      = IF ct[t].dispatching THEN 1 ELSE 0

\* A callback is called at most once, in the order of registration, and only
\* for a cancelled token.
FiredInOrder ==
  \A t \in Token :
    /\ \A i, j \in DOMAIN fired[t] : i < j => fired[t][i] < fired[t][j]
    /\ fired[t] # << >> => ct[t].cancelled

\* With room in the queue every callback of a cancelled token is called, those
\* registered during the dispatch or after it too, and also when the last
\* handle is gone.
CallbacksFire ==
  \A t \in Token : \A i \in 0 .. MaxCancelCBs - 1 :
    (limit >= Tokens + Cardinality(MapId) /\ ct[t].cancelled /\ i < ct[t].cbCount)
      ~> (i \in Range(fired[t]))

\* A token lives exactly as long as something may still touch it, its one
\* dispatch included, and calls its callbacks in order and at most once, also
\* when a callback registers another, cancels again or destroys the token.
TokenInv == TypeOK /\ RefExact /\ NoDangling /\ OneDispatch /\ FiredInOrder
=============================================================================
