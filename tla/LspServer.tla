----------------------------- MODULE LspServer -----------------------------
(***************************************************************************)
(* The language server of lsp/server.rs: one thread that takes events from *)
(* a channel fed by a stdin reader and a timer, an open-document store, an *)
(* analysis cache, debounced diagnostics and index updates, and the wait   *)
(* for the client inside progress_begin, during which other messages are   *)
(* buffered.                                                               *)
(*                                                                         *)
(* srv is the server's own state (struct LspServer) with what it has sent; *)
(* a handler is an operator from srv to srv.  client is what the editor    *)
(* shows, disk and lock are the file system.                               *)
(***************************************************************************)
EXTENDS LspAnalysis

CONSTANTS Texts,          \* [Files -> set of texts a file may hold]
          Saved,          \* what the files hold at first
          Key,            \* the identity the requests ask about
          Edited,         \* the documents the editor works on
          Restored,       \* the documents the editor reopens at start, a sequence
          Requests,       \* the request methods the client uses
          Debounces,      \* pairs <<debounce_ms, index_debounce_ms>>, in ticks
          MaxEdits,       \* bound: document notifications the client sends
          MaxRequests,    \* bound: requests
          MaxOther,       \* bound: cancel, manifest, lifecycle, files written
          MaxTotal        \* bound: all of these together

Methods == {"local", "rename", "references", "workspaceSymbol", "incomingCalls",
            "outgoingCalls", "reindex"}

\* The id of a text stands for its contents.
ASSUME TextsAssumption ==
    /\ DOMAIN Saved = Files
    /\ \A f \in Files : /\ Saved[f] \in Texts[f]
                        /\ None \notin Texts[f]
                        /\ \A t, u \in Texts[f] : t.id = u.id => t = u

ASSUME ClientAssumption ==
    /\ Edited \subseteq Files /\ Restored \in Seq(Files) /\ Requests \subseteq Methods
    /\ Debounces \subseteq Nat \X Nat /\ MaxRequests \in Nat

VARIABLES srv, chan, client, disk, lock, sent, budget,
          overtaken       \* history: the documents with a message handled out of order

vars == <<srv, chan, client, disk, lock, sent, budget, overtaken>>

Ids == 1..MaxRequests
NotPending == -1
NoContext == -1
Diagnostics(res) == [text |-> res.text.id]
NoDiagnostics == [text |-> ""]

----------------------------------------------------------------------------
(* Project context and analysis cache.                                     *)

\* A cached context is reloaded when the lockfile's hash differs.
GetProjectContext(s) == [s EXCEPT !.ctx = lock]

\* The cached analysis counts when the version and the lock hash match.
CacheHit(s, f) ==
    /\ s.cache[f] # None
    /\ s.cache[f].version = s.docs[f].version
    /\ s.cache[f].lock = GetProjectContext(s).ctx

Remember(s, f, a) ==
    [s EXCEPT !.defCache = a.cache,
              !.cache[f] = [version |-> s.docs[f].version, lock |-> s.ctx, res |-> a.res]]

GetAnalysis(s, f) ==
    IF s.docs[f] = None THEN s
    ELSE IF CacheHit(s, f) THEN GetProjectContext(s)
    ELSE Remember(GetProjectContext(s), f, Analyze(s.docs[f].text, s.defCache, disk))

Publish(s, f) ==
    IF s.docs[f] = None THEN s
    ELSE [s EXCEPT !.published[f] = Diagnostics(s.cache[f].res)]

\* Mutant: the cached analysis is published.
AnalyzeAndPublishCached(s, f) == Publish(GetAnalysis(s, f), f)

AnalyzeAndPublish(s, f) == Publish(GetAnalysis([s EXCEPT !.cache[f] = None], f), f)

AnalyzeAndPublishAll(s, fs) ==
    LET q == SetToSeq(fs)
        done[n \in 0..Len(q)] == IF n = 0 THEN s ELSE AnalyzeAndPublish(done[n - 1], q[n])
    IN  done[Len(q)]

\* Open documents enter the index with the cached analysis, if there is one.
UpdateIndexForOpenDocs(s, fs) ==
    LET cached == {f \in fs : s.docs[f] # None /\ s.cache[f] # None}
    IN  [s EXCEPT !.ix = IndexFromAnalysis(@,
            [f \in cached |-> [text |-> s.docs[f].text, res |-> s.cache[f].res]])]

Rebuild(s) == [s EXCEPT !.ix = RebuildIfDirty(s.ix)]

OpenDocs(s) == {f \in Files : s.docs[f] # None}

----------------------------------------------------------------------------
(* Indexing.                                                               *)

Respond(s, id, answer) ==
    [s EXCEPT !.answers[id] = Append(@, answer)]

WithIndex(s, r) == [s EXCEPT !.ix = r.ix, !.defCache = r.cache]

IndexDisk(s) == WithIndex(s, IndexDirectories(s.ix, s.defCache, disk))

\* Every open document with a cached analysis replaces the file on disk.
OverlayOpenDocs(s) == UpdateIndexForOpenDocs(s, OpenDocs(s))

InitialIndex(s) == Rebuild(s)

\* Mutant: the open documents stay as they are on disk.
ReindexDiskOnly(s) == [Rebuild(s) EXCEPT !.ready = ~@]

\* ready alternates with every m2/indexStatus that ends a run.
ReindexWorkspace(s) == [Rebuild(OverlayOpenDocs(s)) EXCEPT !.ready = ~@]

\* progress_begin: the create request is on its way to the client; what
\* follows the wait is the server's continuation.
ProgressBegin(s, then) == [s EXCEPT !.pc = "wait", !.then = then]

\* After the wait: the files on disk, then the open documents, then the
\* answer to a reindex request.
Resume(s, then) ==
    CASE then.op = "initial"  -> InitialIndex(s)
      [] then.op = "manifest" -> ReindexWorkspace(s)
      [] then.op = "reindex"  -> Respond(ReindexWorkspace(s), then.id, [k |-> "count"])

AfterProgress(s) == Resume(IndexDisk([s EXCEPT !.pc = "run", !.then = None]), s.then)

\* A client without progress support is not waited for.
Settle(s) == IF s.pc = "wait" /\ ~s.progress THEN AfterProgress(s) ELSE s

----------------------------------------------------------------------------
(* Document synchronisation.                                               *)

Open(d, text) == [text |-> text, version |-> 1]
Change(d, text) == [text |-> text, version |-> IF d = None THEN 1 ELSE d.version + 1]

PublishAndIndex(s, f) == UpdateIndexForOpenDocs(AnalyzeAndPublish(s, f), {f})

HandleDidOpen(s, f, text) == PublishAndIndex([s EXCEPT !.docs[f] = Open(@, text)], f)

Changed(s, f, text) == [s EXCEPT !.docs[f] = Change(@, text), !.cache[f] = None]

HandleDidChange(s, f, text) ==
    IF s.debounce = 0 THEN Rebuild(PublishAndIndex(Changed(s, f, text), f))
    ELSE [Changed(s, f, text) EXCEPT !.pendD[f] = 0, !.pendI[f] = 0]

\* Mutant: the editor keeps the last diagnostics.
CloseSilently(s, f) ==
    [s EXCEPT !.docs[f] = None, !.pendD[f] = NotPending, !.pendI[f] = NotPending]

HandleDidClose(s, f) ==
    [s EXCEPT !.docs[f] = None, !.pendD[f] = NotPending, !.pendI[f] = NotPending,
              !.published[f] = NoDiagnostics]

\* The capability asks for the text on save.
Saving(s, f, text) ==
    GetProjectContext([s EXCEPT !.docs[f] = Change(@, text),
                                !.pendD[f] = NotPending, !.pendI[f] = NotPending])

IndexSaved(s, f) == WithIndex(s, IndexFile(s.ix, f, s.defCache, disk))

HandleDidSave(s, f, text) == AnalyzeAndPublish(IndexSaved(Saving(s, f, text), f), f)

\* Saving m2.toml or m2.lock: the project and the analyses under it are
\* evicted, the open documents published again, the workspace reindexed.
HandleSaveManifest(s) ==
    ProgressBegin(
        AnalyzeAndPublishAll([s EXCEPT !.ctx = NoContext, !.cache = [f \in Files |-> None]],
                             OpenDocs(s)),
        [op |-> "manifest"])

----------------------------------------------------------------------------
(* Requests.                                                               *)

Null == [k |-> "null"]

\* Hover, completion, document symbols, ...: answered from the analysis of
\* the open document.
AnswerLocal(s, id, f) == Respond(s, id, [k |-> "local", text |-> s.cache[f].res.text.id])

HandleLocal(s, id, f) ==
    IF s.docs[f] = None THEN Respond(s, id, Null) ELSE AnswerLocal(GetAnalysis(s, f), id, f)

Mentions(s, f) == Key \in s.cache[f].res.text.refs

\* Same-file positions from the analysis, the others from the index.
AllRefs(s, f) ==
    {[uri |-> f, text |-> s.cache[f].res.text.id]}
      \cup {r \in FindRefsByIdentity(s.ix, Key) : r.uri # f}

RespondEdits(s, id, f) == Respond(s, id, [k |-> "edits", edits |-> AllRefs(s, f)])

AnswerRename(s, id, f) ==
    IF Mentions(s, f) THEN RespondEdits(Rebuild(s), id, f) ELSE Respond(s, id, Null)

HandleRename(s, id, f) ==
    IF s.docs[f] = None THEN Respond(s, id, Null) ELSE AnswerRename(GetAnalysis(s, f), id, f)

NoEdits == [k |-> "edits", edits |-> {}]

AnswerReferences(s, id, f) ==
    IF Mentions(s, f) THEN RespondEdits(Rebuild(s), id, f) ELSE Respond(s, id, NoEdits)

HandleReferences(s, id, f) ==
    IF s.docs[f] = None THEN Respond(s, id, NoEdits)
    ELSE AnswerReferences(GetAnalysis(s, f), id, f)

AnswerSymbols(s, id) == Respond(s, id, [k |-> "symbols", found |-> Search(s.ix)])

HandleWorkspaceSymbol(s, id) == AnswerSymbols(Rebuild(s), id)

\* The item carries the key; the document's own analysis is the fallback.
OwnAnalysis(s, f) == IF s.docs[f] = None THEN None ELSE s.cache[f].res

AnswerIncoming(s, id, f) ==
    Respond(s, id, [k |-> "calls", calls |-> IncomingCallsWs(s.ix, Key, OwnAnalysis(s, f), f)])

HandleIncomingCalls(s, id, f) == AnswerIncoming(GetAnalysis(Rebuild(s), f), id, f)

AnswerOutgoing(s, id, f) ==
    Respond(s, id, [k |-> "calls", calls |-> OutgoingCallsWs(s.ix, Key, OwnAnalysis(s, f), f)])

HandleOutgoingCalls(s, id, f) == AnswerOutgoing(GetAnalysis(Rebuild(s), f), id, f)

HandleReindex(s, id) ==
    ProgressBegin([s EXCEPT !.ix = ForceClear(@)], [op |-> "reindex", id |-> id])

HandleRequest(s, m) ==
    CASE m.method = "local"           -> HandleLocal(s, m.id, m.f)
      [] m.method = "rename"          -> HandleRename(s, m.id, m.f)
      [] m.method = "references"      -> HandleReferences(s, m.id, m.f)
      [] m.method = "workspaceSymbol" -> HandleWorkspaceSymbol(s, m.id)
      [] m.method = "incomingCalls"   -> HandleIncomingCalls(s, m.id, m.f)
      [] m.method = "outgoingCalls"   -> HandleOutgoingCalls(s, m.id, m.f)
      [] m.method = "reindex"         -> HandleReindex(s, m.id)

----------------------------------------------------------------------------
(* Dispatch.                                                               *)

IsCanceled(s, id) == id \in s.canceled

RetireCancel(s, id) == [s EXCEPT !.canceled = @ \ {id}]

HandleInitialize(s, m) ==
    [s EXCEPT !.progress = m.progress, !.debounce = m.debounce,
              !.indexDebounce = m.indexDebounce, !.ctx = lock]

DispatchRequest(s, m) ==
    IF IsCanceled(s, m.id) THEN RetireCancel(Respond(s, m.id, [k |-> "cancelled"]), m.id)
    ELSE HandleRequest(s, m)

\* After shutdown only exit is accepted; other requests get an error.
Dispatched(s, m) ==
    CASE m.m = "exit" -> [s EXCEPT !.pc = "exited"]
      [] m.m # "exit" /\ s.shutdown ->
            IF m.m = "request" THEN Respond(s, m.id, [k |-> "invalid"]) ELSE s
      [] m.m = "initialize"   /\ ~s.shutdown -> HandleInitialize(s, m)
      [] m.m = "initialized"  /\ ~s.shutdown -> ProgressBegin(s, [op |-> "initial"])
      [] m.m = "shutdown"     /\ ~s.shutdown -> [s EXCEPT !.shutdown = TRUE]
      [] m.m = "cancel"       /\ ~s.shutdown -> [s EXCEPT !.canceled = @ \cup {m.id}]
      [] m.m = "didOpen"      /\ ~s.shutdown -> HandleDidOpen(s, m.f, m.text)
      [] m.m = "didChange"    /\ ~s.shutdown -> HandleDidChange(s, m.f, m.text)
      [] m.m = "didClose"     /\ ~s.shutdown -> HandleDidClose(s, m.f)
      [] m.m = "didSave"      /\ ~s.shutdown -> HandleDidSave(s, m.f, m.text)
      [] m.m = "saveManifest" /\ ~s.shutdown -> HandleSaveManifest(s)
      [] m.m = "request"      /\ ~s.shutdown -> DispatchRequest(s, m)
      [] m.m = "reply"        /\ ~s.shutdown -> s

DispatchMessage(s, m) == Settle(Dispatched(s, m))

----------------------------------------------------------------------------
(* The main loop.                                                          *)

Running == srv.pc = "run"

\* The loop goes through the messages that were buffered when it came round,
\* then receives one event; messages buffered meanwhile wait for the next
\* round.
Batch == IF srv.at = "top" THEN srv.buffered ELSE srv.batch

DispatchBuffered ==
    /\ Running /\ Batch # <<>>
    /\ LET s == [srv EXCEPT !.at = "recv", !.batch = Tail(Batch),
                            !.buffered = IF srv.at = "top" THEN <<>> ELSE @]
       IN  srv' = DispatchMessage(s, Head(Batch))
    /\ UNCHANGED <<chan, client, disk, lock, sent, budget, overtaken>>

\* Mutant: the channel is read before the buffered messages are done.
ReceiveEarly == Running /\ chan # <<>>

CanReceive == Running /\ Batch = <<>> /\ chan # <<>>

DocMessage(m, f) == m.m \in {"didOpen", "didChange", "didClose", "didSave"} /\ m.f = f

About(m, f) == DocMessage(m, f) \/ (m.m = "request" /\ m.f = f)

\* m is handled before a buffered message that came earlier, both are about f
\* and one of them changes it.
Overtakes(m, f) ==
    \E i \in DOMAIN srv.buffered :
        /\ About(m, f) /\ About(srv.buffered[i], f)
        /\ DocMessage(m, f) \/ DocMessage(srv.buffered[i], f)

ReceiveMessage ==
    /\ CanReceive /\ Head(chan).m \notin {"tick", "closed"}
    /\ srv' = DispatchMessage([srv EXCEPT !.at = "top"], Head(chan))
    /\ chan' = Tail(chan)
    /\ overtaken' = overtaken \cup {f \in Files : Overtakes(Head(chan), f)}
    /\ UNCHANGED <<client, disk, lock, sent, budget>>

ReceiveClosed ==
    /\ CanReceive /\ Head(chan).m = "closed"
    /\ srv' = [srv EXCEPT !.pc = "exited"]
    /\ chan' = Tail(chan)
    /\ UNCHANGED <<client, disk, lock, sent, budget, overtaken>>

Removed(p, fs) == [f \in Files |-> IF f \in fs THEN NotPending ELSE p[f]]

DiagnosticsReady(s) == {f \in Files : s.debounce # 0 /\ s.pendD[f] >= s.debounce}

FlushPendingDiagnostics(s) ==
    AnalyzeAndPublishAll([s EXCEPT !.pendD = Removed(@, DiagnosticsReady(s))],
                         DiagnosticsReady(s))

\* late: the documents whose threshold passed while diagnostics were computed.
IndexReady(s, late) ==
    {f \in Files : s.indexDebounce # 0 /\ s.pendI[f] # NotPending
                     /\ s.pendI[f] + late >= s.indexDebounce}

FlushPendingIndexUpdates(s, late) ==
    LET ready == IndexReady(s, late)
    IN  IF ready = {} THEN s
        ELSE Rebuild(UpdateIndexForOpenDocs([s EXCEPT !.pendI = Removed(@, ready)], ready))

\* The two flushes read the clock one after the other.
ReceiveTick ==
    /\ CanReceive /\ Head(chan).m = "tick"
    /\ \E late \in {0, 1} :
          srv' = FlushPendingIndexUpdates(
                     FlushPendingDiagnostics([srv EXCEPT !.at = "top"]), late)
    /\ chan' = Tail(chan)
    /\ UNCHANGED <<client, disk, lock, sent, budget, overtaken>>

\* Mutant: other messages are dropped during the wait.
WaitDropping ==
    /\ srv.pc = "wait" /\ chan # <<>>
    /\ srv' = IF Head(chan).m \in {"reply", "closed"} THEN AfterProgress(srv) ELSE srv
    /\ chan' = Tail(chan)
    /\ UNCHANGED <<client, disk, lock, sent, budget, overtaken>>

\* Inside progress_begin: the answer ends the wait, any other message is
\* buffered, ticks are skipped and the end of stdin is consumed.
WaitReceive ==
    /\ srv.pc = "wait" /\ chan # <<>>
    /\ srv' = CASE Head(chan).m \in {"reply", "closed"} -> AfterProgress(srv)
               [] Head(chan).m = "tick" -> srv
               [] OTHER -> [srv EXCEPT !.buffered = Append(@, Head(chan))]
    /\ chan' = Tail(chan)
    /\ UNCHANGED <<client, disk, lock, sent, budget, overtaken>>

\* 500 ms without the answer.
WaitTimeout ==
    /\ srv.pc = "wait"
    /\ srv' = AfterProgress(srv)
    /\ UNCHANGED <<chan, client, disk, lock, sent, budget, overtaken>>

----------------------------------------------------------------------------
(* The timer thread, the file system and the client.                       *)

\* The timer sends a tick every 50 ms whatever the loop does; one tick in
\* the channel stands for any number of them, and a tick that does nothing,
\* with nothing pending and no buffered messages for the loop to come round
\* to, is left out.  Pending times grow older.
Older(p, limit) == [f \in Files |-> IF p[f] = NotPending \/ p[f] >= limit THEN p[f] ELSE p[f] + 1]

Timer ==
    /\ srv.pc # "exited"
    /\ \/ \E f \in Files : srv.pendD[f] # NotPending \/ srv.pendI[f] # NotPending
       \/ srv.at = "recv" /\ srv.buffered # <<>>
    /\ \A i \in DOMAIN chan : chan[i].m # "tick"
    /\ chan' = Append(chan, [m |-> "tick"])
    /\ srv' = [srv EXCEPT !.pendD = Older(@, srv.debounce), !.pendI = Older(@, srv.indexDebounce)]
    /\ UNCHANGED <<client, disk, lock, sent, budget, overtaken>>

Send(m) == chan' = Append(chan, m)

StdinOpen == budget.open /\ srv.pc # "exited"

Edit(f, text, msg) ==
    /\ StdinOpen /\ budget.edits > 0 /\ budget.total > 0
    /\ Send(msg)
    /\ client' = [client EXCEPT ![f] = text]
    /\ budget' = [budget EXCEPT !.edits = @ - 1, !.total = @ - 1]
    /\ UNCHANGED <<srv, lock, sent, overtaken>>

ClientOpen(f) ==
    /\ client[f] = None
    /\ Edit(f, disk[f], [m |-> "didOpen", f |-> f, text |-> disk[f]])
    /\ UNCHANGED disk

ClientChange(f) ==
    /\ client[f] # None
    /\ \E t \in Texts[f] \ {client[f]} : Edit(f, t, [m |-> "didChange", f |-> f, text |-> t])
    /\ UNCHANGED disk

ClientClose(f) ==
    /\ client[f] # None
    /\ Edit(f, None, [m |-> "didClose", f |-> f])
    /\ UNCHANGED disk

\* The editor writes the file and then tells the server.
ClientSave(f) ==
    /\ client[f] # None
    /\ Edit(f, client[f], [m |-> "didSave", f |-> f, text |-> client[f]])
    /\ disk' = [disk EXCEPT ![f] = client[f]]

ClientRequest(method, f) ==
    LET id == MaxRequests - budget.requests + 1
    IN  /\ method \in {"workspaceSymbol", "reindex"} => f = CHOOSE g \in Edited : TRUE
        /\ StdinOpen /\ budget.requests > 0 /\ budget.total > 0
        /\ Send([m |-> "request", id |-> id, method |-> method, f |-> f])
        /\ sent' = [sent EXCEPT ![id] =
                       [method |-> method, f |-> f,
                        text |-> IF client[f] = None THEN "" ELSE client[f].id]]
        /\ budget' = [budget EXCEPT !.requests = @ - 1, !.total = @ - 1]
        /\ UNCHANGED <<srv, client, disk, lock, overtaken>>

Other(m) ==
    /\ StdinOpen /\ budget.other > 0 /\ budget.total > 0
    /\ Send(m)
    /\ budget' = [budget EXCEPT !.other = @ - 1, !.total = @ - 1, !.open = (m.m # "closed")]
    /\ UNCHANGED <<srv, client, disk, lock, sent, overtaken>>

ClientCancel(id) == sent[id] # None /\ Other([m |-> "cancel", id |-> id])

ClientSaveManifest == Other([m |-> "saveManifest"])

ClientShutdown == \E m \in {"shutdown", "exit", "closed"} : Other([m |-> m])

\* The answer to window/workDoneProgress/create.
ClientReply ==
    /\ srv.pc = "wait" /\ budget.open
    /\ \A i \in DOMAIN chan : chan[i].m # "reply"
    /\ Send([m |-> "reply"])
    /\ UNCHANGED <<srv, client, disk, lock, sent, budget, overtaken>>

\* A build writes m2.lock; another program writes a source file.
WriteLock ==
    /\ budget.other > 0 /\ budget.total > 0
    /\ lock' = 1 - lock
    /\ budget' = [budget EXCEPT !.other = @ - 1, !.total = @ - 1]
    /\ UNCHANGED <<srv, chan, client, disk, sent, overtaken>>

WriteFile(f) ==
    /\ budget.other > 0 /\ budget.total > 0
    /\ \E t \in Texts[f] \ {disk[f]} : disk' = [disk EXCEPT ![f] = t]
    /\ budget' = [budget EXCEPT !.other = @ - 1, !.total = @ - 1]
    /\ UNCHANGED <<srv, chan, client, lock, sent, overtaken>>

----------------------------------------------------------------------------
NewServer ==
    [docs |-> [f \in Files |-> None], cache |-> [f \in Files |-> None],
     defCache |-> [f \in Files |-> None], ctx |-> NoContext, ix |-> NewIndex,
     canceled |-> {}, pendD |-> [f \in Files |-> NotPending],
     pendI |-> [f \in Files |-> NotPending], debounce |-> 0, indexDebounce |-> 0,
     progress |-> FALSE, shutdown |-> FALSE, pc |-> "run", then |-> None, at |-> "top",
     batch |-> <<>>, buffered |-> <<>>, ready |-> FALSE,
     published |-> [f \in Files |-> NoDiagnostics], answers |-> [id \in Ids |-> <<>>]]

\* The client has sent initialize and initialized, and restored its session.
Init ==
    /\ srv = NewServer
    /\ disk = Saved
    /\ \E p \in BOOLEAN, d \in Debounces :
          chan = <<[m |-> "initialize", progress |-> p, debounce |-> d[1], indexDebounce |-> d[2]],
                   [m |-> "initialized"]>>
                 \o [i \in DOMAIN Restored |->
                        [m |-> "didOpen", f |-> Restored[i], text |-> disk[Restored[i]]]]
    /\ client = [f \in Files |-> IF f \in Range(Restored) THEN disk[f] ELSE None]
    /\ lock = 0
    /\ sent = [id \in Ids |-> None] /\ overtaken = {}
    /\ budget = [edits |-> MaxEdits, requests |-> MaxRequests, other |-> MaxOther,
                 total |-> MaxTotal, open |-> TRUE]

ServerStep ==
    \/ DispatchBuffered \/ ReceiveMessage \/ ReceiveClosed \/ ReceiveTick
    \/ WaitReceive \/ WaitTimeout

Client ==
    \/ \E f \in Edited : ClientOpen(f) \/ ClientChange(f) \/ ClientClose(f) \/ ClientSave(f)
    \/ \E f \in Edited, r \in Requests : ClientRequest(r, f)
    \/ \E id \in Ids : ClientCancel(id)
    \/ ClientSaveManifest \/ ClientShutdown \/ ClientReply \/ WriteLock
    \/ \E f \in Files : WriteFile(f)

Next == ServerStep \/ Timer \/ Client

\* Weak fairness of the loop and of the timeout, with their ENABLED conditions
\* written out, and of the timer thread.
LoopFairness == []<>~(Running /\ Batch \o chan # <<>>) \/ []<><<ServerStep>>_vars

WaitFairness == []<>(srv.pc # "wait")

Fairness == LoopFairness /\ WaitFairness /\ WF_vars(Timer)

Spec == Init /\ [][Next]_vars /\ Fairness

----------------------------------------------------------------------------
(* Properties.                                                             *)

\* No request is answered twice, and open documents are always fresh as long as
\* their messages are handled in order: the answer to a request about an open
\* document is computed from the text the editor showed when it sent the
\* request, one about a closed document is empty.  The analysis cache, whose
\* key restarts at version 1 on every open, never serves an older text.
\* docs/lsp-invariants.md:10-24 promises this of every request, but when an
\* indexing run is itself among the buffered messages the loop goes to the
\* channel with messages still buffered, and what it receives overtakes them
\* (server.rs:488-505); extension.ts:678 and :855 start such runs without
\* looking for another one.  Workspace symbols and call hierarchies come from
\* the index, which follows the documents only at the next reindex.
AnswersFresh ==
    \A id \in Ids : \A i \in DOMAIN srv.answers[id] :
        LET a == srv.answers[id][i]
        IN  /\ i = 1
            /\ sent[id].f \notin overtaken =>
                  /\ a.k = "local" => a.text = sent[id].text
                  /\ a.k = "null" /\ sent[id].method = "local" => sent[id].text = ""
                  /\ a.k = "edits" => \A e \in a.edits : e.uri = sent[id].f => e.text = sent[id].text

\* Every request is answered, also one that arrives while the server waits for
\* the client, unless the server ends first.
EveryRequestAnswered ==
    \A id \in Ids : (sent[id] # None) ~> (srv.pc = "exited" \/ srv.answers[id] # <<>>)

\* The diagnostics the editor ends up with are those of the text it shows,
\* and a closed document ends up with none: debounced publications are never
\* lost and never arrive late.  A document whose notifications were handled out
\* of order (AnswersFresh) ends up with those of another text.
DiagnosticsConverge ==
    <>[](\/ srv.pc = "exited" \/ srv.shutdown
         \/ \A f \in Files \ overtaken : srv.published[f].text =
                IF client[f] = None THEN "" ELSE client[f].id)

\* Nothing is published for a document after its didClose was handled.
ClosedIsQuiet == \A f \in Files : srv.docs[f] = None => srv.published[f] = NoDiagnostics

\* The end of an indexing run over the open documents.
EndsReindex == srv'.ready # srv.ready

IndexShows(f, text) ==
    IF Parses(text) THEN srv'.ix.view[f] # None /\ srv'.ix.view[f].text = text
    ELSE srv'.ix.view[f] = None

\* When an indexing run over open documents ends, the index shows every closed
\* document as it is on disk and every open one as it is in memory, but for one
\* that was changed and not analysed again since, which it shows as it is on
\* disk: didChange drops the analysis (server.rs:855) and the run goes over the
\* documents that have one (:290), where docs/lsp-invariants.md:46-50 promises
\* the text in memory.  Such a document has its diagnostics pending.
ReindexReflects ==
    [][EndsReindex =>
         \A f \in Files :
            CASE srv'.docs[f] = None -> IndexShows(f, disk[f])
              [] srv'.docs[f] # None /\ srv'.cache[f] # None -> IndexShows(f, srv'.docs[f].text)
              [] srv'.docs[f] # None /\ srv'.cache[f] = None ->
                    srv'.pendD[f] # NotPending /\ IndexShows(f, disk[f])]_vars

\* The text of f that queries of the index see.
Showing(f) ==
    LET r == RebuildIfDirty(srv.ix).view[f]
    IN  IF r = None THEN "" ELSE r.text.id

\* The index ends up showing every open document as the editor shows it.
IndexConverges ==
    <>[](\/ srv.pc = "exited" \/ srv.shutdown
         \/ \A f \in Files : (client[f] # None /\ Parses(client[f])) => Showing(f) = client[f].id)
=============================================================================
