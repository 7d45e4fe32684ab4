-------------------------- MODULE LspServerProofs --------------------------
(***************************************************************************)
(* The theorems about the language server: closed documents stay quiet, a  *)
(* reindex shows the documents as they are, and answers are of the text    *)
(* the editor showed when it asked.                                        *)
(*                                                                         *)
(* The invariant has two layers.  ServerInv speaks of the server record    *)
(* alone (documents, analysis cache, pending publications, index); every   *)
(* handler keeps it.  StreamInv relates the record to the messages on their*)
(* way and to the editor: the documents are what the editor shows but for  *)
(* the messages still to be handled, in the order they were sent.          *)
(***************************************************************************)
EXTENDS LspServer, DataLemmas

----------------------------------------------------------------------------
(* The server record.                                                      *)

Fields == {"docs", "cache", "defCache", "ctx", "ix", "canceled", "pendD", "pendI", "debounce",
           "indexDebounce", "progress", "shutdown", "pc", "then", "at", "batch", "buffered",
           "ready", "published", "answers"}

Shape(s) ==
    /\ DOMAIN s = Fields
    /\ DOMAIN s.docs = Files /\ DOMAIN s.cache = Files /\ DOMAIN s.published = Files
    /\ s.pendD \in [Files -> Nat \cup {NotPending}]
    /\ s.debounce \in Nat /\ s.ready \in BOOLEAN /\ s.shutdown \in BOOLEAN
    /\ DOMAIN s.answers = Ids

\* An open document holds a text of its file.
DocsInv(s) == \A f \in Files : s.docs[f] # None => s.docs[f].text \in Texts[f]

\* A cached analysis of an open document outside F is of the document's text.
CacheInv(s, F) ==
    \A f \in Files \ F :
        s.docs[f] # None /\ s.cache[f] # None =>
            s.cache[f].res # None /\ s.cache[f].res.text = s.docs[f].text

\* An open document outside F without an analysis waits for its publication.
PendingInv(s, F) ==
    \A f \in Files \ F : s.docs[f] # None /\ s.cache[f] = None => s.pendD[f] # NotPending

QuietInv(s) == \A f \in Files : s.docs[f] = None => s.published[f] = NoDiagnostics

\* An entry of the index carries the stamp of the text it was made from.
EntryOk(e, f) ==
    /\ e.res # None /\ e.res.text \in Texts[f]
    /\ e.stamp = DiskStamp(e.res.text) \/ e.stamp = MemStamp(e.res.text)

Visible(e) == IF e # None /\ Parses(e.res.text) THEN e.res ELSE None

IndexInv(ix) ==
    /\ DOMAIN ix = {"files", "view", "dirty"} /\ ix.dirty \in BOOLEAN
    /\ DOMAIN ix.files = Files
    /\ \A f \in Files : ix.files[f] # None => EntryOk(ix.files[f], f)
    /\ ~ix.dirty => \A f \in Files : ix.view[f] = Visible(ix.files[f])

\* In the middle of a handler the documents in F are still to be analysed.
ServerBut(s, F) ==
    /\ Shape(s) /\ DocsInv(s) /\ CacheInv(s, F) /\ PendingInv(s, F) /\ QuietInv(s)
    /\ IndexInv(s.ix)

ServerInv(s) == ServerBut(s, {})

----------------------------------------------------------------------------
(* The messages.                                                           *)

Message ==
    [m : {"initialize"}, progress : BOOLEAN, debounce : Nat, indexDebounce : Nat]
      \cup [m : {"initialized", "saveManifest", "shutdown", "exit", "reply", "tick", "closed"}]
      \cup [m : {"cancel"}, id : Ids]
      \cup (UNION {[m : {"didOpen", "didChange", "didSave"}, f : {f}, text : Texts[f]] : f \in Files})
      \cup [m : {"didClose"}, f : Files]
      \cup [m : {"request"}, id : Ids, method : Methods, f : Files]

\* Neither ticks nor the end of stdin are dispatched.
Dispatchable == {m \in Message : m.m \notin {"tick", "closed"}}

WaitOk(s) ==
    /\ s.pc \in {"run", "wait", "exited"}
    /\ s.pc = "wait" => s.then.op \in {"initial", "manifest", "reindex"}

\* The client's side.
ClientInv ==
    /\ DOMAIN client = Files /\ DOMAIN disk = Files
    /\ \A f \in Files : disk[f] \in Texts[f] /\ client[f] \in Texts[f] \cup {None}
    /\ DOMAIN sent = Ids
    /\ DOMAIN budget = {"edits", "requests", "other", "total", "open"}
    /\ budget.requests \in 0..MaxRequests

BaseInv ==
    /\ ServerInv(srv) /\ WaitOk(srv) /\ ClientInv
    /\ chan \in Seq(Message)
    /\ srv.batch \in Seq(Dispatchable) /\ srv.buffered \in Seq(Dispatchable)

----------------------------------------------------------------------------
(* The order of messages.                                                  *)

\* The text of a document once m is handled, None when it is closed.
Carried(m) == IF m.m = "didClose" THEN None ELSE m.text

Shown(d) == IF d = None THEN None ELSE d.text

IdOf(t) == IF t = None THEN "" ELSE t.id

\* t is the text of f after the first n messages of q, when it is d before.
TextAfter(q, n, f, d, t) ==
    \/ \E j \in 1..n : /\ DocMessage(q[j], f) /\ Carried(q[j]) = t
                       /\ \A k \in 1..n : k > j => ~DocMessage(q[k], f)
    \/ Shown(d) = t /\ \A k \in 1..n : ~DocMessage(q[k], f)

\* The messages in the order they were sent.
Waiting == srv.batch \o srv.buffered

Queue == Waiting \o chan

Used == MaxRequests - budget.requests

\* The documents that are not in o end up as the editor shows them.
Follows(q, docs, shown, o) ==
    \A f \in Files : f \notin o => TextAfter(q, Len(q), f, docs[f], shown[f])

\* Every request about one of them finds it as the editor showed it when it
\* asked.
FindsText(q, n, docs, m, asked) ==
    \E t \in Texts[m.f] \cup {None} : TextAfter(q, n, m.f, docs[m.f], t) /\ asked[m.id].text = IdOf(t)

Finds(q, docs, asked, o) ==
    \A i \in 1..Len(q) :
        q[i].m = "request" /\ q[i].f \notin o => FindsText(q, i - 1, docs, q[i], asked)

\* A request in the queue is the one that was asked, and not answered yet.
Unanswered(m, answers, asked, used) ==
    /\ asked[m.id] # None /\ asked[m.id].f = m.f /\ asked[m.id].method = m.method
    /\ answers[m.id] = <<>> /\ m.id <= used

Asked(q, answers, asked, used) ==
    /\ \A i \in 1..Len(q) : q[i].m = "request" => Unanswered(q[i], answers, asked, used)
    /\ \A i, j \in 1..Len(q) :
          (q[i].m = "request" /\ q[j].m = "request" /\ q[i].id = q[j].id) => i = j

\* An id that was not used yet is neither asked nor answered.
Unused(answers, asked, used) ==
    \A id \in Ids : id > used => asked[id] = None /\ answers[id] = <<>>

\* A reindex request that waits for the client is answered after the wait.
Waits(s, q, used) ==
    s.pc = "wait" /\ s.then.op = "reindex" =>
        /\ s.then.id \in Ids /\ s.then.id <= used /\ s.answers[s.then.id] = <<>>
        /\ \A i \in 1..Len(q) : q[i].m = "request" => q[i].id # s.then.id

RequestsOpen ==
    /\ Asked(Queue, srv.answers, sent, Used) /\ Unused(srv.answers, sent, Used)
    /\ Waits(srv, Queue, Used)

DocumentsFollow ==
    ~srv.shutdown => /\ Follows(Queue, srv.docs, client, overtaken)
                     /\ Finds(Queue, srv.docs, sent, overtaken)

\* A round of the loop starts when the messages of the last one are done.
PlaceInv ==
    /\ srv.at \in {"top", "recv"}
    /\ srv.at = "top" => srv.batch = <<>>

StreamInv == RequestsOpen /\ DocumentsFollow /\ AnswersFresh

IInv == BaseInv /\ PlaceInv /\ StreamInv

----------------------------------------------------------------------------
(* What the parts of a handler keep.                                       *)

\* What only the main loop, the wait and the answers change.
Steady(s, t) ==
    /\ t.pc = s.pc /\ t.then = s.then /\ t.at = s.at /\ t.batch = s.batch
    /\ t.buffered = s.buffered /\ t.shutdown = s.shutdown /\ t.ready = s.ready
    /\ t.answers = s.answers

\* A step that changes neither documents nor what is pending.
Keeps(s, t) == Steady(s, t) /\ t.docs = s.docs /\ t.pendD = s.pendD

\* The result of an analysis holds the text it was made from.
LEMMA AnalyzeText ==
  ASSUME NEW src, NEW c, NEW d
  PROVE  Analyze(src, c, d).res.text = src /\ Analyze(src, c, d).res # None
  <1>1. PICK k : k = CollectDefModules(src, c, d)
    OBVIOUS
  <1>2. PICK m : m = TopoSortDefModules(k.mods)
    OBVIOUS
  <1>3. Analyze(src, c, d).res = AnalysisOf(src, m)
    BY <1>1, <1>2 DEF Analyze, Analyzed
  <1> QED BY <1>3 DEF AnalysisOf, None

\* Documents and cached analyses are records, unlike None.
LEMMA NotNone ==
  /\ \A t, v : [text |-> t, version |-> v] # None
  /\ \A v, l, r : [version |-> v, lock |-> l, res |-> r] # None
  /\ \A x, r : [stamp |-> x, res |-> r] # None
  /\ \A x, y, z : [method |-> x, f |-> y, text |-> z] # None
  BY DEF None

\* get_analysis fills the cache of an open document and changes nothing else
\* that the invariant speaks of.
LEMMA GetAnalysisKeeps ==
  ASSUME NEW F, NEW s, ServerBut(s, F), NEW f \in Files, f \in F => s.cache[f] = None
  PROVE  /\ ServerBut(GetAnalysis(s, f), F \ {f}) /\ Keeps(s, GetAnalysis(s, f))
         /\ GetAnalysis(s, f).ix = s.ix /\ GetAnalysis(s, f).published = s.published
         /\ s.docs[f] # None => GetAnalysis(s, f).cache[f] # None
  <1>1. CASE s.docs[f] = None
    <2>1. GetAnalysis(s, f) = s
      BY <1>1 DEF GetAnalysis
    <2> QED BY <1>1, <2>1 DEF ServerBut, CacheInv, PendingInv, Keeps, Steady
  <1>2. CASE s.docs[f] # None /\ CacheHit(s, f)
    <2>1. PICK t : t = [s EXCEPT !.ctx = lock]
      OBVIOUS
    <2>2. GetAnalysis(s, f) = t
      BY <1>2, <2>1 DEF GetAnalysis, GetProjectContext
    <2>3. s.cache[f] # None
      BY <1>2 DEF CacheHit
    <2>4. Shape(t) /\ Keeps(s, t) /\ t.cache = s.cache /\ t.published = s.published /\ t.ix = s.ix
      BY <2>1 DEF ServerBut, Shape, Fields, Keeps, Steady
    <2>5. ServerBut(t, F \ {f})
      BY <2>3, <2>4 DEF ServerBut, DocsInv, CacheInv, PendingInv, QuietInv, Keeps
    <2> QED BY <2>2, <2>3, <2>4, <2>5
  <1>3. CASE s.docs[f] # None /\ ~CacheHit(s, f)
    <2>1. PICK a : a = Analyze(s.docs[f].text, s.defCache, disk)
      OBVIOUS
    <2>2. a.res.text = s.docs[f].text /\ a.res # None
      BY <2>1, AnalyzeText
    <2>3. PICK c : c = [version |-> s.docs[f].version, lock |-> lock, res |-> a.res]
      OBVIOUS
    <2>4. c # None /\ c.res # None /\ c.res.text = s.docs[f].text
      BY <2>2, <2>3, NotNone
    <2>5. PICK t : t = Remember(GetProjectContext(s), f, a)
      OBVIOUS
    <2>6. GetAnalysis(s, f) = t
      BY <1>3, <2>1, <2>5 DEF GetAnalysis
    <2>7. /\ Shape(t) /\ Keeps(s, t) /\ t.published = s.published /\ t.ix = s.ix /\ t.cache[f] = c
          /\ \A g \in Files : g # f => t.cache[g] = s.cache[g]
      BY <2>3, <2>5 DEF ServerBut, Shape, Fields, Keeps, Steady, Remember, GetProjectContext
    <2>8. ServerBut(t, F \ {f})
      BY <2>4, <2>7 DEF ServerBut, DocsInv, CacheInv, PendingInv, QuietInv, Keeps
    <2> QED BY <2>4, <2>6, <2>7, <2>8
  <1> QED BY <1>1, <1>2, <1>3

\* analyze_and_publish leaves a fresh analysis of the document, and publishes
\* only for an open one.
LEMMA PublishKeeps ==
  ASSUME NEW F, NEW s, ServerBut(s, F), NEW f \in Files
  PROVE  /\ ServerBut(AnalyzeAndPublish(s, f), F \ {f}) /\ Keeps(s, AnalyzeAndPublish(s, f))
         /\ AnalyzeAndPublish(s, f).ix = s.ix
  <1>1. PICK r : r = [s EXCEPT !.cache[f] = None]
    OBVIOUS
  <1>2. /\ Shape(r) /\ Keeps(s, r) /\ r.published = s.published /\ r.ix = s.ix /\ r.cache[f] = None
        /\ \A g \in Files : g # f => r.cache[g] = s.cache[g]
    BY <1>1 DEF ServerBut, Shape, Fields, Keeps, Steady
  <1>3. ServerBut(r, F \cup {f})
    BY <1>2 DEF ServerBut, DocsInv, CacheInv, PendingInv, QuietInv, Keeps
  <1>4. PICK t : t = GetAnalysis(r, f)
    OBVIOUS
  <1>5. /\ ServerBut(t, (F \cup {f}) \ {f}) /\ Keeps(r, t) /\ t.ix = r.ix /\ t.published = r.published
        /\ r.docs[f] # None => t.cache[f] # None
    BY <1>2, <1>3, <1>4, GetAnalysisKeeps
  <1>6. ServerBut(t, F \ {f}) /\ Keeps(s, t) /\ t.ix = s.ix
    BY <1>2, <1>5 DEF Keeps, Steady, ServerBut, CacheInv, PendingInv
  <1>7. AnalyzeAndPublish(s, f) = Publish(t, f)
    BY <1>1, <1>4 DEF AnalyzeAndPublish
  <1>8. CASE t.docs[f] = None
    BY <1>6, <1>7, <1>8 DEF Publish
  <1>9. CASE t.docs[f] # None
    <2>1. PICK u : u = Publish(t, f)
      OBVIOUS
    <2>2. u = [t EXCEPT !.published[f] = Diagnostics(t.cache[f].res)]
      BY <1>9, <2>1 DEF Publish
    <2>3. /\ Shape(u) /\ Keeps(t, u) /\ u.ix = t.ix /\ u.cache = t.cache
          /\ \A g \in Files : g # f => u.published[g] = t.published[g]
      BY <1>6, <2>2 DEF ServerBut, Shape, Fields, Keeps, Steady
    <2>4. ServerBut(u, F \ {f})
      BY <1>6, <1>9, <2>3 DEF ServerBut, DocsInv, CacheInv, PendingInv, QuietInv, Keeps
    <2> QED BY <1>6, <1>7, <2>1, <2>3, <2>4 DEF Keeps, Steady
  <1> QED BY <1>8, <1>9

\* The documents of a set in some order.
LEMMA SeqOfSet ==
  ASSUME NEW S, IsFiniteSet(S)
  PROVE  /\ SetToSeq(S) \in Seq(S)
         /\ \A x \in S : \E i \in 1..Len(SetToSeq(S)) : SetToSeq(S)[i] = x
  <1>1. PICK n \in Nat : n = Cardinality(S)
    BY FS_CardinalityType
  <1>2. PICK g : g \in Bijection(1..n, S)
    BY <1>1, FS_CardinalityType, Zenon DEF ExistsBijection
  <1>3. g \in [1..n -> S] /\ IsInjective(g)
    BY <1>2, Zenon DEF Bijection, Injection, IsInjective
  <1>4. PICK q : q = SetToSeq(S)
    OBVIOUS
  <1>5. q \in [1..n -> S] /\ IsInjective(q)
    BY <1>1, <1>3, <1>4, Zenon DEF SetToSeq
  <1>6. q \in Seq(S) /\ Len(q) = n
    BY <1>5
  <1>7. q \in Surjection(1..n, S)
    <2>1. q \in Injection(1..n, S)
      BY <1>5, Zenon DEF Injection, IsInjective
    <2>2. IsFiniteSet(1..n) /\ Cardinality(1..n) = n
      BY FS_Interval
    <2> QED BY <1>1, <2>1, <2>2, FS_Injection
  <1>8. \A x \in S : \E i \in 1..n : q[i] = x
    BY <1>7, Zenon DEF Surjection
  <1> QED BY <1>4, <1>6, <1>8

\* a holds the server after each of the documents of q.
PublishRun(a, s, q) == a[0] = s /\ \A i \in 1..Len(q) : a[i] = AnalyzeAndPublish(a[i - 1], q[i])

\* The loop over documents to publish has a run.
LEMMA PublishRuns ==
  ASSUME NEW s, NEW fs, NEW q, q \in Seq(Files), q = SetToSeq(fs)
  PROVE  \E a : PublishRun(a, s, q) /\ AnalyzeAndPublishAll(s, fs) = a[Len(q)]
  <1> DEFINE Step(f, m) == [i \in 0..m |-> IF i = 0 THEN s ELSE AnalyzeAndPublish(f[i - 1], q[i])]
             Missing == {m \in Nat : \A f : f # Step(f, m)}
  <1>1. Missing = {}
    <2> SUFFICES ASSUME Missing # {} PROVE FALSE
      OBVIOUS
    <2>1. PICK m \in Missing : \A y \in Missing : m <= y
      <3>1. Missing \subseteq Nat
        OBVIOUS
      <3> HIDE DEF Missing
      <3> QED BY <3>1, LeastNat
    <2>2. m \in Nat /\ \A f : f # Step(f, m)
      OBVIOUS
    <2>3. CASE m = 0
      <3>1. PICK f : f = [i \in 0..m |-> s]
        OBVIOUS
      <3>2. f = Step(f, m)
        BY <2>3, <3>1
      <3> QED BY <2>2, <3>2
    <2>4. CASE m # 0
      <3>1. m - 1 \in Nat /\ m - 1 \notin Missing
        <4> HIDE DEF Missing
        <4> QED BY <2>1, <2>2, <2>4
      <3>2. PICK f : f = Step(f, m - 1)
        BY <3>1
      <3>3. PICK e : e = [i \in 0..m |-> IF i = m THEN AnalyzeAndPublish(f[m - 1], q[m]) ELSE f[i]]
        OBVIOUS
      <3>4. \A i \in 0..m - 1 : e[i] = f[i]
        BY <2>2, <3>3
      <3>5. ASSUME NEW i \in 0..m
            PROVE  e[i] = IF i = 0 THEN s ELSE AnalyzeAndPublish(e[i - 1], q[i])
        <4>1. CASE i = m
          BY <2>2, <2>4, <3>3, <3>4, <4>1
        <4>2. CASE i # m
          <5>1. i \in 0..m - 1
            BY <2>2, <4>2
          <5>2. f[i] = IF i = 0 THEN s ELSE AnalyzeAndPublish(f[i - 1], q[i])
            BY <3>2, <5>1, Zenon
          <5>3. CASE i = 0
            BY <3>4, <5>1, <5>2, <5>3
          <5>4. CASE i # 0
            <6>1. i - 1 \in 0..m - 1
              BY <2>2, <5>1, <5>4
            <6> QED BY <3>4, <5>1, <5>2, <5>4, <6>1
          <5> QED BY <5>3, <5>4
        <4> QED BY <4>1, <4>2
      <3>6. e = Step(e, m)
        BY <3>3, <3>5
      <3> QED BY <2>2, <3>6
    <2> QED BY <2>3, <2>4
  <1>2. PICK n \in Nat : n = Len(q)
    OBVIOUS
  <1>3. PICK a : a = CHOOSE f : f = Step(f, n)
    OBVIOUS
  <1>4. a = Step(a, n)
    <2>1. n \notin Missing
      BY <1>1
    <2>2. \E f : f = Step(f, n)
      BY <2>1, Zenon
    <2> QED BY <1>3, <2>2, Zenon
  <1>5. a[0] = s /\ \A i \in 1..n : a[i] = AnalyzeAndPublish(a[i - 1], q[i])
    <2>1. \A i \in 0..n : a[i] = IF i = 0 THEN s ELSE AnalyzeAndPublish(a[i - 1], q[i])
      BY <1>4, Zenon
    <2>2. 0 \in 0..n /\ \A i \in 1..n : i \in 0..n /\ i # 0
      OBVIOUS
    <2> QED BY <2>1, <2>2, Zenon
  <1>6. AnalyzeAndPublishAll(s, fs) = a[n]
    BY <1>2, <1>3, Zenon DEF AnalyzeAndPublishAll
  <1> QED BY <1>2, <1>5, <1>6 DEF PublishRun

\* The documents of fs have fresh analyses once all are published.
LEMMA PublishAllKeeps ==
  ASSUME NEW fs, fs \subseteq Files, NEW s, ServerBut(s, fs)
  PROVE  /\ ServerInv(AnalyzeAndPublishAll(s, fs)) /\ Keeps(s, AnalyzeAndPublishAll(s, fs))
         /\ AnalyzeAndPublishAll(s, fs).ix = s.ix
  <1>1. IsFiniteSet(fs)
    BY FilesAssumption, FS_Subset
  <1>2. PICK q : q = SetToSeq(fs)
    OBVIOUS
  <1>3. q \in Seq(fs) /\ \A x \in fs : \E i \in 1..Len(q) : q[i] = x
    BY <1>1, <1>2, SeqOfSet
  <1>4. PICK n \in Nat : n = Len(q)
    BY <1>3
  <1>5. q \in Seq(Files) /\ \A i \in 1..n : q[i] \in Files
    BY <1>3, <1>4
  <1>6. PICK a : PublishRun(a, s, q) /\ AnalyzeAndPublishAll(s, fs) = a[Len(q)]
    BY <1>2, <1>5, PublishRuns
  <1>7. a[0] = s /\ \A i \in 1..n : a[i] = AnalyzeAndPublish(a[i - 1], q[i])
    BY <1>4, <1>6 DEF PublishRun
  <1> DEFINE Left(m) == fs \ {q[i] : i \in 1..m}
             Kept(m) == ServerBut(a[m], Left(m)) /\ Keeps(s, a[m]) /\ a[m].ix = s.ix
             Bad == {m \in 0..n : ~Kept(m)}
  <1>8. Bad = {}
    <2> SUFFICES ASSUME Bad # {} PROVE FALSE
      OBVIOUS
    <2>1. PICK m \in Bad : \A y \in Bad : m <= y
      <3>1. Bad \subseteq Nat
        OBVIOUS
      <3> HIDE DEF Bad
      <3> QED BY <3>1, LeastNat
    <2>2. m \in 0..n /\ ~Kept(m)
      OBVIOUS
    <2>3. CASE m = 0
      <3>1. Left(0) = fs
        OBVIOUS
      <3>2. Kept(0)
        BY <1>7, <3>1 DEF Keeps, Steady
      <3> QED BY <2>2, <2>3, <3>2
    <2>4. CASE m # 0
      <3>1. m - 1 \in 0..n /\ m \in 1..n /\ m - 1 < m
        BY <2>2, <2>4
      <3>2. Kept(m - 1)
        <4>1. m - 1 \notin Bad
          <5> HIDE DEF Bad
          <5> QED BY <2>1, <3>1
        <4> QED BY <3>1, <4>1
      <3>3. PICK b, F, x : b = a[m - 1] /\ F = Left(m - 1) /\ x = q[m]
        OBVIOUS
      <3>4. ServerBut(b, F) /\ Keeps(s, b) /\ b.ix = s.ix /\ x \in Files /\ a[m] = AnalyzeAndPublish(b, x)
        BY <1>5, <1>7, <3>1, <3>2, <3>3
      <3>5. ServerBut(a[m], F \ {x}) /\ Keeps(b, a[m]) /\ a[m].ix = b.ix
        BY <3>4, PublishKeeps
      <3>6. Left(m) = F \ {x}
        <4>1. \A i \in 1..m : i \in 1..m - 1 \/ i = m
          BY <2>2
        <4>2. \A i \in 1..m - 1 : i \in 1..m
          BY <2>2
        <4> QED BY <3>1, <3>3, <4>1, <4>2
      <3>7. Kept(m)
        BY <3>4, <3>5, <3>6 DEF Keeps, Steady
      <3> QED BY <2>2, <3>7
    <2> QED BY <2>3, <2>4
  <1>9. Kept(n)
    BY <1>8
  <1>10. Left(n) = {}
    BY <1>3, <1>4
  <1> QED BY <1>4, <1>6, <1>9, <1>10 DEF ServerInv

----------------------------------------------------------------------------
(* The index.                                                              *)

\* An entry of the index for a text.
LEMMA EntryMade ==
  ASSUME NEW f \in Files, NEW res, res # None, res.text \in Texts[f],
         NEW x, x = DiskStamp(res.text) \/ x = MemStamp(res.text)
  PROVE  Entry(x, res) # None /\ EntryOk(Entry(x, res), f) /\ Entry(x, res).res = res
  <1>1. Entry(x, res) = [stamp |-> x, res |-> res]
    BY DEF Entry
  <1> QED BY <1>1, NotNone DEF EntryOk

\* index_file leaves an analysis of the file on disk, whether it was skipped
\* or not: an equal stamp means an equal text.
LEMMA IndexFileKeeps ==
  ASSUME ClientInv, NEW ix, IndexInv(ix), NEW f \in Files, NEW c
  PROVE  LET r == IndexFile(ix, f, c, disk).ix IN
         /\ IndexInv(r)
         /\ r.files[f] # None /\ r.files[f].res.text = disk[f]
         /\ \A g \in Files : g # f => r.files[g] = ix.files[g]
  <1>1. disk[f] \in Texts[f]
    BY DEF ClientInv
  <1>2. CASE ix.files[f] # None /\ ix.files[f].stamp = DiskStamp(disk[f])
    <2>1. IndexFile(ix, f, c, disk).ix = ix
      BY <1>2 DEF IndexFile
    <2>2. PICK e : e = ix.files[f]
      OBVIOUS
    <2>3. EntryOk(e, f) /\ e.stamp = DiskStamp(disk[f])
      BY <1>2, <2>2 DEF IndexInv
    <2>4. e.res.text.id = disk[f].id
      BY <2>3 DEF EntryOk, DiskStamp, MemStamp
    <2>5. e.res.text = disk[f]
      BY <1>1, <2>3, <2>4, TextsAssumption DEF EntryOk
    <2> QED BY <1>2, <2>1, <2>2, <2>5
  <1>3. CASE ~(ix.files[f] # None /\ ix.files[f].stamp = DiskStamp(disk[f]))
    <2>1. PICK a : a = Analyze(disk[f], c, disk)
      OBVIOUS
    <2>2. a.res.text = disk[f] /\ a.res # None
      BY <2>1, AnalyzeText
    <2>3. PICK e : e = Entry(DiskStamp(disk[f]), a.res)
      OBVIOUS
    <2>4. e # None /\ EntryOk(e, f) /\ e.res.text = disk[f]
      BY <1>1, <2>2, <2>3, EntryMade
    <2>5. PICK r : r = [ix EXCEPT !.files[f] = e, !.dirty = TRUE]
      OBVIOUS
    <2>6. IndexFile(ix, f, c, disk).ix = r
      BY <1>3, <2>1, <2>3, <2>5 DEF IndexFile, Insert
    <2>7. /\ DOMAIN r = {"files", "view", "dirty"} /\ r.dirty = TRUE /\ DOMAIN r.files = Files
          /\ r.files[f] = e /\ \A g \in Files : g # f => r.files[g] = ix.files[g]
      BY <2>5 DEF IndexInv
    <2>8. IndexInv(r)
      BY <2>4, <2>7 DEF IndexInv
    <2> QED BY <2>4, <2>6, <2>7, <2>8
  <1> QED BY <1>2, <1>3

\* a holds the index and the cache of definitions after each of the files of q.
IndexRun(a, ix, c, q) ==
    /\ a[0] = [ix |-> ix, cache |-> c]
    /\ \A i \in 1..Len(q) : a[i] = IndexFile(a[i - 1].ix, q[i], a[i - 1].cache, disk)

\* The loop over the files on disk has a run.
LEMMA IndexRuns ==
  ASSUME NEW ix, NEW c, NEW q, q \in Seq(Files), q = SetToSeq(Files)
  PROVE  \E a : IndexRun(a, ix, c, q) /\ IndexDirectories(ix, c, disk) = a[Len(q)]
  <1> DEFINE Step(f, m) == [i \in 0..m |-> IF i = 0 THEN [ix |-> ix, cache |-> c] ELSE IndexFile(f[i - 1].ix, q[i], f[i - 1].cache, disk)]
             Missing == {m \in Nat : \A f : f # Step(f, m)}
  <1>1. Missing = {}
    <2> SUFFICES ASSUME Missing # {} PROVE FALSE
      OBVIOUS
    <2>1. PICK m \in Missing : \A y \in Missing : m <= y
      <3>1. Missing \subseteq Nat
        OBVIOUS
      <3> HIDE DEF Missing
      <3> QED BY <3>1, LeastNat
    <2>2. m \in Nat /\ \A f : f # Step(f, m)
      OBVIOUS
    <2>3. CASE m = 0
      <3>1. PICK f : f = [i \in 0..m |-> [ix |-> ix, cache |-> c]]
        OBVIOUS
      <3>2. f = Step(f, m)
        BY <2>3, <3>1
      <3> QED BY <2>2, <3>2
    <2>4. CASE m # 0
      <3>1. m - 1 \in Nat /\ m - 1 \notin Missing
        <4> HIDE DEF Missing
        <4> QED BY <2>1, <2>2, <2>4
      <3>2. PICK f : f = Step(f, m - 1)
        BY <3>1
      <3>3. PICK e : e = [i \in 0..m |-> IF i = m THEN IndexFile(f[m - 1].ix, q[m], f[m - 1].cache, disk) ELSE f[i]]
        OBVIOUS
      <3>4. \A i \in 0..m - 1 : e[i] = f[i]
        BY <2>2, <3>3
      <3>5. ASSUME NEW i \in 0..m
            PROVE  e[i] = IF i = 0 THEN [ix |-> ix, cache |-> c] ELSE IndexFile(e[i - 1].ix, q[i], e[i - 1].cache, disk)
        <4>1. CASE i = m
          BY <2>2, <2>4, <3>3, <3>4, <4>1
        <4>2. CASE i # m
          <5>1. i \in 0..m - 1
            BY <2>2, <4>2
          <5>2. f[i] = IF i = 0 THEN [ix |-> ix, cache |-> c] ELSE IndexFile(f[i - 1].ix, q[i], f[i - 1].cache, disk)
            BY <3>2, <5>1, Zenon
          <5>3. CASE i = 0
            BY <3>4, <5>1, <5>2, <5>3
          <5>4. CASE i # 0
            <6>1. i - 1 \in 0..m - 1
              BY <2>2, <5>1, <5>4
            <6> QED BY <3>4, <5>1, <5>2, <5>4, <6>1
          <5> QED BY <5>3, <5>4
        <4> QED BY <4>1, <4>2
      <3>6. e = Step(e, m)
        BY <3>3, <3>5
      <3> QED BY <2>2, <3>6
    <2> QED BY <2>3, <2>4
  <1>2. PICK n \in Nat : n = Len(q)
    OBVIOUS
  <1>3. PICK a : a = CHOOSE f : f = Step(f, n)
    OBVIOUS
  <1>4. a = Step(a, n)
    <2>1. n \notin Missing
      BY <1>1
    <2>2. \E f : f = Step(f, n)
      BY <2>1, Zenon
    <2> QED BY <1>3, <2>2, Zenon
  <1>5. a[0] = [ix |-> ix, cache |-> c] /\ \A i \in 1..n : a[i] = IndexFile(a[i - 1].ix, q[i], a[i - 1].cache, disk)
    <2>1. \A i \in 0..n : a[i] = IF i = 0 THEN [ix |-> ix, cache |-> c] ELSE IndexFile(a[i - 1].ix, q[i], a[i - 1].cache, disk)
      BY <1>4, Zenon
    <2>2. 0 \in 0..n /\ \A i \in 1..n : i \in 0..n /\ i # 0
      OBVIOUS
    <2> QED BY <2>1, <2>2, Zenon
  <1>6. IndexDirectories(ix, c, disk) = a[n]
    BY <1>2, <1>3, Zenon DEF IndexDirectories
  <1> QED BY <1>2, <1>5, <1>6 DEF IndexRun

\* After index_directories every file of the index is as it is on disk.
LEMMA IndexDirectoriesKeeps ==
  ASSUME ClientInv, NEW ix, IndexInv(ix), NEW c
  PROVE  LET r == IndexDirectories(ix, c, disk).ix IN
         IndexInv(r) /\ \A f \in Files : r.files[f] # None /\ r.files[f].res.text = disk[f]
  <1>1. PICK q : q = SetToSeq(Files)
    OBVIOUS
  <1>2. q \in Seq(Files) /\ \A x \in Files : \E i \in 1..Len(q) : q[i] = x
    BY <1>1, FilesAssumption, SeqOfSet
  <1>3. PICK n \in Nat : n = Len(q)
    BY <1>2
  <1>4. \A i \in 1..n : q[i] \in Files
    BY <1>2, <1>3
  <1>5. PICK a : IndexRun(a, ix, c, q) /\ IndexDirectories(ix, c, disk) = a[Len(q)]
    BY <1>1, <1>2, IndexRuns
  <1>6. /\ a[0] = [ix |-> ix, cache |-> c]
        /\ \A i \in 1..n : a[i] = IndexFile(a[i - 1].ix, q[i], a[i - 1].cache, disk)
    BY <1>3, <1>5 DEF IndexRun
  <1> DEFINE Done(r, m) == \A i \in 1..m : r.files[q[i]] # None /\ r.files[q[i]].res.text = disk[q[i]]
             Kept(m) == IndexInv(a[m].ix) /\ Done(a[m].ix, m)
             Bad == {m \in 0..n : ~Kept(m)}
  <1>7. Bad = {}
    <2> SUFFICES ASSUME Bad # {} PROVE FALSE
      OBVIOUS
    <2>1. PICK m \in Bad : \A y \in Bad : m <= y
      <3>1. Bad \subseteq Nat
        OBVIOUS
      <3> HIDE DEF Bad
      <3> QED BY <3>1, LeastNat
    <2>2. m \in 0..n /\ ~Kept(m)
      OBVIOUS
    <2>3. CASE m = 0
      <3>1. Kept(0)
        BY <1>6
      <3> QED BY <2>2, <2>3, <3>1
    <2>4. CASE m # 0
      <3>1. m - 1 \in 0..n /\ m \in 1..n /\ m - 1 < m
        BY <2>2, <2>4
      <3>2. Kept(m - 1)
        <4>1. m - 1 \notin Bad
          <5> HIDE DEF Bad
          <5> QED BY <2>1, <3>1
        <4> QED BY <3>1, <4>1
      <3>3. PICK b, d, x, r : b = a[m - 1].ix /\ d = a[m - 1].cache /\ x = q[m] /\ r = a[m].ix
        OBVIOUS
      <3>4. IndexInv(b) /\ Done(b, m - 1) /\ x \in Files /\ r = IndexFile(b, x, d, disk).ix
        BY <1>4, <1>6, <3>1, <3>2, <3>3
      <3>5. /\ IndexInv(r) /\ r.files[x] # None /\ r.files[x].res.text = disk[x]
            /\ \A g \in Files : g # x => r.files[g] = b.files[g]
        BY <3>4, IndexFileKeeps
      <3>6. ASSUME NEW i \in 1..m PROVE r.files[q[i]] # None /\ r.files[q[i]].res.text = disk[q[i]]
        <4>1. CASE q[i] = x
          BY <3>5, <4>1
        <4>2. CASE q[i] # x
          <5>1. i \in 1..m - 1 /\ i \in 1..n
            BY <2>2, <3>3, <4>2
          <5> QED BY <1>4, <3>4, <3>5, <4>2, <5>1
        <4> QED BY <4>1, <4>2
      <3>7. Kept(m)
        BY <3>3, <3>5, <3>6
      <3> QED BY <2>2, <3>7
    <2> QED BY <2>3, <2>4
  <1>8. Kept(n)
    BY <1>7
  <1>9. PICK r : r = IndexDirectories(ix, c, disk).ix
    OBVIOUS
  <1>10. IndexInv(r) /\ Done(r, n)
    BY <1>3, <1>5, <1>8, <1>9
  <1>11. \A f \in Files : r.files[f] # None /\ r.files[f].res.text = disk[f]
    BY <1>2, <1>3, <1>10
  <1> QED BY <1>9, <1>10, <1>11

\* Open documents with a cached analysis enter the index with it.
LEMMA UpdateIndexKeeps ==
  ASSUME NEW s, ServerInv(s), NEW fs, fs \subseteq Files
  PROVE  LET t == UpdateIndexForOpenDocs(s, fs) IN
         /\ ServerInv(t) /\ Keeps(s, t) /\ t.cache = s.cache
         /\ \A f \in Files :
               IF f \in fs /\ s.docs[f] # None /\ s.cache[f] # None
               THEN t.ix.files[f] # None /\ t.ix.files[f].res.text = s.docs[f].text
               ELSE t.ix.files[f] = s.ix.files[f]
  <1>1. PICK C : C = {f \in fs : s.docs[f] # None /\ s.cache[f] # None}
    OBVIOUS
  <1>2. PICK d : d = [f \in C |-> [text |-> s.docs[f].text, res |-> s.cache[f].res]]
    OBVIOUS
  <1>3. DOMAIN d = C /\ \A f \in C : d[f].text = s.docs[f].text /\ d[f].res = s.cache[f].res
    BY <1>2
  <1>4. PICK x : x = IndexFromAnalysis(s.ix, d)
    OBVIOUS
  <1>5. PICK t : t = UpdateIndexForOpenDocs(s, fs)
    OBVIOUS
  <1>6. t = [s EXCEPT !.ix = x]
    BY <1>1, <1>2, <1>4, <1>5 DEF UpdateIndexForOpenDocs, ServerInv, ServerBut, Shape, Fields
  <1>7. /\ Shape(t) /\ Keeps(s, t) /\ t.cache = s.cache /\ t.published = s.published /\ t.ix = x
    BY <1>6 DEF ServerInv, ServerBut, Shape, Fields, Keeps, Steady
  <1>8. PICK o : o = s.ix
    OBVIOUS
  <1>9. IndexInv(o)
    BY <1>8 DEF ServerInv, ServerBut
  <1>10. /\ DOMAIN x = {"files", "view", "dirty"} /\ DOMAIN x.files = Files /\ x.view = o.view
         /\ x.dirty = (o.dirty \/ C # {})
         /\ \A f \in Files : x.files[f] = IF f \in C THEN Entry(MemStamp(d[f].text), d[f].res) ELSE o.files[f]
    BY <1>3, <1>4, <1>8, <1>9 DEF IndexFromAnalysis, IndexInv
  <1>11. ASSUME NEW f \in C
         PROVE  x.files[f] # None /\ EntryOk(x.files[f], f) /\ x.files[f].res.text = s.docs[f].text
    <2>1. f \in Files /\ s.docs[f] # None /\ s.cache[f] # None
      BY <1>1, <1>11
    <2>2. PICK r : r = s.cache[f].res
      OBVIOUS
    <2>3. r # None /\ r.text = s.docs[f].text /\ r.text \in Texts[f]
      BY <2>1, <2>2 DEF ServerInv, ServerBut, CacheInv, DocsInv
    <2>4. x.files[f] = Entry(MemStamp(r.text), r)
      BY <1>3, <1>10, <1>11, <2>1, <2>2, <2>3
    <2> QED BY <2>1, <2>3, <2>4, EntryMade
  <1>12. IndexInv(x)
    <2>1. x.dirty \in BOOLEAN
      BY <1>9, <1>10 DEF IndexInv
    <2>2. \A f \in Files : x.files[f] # None => EntryOk(x.files[f], f)
      BY <1>9, <1>10, <1>11 DEF IndexInv
    <2>3. ASSUME ~x.dirty PROVE \A f \in Files : x.view[f] = Visible(x.files[f])
      <3>1. ~o.dirty /\ C = {}
        BY <1>9, <1>10, <2>3 DEF IndexInv
      <3> QED BY <1>9, <1>10, <3>1 DEF IndexInv
    <2> QED BY <1>10, <2>1, <2>2, <2>3 DEF IndexInv
  <1>13. ServerInv(t)
    BY <1>7, <1>12 DEF ServerInv, ServerBut, DocsInv, CacheInv, PendingInv, QuietInv, Keeps
  <1>14. ASSUME NEW f \in Files
         PROVE  IF f \in fs /\ s.docs[f] # None /\ s.cache[f] # None
                THEN t.ix.files[f] # None /\ t.ix.files[f].res.text = s.docs[f].text
                ELSE t.ix.files[f] = s.ix.files[f]
    BY <1>1, <1>7, <1>8, <1>10, <1>11
  <1> QED BY <1>5, <1>7, <1>13, <1>14

\* rebuild_if_dirty brings the view up to date.
LEMMA RebuildKeeps ==
  ASSUME NEW s, ServerInv(s)
  PROVE  LET t == Rebuild(s) IN
         /\ ServerInv(t) /\ Keeps(s, t) /\ t.cache = s.cache
         /\ \A f \in Files : t.ix.view[f] = Visible(s.ix.files[f])
  <1>1. PICK o : o = s.ix
    OBVIOUS
  <1>2. PICK x : x = RebuildIfDirty(o)
    OBVIOUS
  <1>3. PICK t : t = Rebuild(s)
    OBVIOUS
  <1>4. t = [s EXCEPT !.ix = x]
    BY <1>1, <1>2, <1>3 DEF Rebuild, ServerInv, ServerBut, Shape, Fields
  <1>5. Shape(t) /\ Keeps(s, t) /\ t.cache = s.cache /\ t.published = s.published /\ t.ix = x
    BY <1>4 DEF ServerInv, ServerBut, Shape, Fields, Keeps, Steady
  <1>6. IndexInv(o)
    BY <1>1 DEF ServerInv, ServerBut
  <1>7. IndexInv(x) /\ \A f \in Files : x.view[f] = Visible(o.files[f])
    <2>1. CASE o.dirty
      <3>1. /\ DOMAIN x = {"files", "view", "dirty"} /\ x.dirty = FALSE /\ x.files = o.files
            /\ \A f \in Files : x.view[f] = Visible(o.files[f])
        BY <1>2, <1>6, <2>1 DEF RebuildIfDirty, IndexInv, Visible
      <3> QED BY <1>6, <3>1 DEF IndexInv
    <2>2. CASE ~o.dirty
      BY <1>2, <1>6, <2>2 DEF RebuildIfDirty, IndexInv
    <2> QED BY <2>1, <2>2
  <1>8. ServerInv(t)
    BY <1>5, <1>7 DEF ServerInv, ServerBut, DocsInv, CacheInv, PendingInv, QuietInv, Keeps
  <1> QED BY <1>1, <1>3, <1>5, <1>7, <1>8

\* The index and the cache of definitions are replaced.
LEMMA WithIndexKeeps ==
  ASSUME NEW F, NEW s, ServerBut(s, F), NEW r, IndexInv(r.ix)
  PROVE  ServerBut(WithIndex(s, r), F) /\ Keeps(s, WithIndex(s, r)) /\ WithIndex(s, r).ix = r.ix
  <1>1. PICK t : t = WithIndex(s, r)
    OBVIOUS
  <1>2. Shape(t) /\ Keeps(s, t) /\ t.cache = s.cache /\ t.published = s.published /\ t.ix = r.ix
    BY <1>1 DEF WithIndex, ServerBut, Shape, Fields, Keeps, Steady
  <1>3. ServerBut(t, F)
    BY <1>2 DEF ServerBut, DocsInv, CacheInv, PendingInv, QuietInv, Keeps
  <1> QED BY <1>1, <1>2, <1>3

\* The index shows a text of f.
Shows(ix, f, text) ==
    IF Parses(text) THEN ix.view[f] # None /\ ix.view[f].text = text ELSE ix.view[f] = None

\* What ReindexReflects says of the state after a run.
Reflects(t) ==
    \A f \in Files :
        CASE t.docs[f] = None -> Shows(t.ix, f, disk[f])
          [] t.docs[f] # None /\ t.cache[f] # None -> Shows(t.ix, f, t.docs[f].text)
          [] t.docs[f] # None /\ t.cache[f] = None ->
                t.pendD[f] # NotPending /\ Shows(t.ix, f, disk[f])

\* The index after the files on disk and the open documents went into it.
LEMMA ReindexShows ==
  ASSUME NEW s, ServerInv(s),
         \A f \in Files : s.ix.files[f] # None /\ s.ix.files[f].res.text = disk[f]
  PROVE  LET t == ReindexWorkspace(s) IN
         /\ ServerInv(t) /\ Reflects(t)
         /\ \E u : Steady(s, u) /\ t = [u EXCEPT !.ready = ~@] /\ u.docs = s.docs
  <1>1. PICK fs : fs = OpenDocs(s)
    OBVIOUS
  <1>2. fs \subseteq Files /\ \A f \in Files : f \in fs <=> s.docs[f] # None
    BY <1>1 DEF OpenDocs
  <1>3. PICK v : v = UpdateIndexForOpenDocs(s, fs)
    OBVIOUS
  <1>4. /\ ServerInv(v) /\ Keeps(s, v) /\ v.cache = s.cache
        /\ \A f \in Files :
              IF f \in fs /\ s.docs[f] # None /\ s.cache[f] # None
              THEN v.ix.files[f] # None /\ v.ix.files[f].res.text = s.docs[f].text
              ELSE v.ix.files[f] = s.ix.files[f]
    BY <1>2, <1>3, UpdateIndexKeeps
  <1>5. PICK u : u = Rebuild(v)
    OBVIOUS
  <1>6. /\ ServerInv(u) /\ Keeps(v, u) /\ u.cache = v.cache
        /\ \A f \in Files : u.ix.view[f] = Visible(v.ix.files[f])
    BY <1>4, <1>5, RebuildKeeps
  <1>7. PICK t : t = [u EXCEPT !.ready = ~@]
    OBVIOUS
  <1>8. ReindexWorkspace(s) = t
    BY <1>1, <1>3, <1>5, <1>7 DEF ReindexWorkspace, OverlayOpenDocs
  <1>9. /\ Shape(t) /\ t.docs = u.docs /\ t.cache = u.cache /\ t.pendD = u.pendD
        /\ t.published = u.published /\ t.ix = u.ix
    BY <1>6, <1>7 DEF ServerInv, ServerBut, Shape, Fields
  <1>10. ServerInv(t)
    BY <1>6, <1>9 DEF ServerInv, ServerBut, DocsInv, CacheInv, PendingInv, QuietInv
  <1>11. t.docs = s.docs /\ t.pendD = s.pendD /\ t.cache = s.cache
    BY <1>4, <1>6, <1>9 DEF Keeps
  <1>12. \A f \in Files : t.ix.view[f] = Visible(v.ix.files[f])
    BY <1>6, <1>9
  <1>13. ASSUME NEW f \in Files, NEW x, v.ix.files[f] # None, v.ix.files[f].res.text = x
         PROVE  Shows(t.ix, f, x)
    <2>1. PICK e : e = v.ix.files[f]
      OBVIOUS
    <2>2. e # None /\ e.res.text = x /\ e.res # None
      BY <1>4, <1>13, <2>1 DEF ServerInv, ServerBut, IndexInv, EntryOk
    <2>3. t.ix.view[f] = IF Parses(x) THEN e.res ELSE None
      BY <1>12, <2>1, <2>2 DEF Visible
    <2> QED BY <2>2, <2>3 DEF Shows
  <1>14. Reflects(t)
    <2>1. ASSUME NEW f \in Files, t.docs[f] = None \/ t.cache[f] = None
          PROVE  Shows(t.ix, f, disk[f])
      <3>1. v.ix.files[f] = s.ix.files[f]
        BY <1>4, <1>11, <2>1
      <3> QED BY <1>13, <3>1
    <2>2. ASSUME NEW f \in Files, t.docs[f] # None, t.cache[f] # None
          PROVE  Shows(t.ix, f, t.docs[f].text)
      <3>1. v.ix.files[f] # None /\ v.ix.files[f].res.text = s.docs[f].text
        BY <1>2, <1>4, <1>11, <2>2
      <3> QED BY <1>11, <1>13, <3>1
    <2>3. ASSUME NEW f \in Files, t.docs[f] # None, t.cache[f] = None
          PROVE  t.pendD[f] # NotPending
      BY <1>11, <2>3 DEF ServerInv, ServerBut, PendingInv
    <2> QED BY <2>1, <2>2, <2>3 DEF Reflects
  <1>15. Steady(s, u) /\ u.docs = s.docs
    BY <1>4, <1>6 DEF Keeps, Steady
  <1> QED BY <1>7, <1>8, <1>10, <1>14, <1>15

----------------------------------------------------------------------------
(* The wait for the client.                                                *)

\* The answers once a is sent for the request id.
Answered(s, id, a) == [s.answers EXCEPT ![id] = Append(@, a)]

\* The main loop is where it was, and so are the documents.
SamePlace(s, t) ==
    t.at = s.at /\ t.batch = s.batch /\ t.buffered = s.buffered /\ t.shutdown = s.shutdown

\* t comes after the wait in s.
Resumed(s, t) ==
    /\ ServerInv(t) /\ SamePlace(s, t) /\ t.docs = s.docs /\ t.pc = "run"
    /\ t.ready # s.ready => Reflects(t)
    /\ t.answers = IF s.then.op = "reindex" THEN Answered(s, s.then.id, [k |-> "count"])
                   ELSE s.answers

\* An answer changes nothing but the answers.
LEMMA RespondKeeps ==
  ASSUME NEW s, ServerInv(s), NEW id, NEW a
  PROVE  LET t == Respond(s, id, a) IN
         /\ ServerInv(t) /\ SamePlace(s, t) /\ t.docs = s.docs /\ t.pc = s.pc /\ t.then = s.then
         /\ t.ready = s.ready /\ t.answers = Answered(s, id, a)
         /\ t.ix = s.ix /\ t.pendD = s.pendD /\ t.cache = s.cache
  <1>1. PICK t : t = Respond(s, id, a)
    OBVIOUS
  <1>2. /\ Shape(t) /\ SamePlace(s, t) /\ t.docs = s.docs /\ t.pc = s.pc /\ t.then = s.then
        /\ t.ready = s.ready /\ t.answers = Answered(s, id, a) /\ t.cache = s.cache
        /\ t.pendD = s.pendD /\ t.published = s.published /\ t.ix = s.ix
    BY <1>1 DEF Respond, Answered, SamePlace, ServerInv, ServerBut, Shape, Fields
  <1>3. ServerInv(t)
    BY <1>2 DEF ServerInv, ServerBut, DocsInv, CacheInv, PendingInv, QuietInv
  <1> QED BY <1>1, <1>2, <1>3

\* The run that follows the wait, for each of the three ways to start one.
LEMMA AfterProgressKeeps ==
  ASSUME ClientInv, NEW s, ServerInv(s), s.then.op \in {"initial", "manifest", "reindex"}
  PROVE  Resumed(s, AfterProgress(s))
  <1>1. PICK s0 : s0 = [s EXCEPT !.pc = "run", !.then = None]
    OBVIOUS
  <1>2. /\ Shape(s0) /\ SamePlace(s, s0) /\ s0.docs = s.docs /\ s0.pc = "run" /\ s0.ready = s.ready
        /\ s0.answers = s.answers /\ s0.cache = s.cache /\ s0.pendD = s.pendD
        /\ s0.published = s.published /\ s0.ix = s.ix
    BY <1>1 DEF SamePlace, ServerInv, ServerBut, Shape, Fields
  <1>3. ServerInv(s0)
    BY <1>2 DEF ServerInv, ServerBut, DocsInv, CacheInv, PendingInv, QuietInv
  <1>4. PICK r : r = IndexDirectories(s0.ix, s0.defCache, disk)
    OBVIOUS
  <1>5. IndexInv(r.ix) /\ \A f \in Files : r.ix.files[f] # None /\ r.ix.files[f].res.text = disk[f]
    BY <1>3, <1>4, IndexDirectoriesKeeps DEF ServerInv, ServerBut
  <1>6. PICK s1 : s1 = WithIndex(s0, r)
    OBVIOUS
  <1>7. ServerInv(s1) /\ Keeps(s0, s1) /\ s1.ix = r.ix
    BY <1>3, <1>5, <1>6, WithIndexKeeps DEF ServerInv
  <1>8. AfterProgress(s) = Resume(s1, s.then)
    BY <1>1, <1>4, <1>6 DEF AfterProgress, IndexDisk
  <1>9. /\ SamePlace(s, s1) /\ s1.docs = s.docs /\ s1.pc = "run" /\ s1.ready = s.ready
        /\ s1.answers = s.answers
    BY <1>2, <1>7 DEF Keeps, Steady, SamePlace
  <1>10. CASE s.then.op = "initial"
    <2>1. PICK t : t = Rebuild(s1)
      OBVIOUS
    <2>2. ServerInv(t) /\ Keeps(s1, t)
      BY <1>7, <2>1, RebuildKeeps
    <2>3. AfterProgress(s) = t
      BY <1>8, <1>10, <2>1 DEF Resume, InitialIndex
    <2> QED BY <1>9, <1>10, <2>2, <2>3 DEF Resumed, Keeps, Steady, SamePlace
  <1>11. CASE s.then.op \in {"manifest", "reindex"}
    <2>1. PICK t : t = ReindexWorkspace(s1)
      OBVIOUS
    <2>2. /\ ServerInv(t) /\ Reflects(t)
          /\ \E u : Steady(s1, u) /\ t = [u EXCEPT !.ready = ~@] /\ u.docs = s1.docs
      BY <1>5, <1>7, <2>1, ReindexShows
    <2>3. PICK u : Steady(s1, u) /\ t = [u EXCEPT !.ready = ~@] /\ u.docs = s1.docs
      BY <2>2
    <2>4. DOMAIN t = Fields
      BY <2>2 DEF ServerInv, ServerBut, Shape
    <2>5. DOMAIN u = Fields
      BY <2>3, <2>4
    <2>6. /\ t.docs = u.docs /\ t.pc = u.pc /\ t.at = u.at /\ t.batch = u.batch
          /\ t.buffered = u.buffered /\ t.shutdown = u.shutdown /\ t.answers = u.answers
      BY <2>3, <2>5 DEF Fields
    <2>7. SamePlace(s, t) /\ t.docs = s.docs /\ t.pc = "run" /\ t.answers = s.answers
      BY <1>9, <2>3, <2>6 DEF Steady, SamePlace
    <2>8. CASE s.then.op = "manifest"
      <3>1. AfterProgress(s) = t
        BY <1>8, <2>1, <2>8 DEF Resume
      <3> QED BY <2>2, <2>7, <2>8, <3>1 DEF Resumed
    <2>9. CASE s.then.op = "reindex"
      <3>1. PICK w, i, c : w = Respond(t, i, c) /\ i = s.then.id /\ c = [k |-> "count"]
        OBVIOUS
      <3>2. AfterProgress(s) = w
        BY <1>8, <2>1, <2>9, <3>1 DEF Resume
      <3>3. /\ ServerInv(w) /\ SamePlace(t, w) /\ w.docs = t.docs /\ w.pc = t.pc
            /\ w.ready = t.ready /\ w.answers = Answered(t, i, c)
            /\ w.ix = t.ix /\ w.pendD = t.pendD /\ w.cache = t.cache
        <4>1. ServerInv(t)
          BY <2>2
        <4> QED BY <3>1, <4>1, RespondKeeps
      <3>4. Reflects(w)
        BY <2>2, <3>3 DEF Reflects
      <3>5. w.answers = Answered(s, s.then.id, [k |-> "count"])
        BY <2>7, <3>1, <3>3 DEF Answered
      <3> QED BY <2>7, <2>9, <3>2, <3>3, <3>4, <3>5 DEF Resumed, SamePlace
    <2> QED BY <1>11, <2>8, <2>9
  <1> QED BY <1>10, <1>11

----------------------------------------------------------------------------
(* Document synchronisation.                                               *)

\* t is s with the text x, or None, for f; the rest is as it was.
DocHandled(s, t, f, x) ==
    /\ ServerInv(t) /\ Steady(s, t) /\ Shown(t.docs[f]) = x
    /\ \A g \in Files : g # f => t.docs[g] = s.docs[g]

\* A document that was given a text is still to be analysed.
LEMMA DocSet ==
  ASSUME NEW s, ServerInv(s), NEW f \in Files, NEW x \in Texts[f], NEW r, Shape(r), Steady(s, r),
         r.docs[f] # None, r.docs[f].text = x, r.published = s.published, r.ix = s.ix,
         \A g \in Files : g # f =>
            r.docs[g] = s.docs[g] /\ r.cache[g] = s.cache[g] /\ r.pendD[g] = s.pendD[g]
  PROVE  ServerBut(r, {f}) /\ Shown(r.docs[f]) = x
  <1>1. DocsInv(r)
    BY DEF ServerInv, ServerBut, DocsInv
  <1>2. CacheInv(r, {f}) /\ PendingInv(r, {f})
    BY DEF ServerInv, ServerBut, CacheInv, PendingInv
  <1>3. QuietInv(r)
    BY DEF ServerInv, ServerBut, QuietInv
  <1> QED BY <1>1, <1>2, <1>3 DEF ServerInv, ServerBut, Shown

\* Its analysis and publication.
LEMMA DocPublished ==
  ASSUME NEW s, NEW f \in Files, NEW x, NEW r, ServerBut(r, {f}), Steady(s, r), Shown(r.docs[f]) = x,
         \A g \in Files : g # f => r.docs[g] = s.docs[g]
  PROVE  DocHandled(s, AnalyzeAndPublish(r, f), f, x)
  <1>1. PICK t : t = AnalyzeAndPublish(r, f)
    OBVIOUS
  <1>2. ServerBut(t, {f} \ {f}) /\ Keeps(r, t)
    BY <1>1, PublishKeeps
  <1>3. ServerInv(t)
    <2>1. {f} \ {f} = {}
      OBVIOUS
    <2> QED BY <1>2, <2>1 DEF ServerInv
  <1> QED BY <1>1, <1>2, <1>3 DEF DocHandled, Keeps, Steady

\* Its analysis, publication and entry in the index.
LEMMA DocIndexed ==
  ASSUME NEW s, NEW f \in Files, NEW x, NEW r, ServerBut(r, {f}), Steady(s, r), Shown(r.docs[f]) = x,
         \A g \in Files : g # f => r.docs[g] = s.docs[g]
  PROVE  DocHandled(s, PublishAndIndex(r, f), f, x)
  <1>1. PICK t : t = AnalyzeAndPublish(r, f)
    OBVIOUS
  <1>2. DocHandled(s, t, f, x)
    BY <1>1, DocPublished
  <1>3. PICK u, F : u = UpdateIndexForOpenDocs(t, F) /\ F = {f}
    OBVIOUS
  <1>4. ServerInv(u) /\ Keeps(t, u)
    <2>1. ServerInv(t) /\ F \subseteq Files
      BY <1>2, <1>3 DEF DocHandled
    <2> QED BY <1>3, <2>1, UpdateIndexKeeps
  <1>5. PublishAndIndex(r, f) = u
    BY <1>1, <1>3 DEF PublishAndIndex
  <1> QED BY <1>2, <1>4, <1>5 DEF DocHandled, Keeps, Steady

\* didOpen.
LEMMA DidOpenHandled ==
  ASSUME NEW s, ServerInv(s), NEW f \in Files, NEW x \in Texts[f]
  PROVE  DocHandled(s, HandleDidOpen(s, f, x), f, x)
  <1>1. PICK r : r = [s EXCEPT !.docs[f] = Open(@, x)]
    OBVIOUS
  <1>2. PICK d : d = [text |-> x, version |-> 1]
    OBVIOUS
  <1>3. d # None /\ d.text = x
    BY <1>2, NotNone
  <1>4. /\ Shape(r) /\ Steady(s, r) /\ r.docs[f] = d /\ r.published = s.published /\ r.ix = s.ix
        /\ r.cache = s.cache /\ r.pendD = s.pendD
        /\ \A g \in Files : g # f => r.docs[g] = s.docs[g]
    BY <1>1, <1>2 DEF ServerInv, ServerBut, Shape, Fields, Steady, Open
  <1>5. ServerBut(r, {f}) /\ Shown(r.docs[f]) = x
    BY <1>3, <1>4, DocSet
  <1>6. DocHandled(s, PublishAndIndex(r, f), f, x)
    BY <1>4, <1>5, DocIndexed
  <1> QED BY <1>1, <1>6 DEF HandleDidOpen

\* A document that is changed has a text.
LEMMA ChangeText ==
  ASSUME NEW d, NEW x
  PROVE  Change(d, x) # None /\ Change(d, x).text = x
  <1>1. PICK v : v = IF d = None THEN 1 ELSE d.version + 1
    OBVIOUS
  <1>2. Change(d, x) = [text |-> x, version |-> v]
    BY <1>1 DEF Change
  <1> QED BY <1>2, NotNone

\* didChange, with and without debouncing.
LEMMA DidChangeHandled ==
  ASSUME NEW s, ServerInv(s), NEW f \in Files, NEW x \in Texts[f]
  PROVE  DocHandled(s, HandleDidChange(s, f, x), f, x)
  <1>1. PICK r : r = Changed(s, f, x)
    OBVIOUS
  <1>2. PICK d : d = Change(s.docs[f], x)
    OBVIOUS
  <1>3. d # None /\ d.text = x
    BY <1>2, ChangeText
  <1>4. /\ Shape(r) /\ Steady(s, r) /\ r.docs[f] = d /\ r.published = s.published /\ r.ix = s.ix
        /\ r.pendD = s.pendD /\ r.cache[f] = None
        /\ \A g \in Files : g # f => r.docs[g] = s.docs[g] /\ r.cache[g] = s.cache[g]
    BY <1>1, <1>2 DEF ServerInv, ServerBut, Shape, Fields, Steady, Changed
  <1>5. ServerBut(r, {f}) /\ Shown(r.docs[f]) = x
    BY <1>3, <1>4, DocSet
  <1>6. CASE s.debounce = 0
    <2>1. PICK t : t = PublishAndIndex(r, f)
      OBVIOUS
    <2>2. DocHandled(s, t, f, x)
      BY <1>4, <1>5, <2>1, DocIndexed
    <2>3. PICK u : u = Rebuild(t)
      OBVIOUS
    <2>4. ServerInv(u) /\ Keeps(t, u)
      <3>1. ServerInv(t)
        BY <2>2 DEF DocHandled
      <3> QED BY <2>3, <3>1, RebuildKeeps
    <2>5. HandleDidChange(s, f, x) = u
      BY <1>1, <1>6, <2>1, <2>3 DEF HandleDidChange
    <2> QED BY <2>2, <2>4, <2>5 DEF DocHandled, Keeps, Steady
  <1>7. CASE s.debounce # 0
    <2>1. PICK t : t = [r EXCEPT !.pendD[f] = 0, !.pendI[f] = 0]
      OBVIOUS
    <2>2. HandleDidChange(s, f, x) = t
      BY <1>1, <1>7, <2>1 DEF HandleDidChange
    <2>3. /\ Shape(t) /\ Steady(r, t) /\ t.docs = r.docs /\ t.cache = r.cache
          /\ t.published = r.published /\ t.ix = r.ix /\ t.pendD[f] = 0
          /\ \A g \in Files : g # f => t.pendD[g] = r.pendD[g]
      BY <1>4, <2>1 DEF Shape, Fields, Steady
    <2>4. ServerInv(t)
      <3>1. CacheInv(t, {})
        BY <1>4, <1>5, <2>3 DEF ServerBut, CacheInv
      <3>2. PendingInv(t, {})
        BY <1>5, <2>3 DEF ServerBut, PendingInv, NotPending
      <3> QED BY <1>5, <2>3, <3>1, <3>2 DEF ServerInv, ServerBut, DocsInv, QuietInv
    <2> QED BY <1>4, <1>5, <2>2, <2>3, <2>4 DEF DocHandled, Steady
  <1> QED BY <1>6, <1>7

\* didClose.
LEMMA DidCloseHandled ==
  ASSUME NEW s, ServerInv(s), NEW f \in Files
  PROVE  DocHandled(s, HandleDidClose(s, f), f, None)
  <1>1. PICK t : t = HandleDidClose(s, f)
    OBVIOUS
  <1>2. /\ Shape(t) /\ Steady(s, t) /\ t.docs[f] = None /\ t.published[f] = NoDiagnostics
        /\ t.ix = s.ix /\ t.cache = s.cache
        /\ \A g \in Files : g # f => /\ t.docs[g] = s.docs[g] /\ t.published[g] = s.published[g]
                                     /\ t.pendD[g] = s.pendD[g]
    BY <1>1 DEF HandleDidClose, ServerInv, ServerBut, Shape, Fields, Steady
  <1>3. ServerInv(t)
    BY <1>2 DEF ServerInv, ServerBut, DocsInv, CacheInv, PendingInv, QuietInv
  <1> QED BY <1>1, <1>2, <1>3 DEF DocHandled, Shown

\* didSave: the file on disk goes into the index, then the document is
\* analysed and published.
LEMMA DidSaveHandled ==
  ASSUME ClientInv, NEW s, ServerInv(s), NEW f \in Files, NEW x \in Texts[f]
  PROVE  DocHandled(s, HandleDidSave(s, f, x), f, x)
  <1>1. PICK r : r = Saving(s, f, x)
    OBVIOUS
  <1>2. PICK d : d = Change(s.docs[f], x)
    OBVIOUS
  <1>3. d # None /\ d.text = x
    BY <1>2, ChangeText
  <1>4. /\ Shape(r) /\ Steady(s, r) /\ r.docs[f] = d /\ r.published = s.published /\ r.ix = s.ix
        /\ r.cache = s.cache
        /\ \A g \in Files : g # f => r.docs[g] = s.docs[g] /\ r.pendD[g] = s.pendD[g]
    BY <1>1, <1>2 DEF ServerInv, ServerBut, Shape, Fields, Steady, Saving, GetProjectContext
  <1>5. ServerBut(r, {f}) /\ Shown(r.docs[f]) = x
    BY <1>3, <1>4, DocSet
  <1>6. PICK i : i = IndexFile(r.ix, f, r.defCache, disk)
    OBVIOUS
  <1>7. IndexInv(i.ix)
    BY <1>5, <1>6, IndexFileKeeps DEF ServerBut
  <1>8. PICK t : t = WithIndex(r, i)
    OBVIOUS
  <1>9. ServerBut(t, {f}) /\ Keeps(r, t)
    BY <1>5, <1>7, <1>8, WithIndexKeeps
  <1>10. DocHandled(s, AnalyzeAndPublish(t, f), f, x)
    <2>1. Steady(s, t) /\ Shown(t.docs[f]) = x /\ \A g \in Files : g # f => t.docs[g] = s.docs[g]
      BY <1>4, <1>5, <1>9 DEF Keeps, Steady
    <2> QED BY <1>9, <2>1, DocPublished
  <1> QED BY <1>1, <1>6, <1>8, <1>10 DEF HandleDidSave, IndexSaved

----------------------------------------------------------------------------
(* Requests.                                                               *)

\* a is an answer to m computed from the documents of s.
AnswerOk(s, m, a) ==
    /\ a.k = "local" => a.text = IdOf(Shown(s.docs[m.f]))
    /\ a.k = "null" /\ m.method = "local" => Shown(s.docs[m.f]) = None
    /\ a.k = "edits" => \A e \in a.edits : e.uri = m.f => e.text = IdOf(Shown(s.docs[m.f]))
    /\ a.k \in {"local", "null", "edits"} => ~s.shutdown

\* t is s with one answer to m.
Answers(s, m, t) ==
    /\ ServerInv(t) /\ SamePlace(s, t) /\ t.docs = s.docs /\ t.pc = s.pc /\ t.ready = s.ready
    /\ \E a : t.answers = Answered(s, m.id, a) /\ AnswerOk(s, m, a)

\* An answer is sent after work on cache and index.
LEMMA AnswerSent ==
  ASSUME NEW s, NEW m, NEW u, ServerInv(u), Keeps(s, u), NEW a, AnswerOk(s, m, a)
  PROVE  Answers(s, m, Respond(u, m.id, a))
  <1>1. PICK i, t : i = m.id /\ t = Respond(u, i, a)
    OBVIOUS
  <1>2. /\ ServerInv(t) /\ SamePlace(u, t) /\ t.docs = u.docs /\ t.pc = u.pc
        /\ t.ready = u.ready /\ t.answers = Answered(u, i, a)
    BY <1>1, RespondKeeps
  <1>3. t.answers = Answered(s, m.id, a)
    BY <1>1, <1>2 DEF Answered, Keeps, Steady
  <1> QED BY <1>1, <1>2, <1>3 DEF Answers, SamePlace, Keeps, Steady

\* An open document holds a text, of which the analysis is.
LEMMA OpenText ==
  ASSUME NEW s, ServerInv(s), NEW f \in Files, s.docs[f] # None
  PROVE  /\ Shown(s.docs[f]) = s.docs[f].text /\ IdOf(Shown(s.docs[f])) = s.docs[f].text.id
         /\ s.cache[f] # None => s.cache[f].res.text.id = s.docs[f].text.id
  <1>1. s.docs[f].text \in Texts[f]
    BY DEF ServerInv, ServerBut, DocsInv
  <1>2. s.docs[f].text # None
    BY <1>1, TextsAssumption
  <1>3. s.cache[f] # None => s.cache[f].res.text = s.docs[f].text
    BY DEF ServerInv, ServerBut, CacheInv
  <1> QED BY <1>2, <1>3 DEF Shown, IdOf

\* get_analysis for a request.
LEMMA RequestAnalysis ==
  ASSUME NEW s, ServerInv(s), NEW f \in Files
  PROVE  LET u == GetAnalysis(s, f) IN
         /\ ServerInv(u) /\ Keeps(s, u)
         /\ s.docs[f] # None => u.cache[f].res.text.id = IdOf(Shown(s.docs[f]))
  <1>1. PICK u, F : u = GetAnalysis(s, f) /\ F = {}
    OBVIOUS
  <1>2. /\ ServerBut(u, F \ {f}) /\ Keeps(s, u)
        /\ s.docs[f] # None => u.cache[f] # None
    BY <1>1, GetAnalysisKeeps DEF ServerInv
  <1>3. ServerInv(u)
    <2>1. F \ {f} = {}
      BY <1>1
    <2> QED BY <1>2, <2>1 DEF ServerInv
  <1>4. ASSUME s.docs[f] # None PROVE u.cache[f].res.text.id = IdOf(Shown(s.docs[f]))
    <2>1. u.docs[f] # None /\ u.docs[f] = s.docs[f] /\ u.cache[f] # None
      BY <1>2, <1>4 DEF Keeps
    <2> QED BY <1>3, <2>1, OpenText
  <1> QED BY <1>1, <1>2, <1>3, <1>4

\* Positions in the document itself come from its analysis.
LEMMA EditsFresh ==
  ASSUME NEW u, NEW f, NEW x, u.cache[f].res.text.id = x, NEW e \in AllRefs(u, f), e.uri = f
  PROVE  e.text = x
  BY DEF AllRefs

\* Answers with the references of the identity asked about.
LEMMA ReferencesAnswered ==
  ASSUME NEW s, NEW m, m.f \in Files, ~s.shutdown, NEW u, ServerInv(u), Keeps(s, u),
         u.cache[m.f].res.text.id = IdOf(Shown(s.docs[m.f]))
  PROVE  Answers(s, m, RespondEdits(Rebuild(u), m.id, m.f))
  <1>1. PICK v : v = Rebuild(u)
    OBVIOUS
  <1>2. ServerInv(v) /\ Keeps(u, v) /\ v.cache = u.cache
    BY <1>1, RebuildKeeps
  <1>3. PICK a : a = [k |-> "edits", edits |-> AllRefs(v, m.f)]
    OBVIOUS
  <1>4. a.k = "edits" /\ a.edits = AllRefs(v, m.f)
    BY <1>3
  <1>5. \A e \in AllRefs(v, m.f) : e.uri = m.f => e.text = IdOf(Shown(s.docs[m.f]))
    <2>1. PICK f, x : f = m.f /\ x = IdOf(Shown(s.docs[m.f]))
      OBVIOUS
    <2>2. v.cache[f].res.text.id = x
      BY <1>2, <2>1
    <2> QED BY <2>1, <2>2, EditsFresh
  <1>6. AnswerOk(s, m, a)
    BY <1>4, <1>5 DEF AnswerOk
  <1>7. Keeps(s, v)
    BY <1>2 DEF Keeps, Steady
  <1>8. Answers(s, m, Respond(v, m.id, a))
    BY <1>2, <1>6, <1>7, AnswerSent
  <1> QED BY <1>1, <1>3, <1>8 DEF RespondEdits

\* Requests other than a reindex get one answer, from the documents as they
\* are when the request is handled.
LEMMA RequestAnswered ==
  ASSUME NEW s, ServerInv(s), ~s.shutdown, NEW m, m.f \in Files,
         m.method \in Methods, m.method # "reindex"
  PROVE  Answers(s, m, HandleRequest(s, m))
  <1>1. PICK f, id : f = m.f /\ id = m.id
    OBVIOUS
  <1>2. PICK u : u = GetAnalysis(s, f)
    OBVIOUS
  <1>3. /\ ServerInv(u) /\ Keeps(s, u)
        /\ s.docs[f] # None => u.cache[f].res.text.id = IdOf(Shown(s.docs[f]))
    BY <1>1, <1>2, RequestAnalysis
  <1>4. Keeps(s, s)
    BY DEF Keeps, Steady
  <1>5. CASE m.method = "local"
    <2>1. HandleRequest(s, m) = IF s.docs[f] = None THEN Respond(s, m.id, Null) ELSE AnswerLocal(u, m.id, f)
      BY <1>1, <1>2, <1>5 DEF HandleRequest, HandleLocal
    <2>2. CASE s.docs[f] = None
      <3>1. AnswerOk(s, m, Null)
        BY <1>1, <2>2 DEF AnswerOk, Null, Shown
      <3> QED BY <1>4, <2>1, <2>2, <3>1, AnswerSent
    <2>3. CASE s.docs[f] # None
      <3>1. PICK a : a = [k |-> "local", text |-> u.cache[f].res.text.id]
        OBVIOUS
      <3>2. AnswerOk(s, m, a)
        BY <1>1, <1>3, <2>3, <3>1 DEF AnswerOk
      <3>3. Answers(s, m, Respond(u, m.id, a))
        BY <1>3, <3>2, AnswerSent
      <3> QED BY <2>1, <2>3, <3>1, <3>3 DEF AnswerLocal
    <2> QED BY <2>2, <2>3
  <1>6. CASE m.method = "rename"
    <2>1. HandleRequest(s, m) = IF s.docs[f] = None THEN Respond(s, m.id, Null) ELSE AnswerRename(u, m.id, m.f)
      BY <1>1, <1>2, <1>6 DEF HandleRequest, HandleRename
    <2>2. AnswerOk(s, m, Null)
      BY <1>6 DEF AnswerOk, Null
    <2>3. Answers(s, m, Respond(s, m.id, Null)) /\ Answers(s, m, Respond(u, m.id, Null))
      BY <1>3, <1>4, <2>2, AnswerSent
    <2>4. s.docs[f] # None => Answers(s, m, RespondEdits(Rebuild(u), m.id, m.f))
      BY <1>1, <1>3, ReferencesAnswered
    <2> QED BY <2>1, <2>3, <2>4 DEF AnswerRename
  <1>7. CASE m.method = "references"
    <2>1. HandleRequest(s, m) = IF s.docs[f] = None THEN Respond(s, m.id, NoEdits)
                                ELSE AnswerReferences(u, m.id, m.f)
      BY <1>1, <1>2, <1>7 DEF HandleRequest, HandleReferences
    <2>2. AnswerOk(s, m, NoEdits)
      BY <1>7 DEF AnswerOk, NoEdits
    <2>3. Answers(s, m, Respond(s, m.id, NoEdits)) /\ Answers(s, m, Respond(u, m.id, NoEdits))
      BY <1>3, <1>4, <2>2, AnswerSent
    <2>4. s.docs[f] # None => Answers(s, m, RespondEdits(Rebuild(u), m.id, m.f))
      BY <1>1, <1>3, ReferencesAnswered
    <2> QED BY <2>1, <2>3, <2>4 DEF AnswerReferences
  <1>8. PICK v : v = Rebuild(s)
    OBVIOUS
  <1>9. ServerInv(v) /\ Keeps(s, v)
    BY <1>8, RebuildKeeps
  <1>10. PICK w : w = GetAnalysis(v, f)
    OBVIOUS
  <1>11. ServerInv(w) /\ Keeps(s, w)
    <2>1. ServerInv(w) /\ Keeps(v, w)
      BY <1>1, <1>9, <1>10, RequestAnalysis
    <2> QED BY <1>9, <2>1 DEF Keeps, Steady
  <1>12. ASSUME NEW c PROVE AnswerOk(s, m, [k |-> "symbols", found |-> c]) /\ AnswerOk(s, m, [k |-> "calls", calls |-> c])
    BY DEF AnswerOk
  <1>13. CASE m.method = "workspaceSymbol"
    <2>1. PICK c : c = Search(v.ix)
      OBVIOUS
    <2>2. PICK a : a = [k |-> "symbols", found |-> c]
      OBVIOUS
    <2>3. Answers(s, m, Respond(v, m.id, a))
      BY <1>9, <1>12, <2>2, AnswerSent
    <2>4. HandleRequest(s, m) = Respond(v, m.id, a)
      BY <1>8, <1>13, <2>1, <2>2 DEF HandleRequest, HandleWorkspaceSymbol, AnswerSymbols
    <2> QED BY <2>3, <2>4
  <1>14. CASE m.method = "incomingCalls"
    <2>1. PICK c : c = IncomingCallsWs(w.ix, Key, OwnAnalysis(w, f), f)
      OBVIOUS
    <2>2. PICK a : a = [k |-> "calls", calls |-> c]
      OBVIOUS
    <2>3. Answers(s, m, Respond(w, m.id, a))
      BY <1>11, <1>12, <2>2, AnswerSent
    <2>4. HandleRequest(s, m) = Respond(w, m.id, a)
      BY <1>1, <1>8, <1>10, <1>14, <2>1, <2>2 DEF HandleRequest, HandleIncomingCalls, AnswerIncoming
    <2> QED BY <2>3, <2>4
  <1>15. CASE m.method = "outgoingCalls"
    <2>1. PICK c : c = OutgoingCallsWs(w.ix, Key, OwnAnalysis(w, f), f)
      OBVIOUS
    <2>2. PICK a : a = [k |-> "calls", calls |-> c]
      OBVIOUS
    <2>3. Answers(s, m, Respond(w, m.id, a))
      BY <1>11, <1>12, <2>2, AnswerSent
    <2>4. HandleRequest(s, m) = Respond(w, m.id, a)
      BY <1>1, <1>8, <1>10, <1>15, <2>1, <2>2 DEF HandleRequest, HandleOutgoingCalls, AnswerOutgoing
    <2> QED BY <2>3, <2>4
  <1> QED BY <1>5, <1>6, <1>7, <1>13, <1>14, <1>15 DEF Methods

----------------------------------------------------------------------------
(* Dispatch.                                                               *)

\* What the messages carry.
LEMMA MessageFields ==
  ASSUME NEW m \in Message
  PROVE  /\ m.m \in {"initialize", "initialized", "saveManifest", "shutdown", "exit", "reply", "tick",
                     "closed", "cancel", "didOpen", "didChange", "didSave", "didClose", "request"}
         /\ m.m = "initialize" => m.debounce \in Nat
         /\ m.m \in {"didOpen", "didChange", "didSave"} => m.f \in Files /\ m.text \in Texts[m.f]
         /\ m.m = "didClose" => m.f \in Files
         /\ m.m = "request" => m.id \in Ids /\ m.f \in Files /\ m.method \in Methods
  <1>1. CASE m \in [m : {"initialize"}, progress : BOOLEAN, debounce : Nat, indexDebounce : Nat]
    BY <1>1
  <1>2. CASE m \in [m : {"initialized", "saveManifest", "shutdown", "exit", "reply", "tick", "closed"}]
    BY <1>2
  <1>3. CASE m \in [m : {"cancel"}, id : Ids]
    BY <1>3
  <1>4. CASE m \in UNION {[m : {"didOpen", "didChange", "didSave"}, f : {f}, text : Texts[f]] : f \in Files}
    <2>1. PICK f \in Files : m \in [m : {"didOpen", "didChange", "didSave"}, f : {f}, text : Texts[f]]
      BY <1>4
    <2> QED BY <2>1
  <1>5. CASE m \in [m : {"didClose"}, f : Files]
    BY <1>5
  <1>6. CASE m \in [m : {"request"}, id : Ids, method : Methods, f : Files]
    BY <1>6
  <1> QED BY <1>1, <1>2, <1>3, <1>4, <1>5, <1>6 DEF Message

\* What the messages that are sent are.
LEMMA MessageMade ==
  /\ \A x \in {"initialized", "saveManifest", "shutdown", "exit", "reply", "tick", "closed"} :
        [m |-> x] \in Message /\ [m |-> x].m = x
  /\ \A id \in Ids : [m |-> "cancel", id |-> id] \in Message
  /\ \A f \in Files : \A t \in Texts[f] :
        \A x \in {"didOpen", "didChange", "didSave"} : [m |-> x, f |-> f, text |-> t] \in Message
  /\ \A f \in Files : [m |-> "didClose", f |-> f] \in Message
  /\ \A id \in Ids, x \in Methods, f \in Files :
        [m |-> "request", id |-> id, method |-> x, f |-> f] \in Message
  <1>1. ASSUME NEW f \in Files, NEW t \in Texts[f], NEW x \in {"didOpen", "didChange", "didSave"}
        PROVE  [m |-> x, f |-> f, text |-> t] \in Message
    <2>1. [m |-> x, f |-> f, text |-> t]
             \in [m : {"didOpen", "didChange", "didSave"}, f : {f}, text : Texts[f]]
      OBVIOUS
    <2> QED BY <2>1 DEF Message
  <1> QED BY <1>1 DEF Message

\* The answers after m is dispatched: one to a request, from the documents as
\* they are now, unless it has to wait for an indexing run.
AnswersTo(s, m, t) ==
    \/ /\ m.m = "request" /\ t.pc # "wait"
       /\ \E a : t.answers = Answered(s, m.id, a) /\ AnswerOk(s, m, a)
    \/ m.m = "request" /\ t.answers = s.answers /\ t.pc = "wait" /\ t.then = [op |-> "reindex", id |-> m.id]
    \/ m.m # "request" /\ t.answers = s.answers /\ (t.pc = "wait" => t.then.op # "reindex")

\* t comes after the dispatch of m in s.
Dispatches(s, m, t) ==
    /\ ServerInv(t) /\ WaitOk(t)
    /\ t.at = s.at /\ t.batch = s.batch /\ t.buffered = s.buffered
    /\ s.shutdown => t.shutdown
    /\ \A f \in Files : ~DocMessage(m, f) => t.docs[f] = s.docs[f]
    /\ ~s.shutdown => \A f \in Files : DocMessage(m, f) => Shown(t.docs[f]) = Carried(m)
    /\ AnswersTo(s, m, t)

\* A message about a document.
LEMMA DocDispatched ==
  ASSUME NEW s, ServerInv(s), s.pc = "run", NEW m, NEW f \in Files, NEW t,
         m.m \in {"didOpen", "didChange", "didSave", "didClose"}, m.f = f,
         DocHandled(s, t, f, Carried(m))
  PROVE  Dispatches(s, m, t) /\ t.ready = s.ready
  <1>1. t.pc = "run" /\ t.answers = s.answers /\ WaitOk(t)
    BY DEF DocHandled, Steady, WaitOk
  <1>2. AnswersTo(s, m, t)
    BY <1>1 DEF AnswersTo
  <1>3. \A g \in Files : DocMessage(m, g) <=> g = f
    BY DEF DocMessage
  <1> QED BY <1>1, <1>2, <1>3 DEF Dispatches, DocHandled, Steady

\* A message that changes neither documents nor cache.
LEMMA OtherDispatched ==
  ASSUME NEW s, ServerInv(s), NEW m, \A f \in Files : ~DocMessage(m, f), NEW t, ServerInv(t), WaitOk(t),
         t.at = s.at, t.batch = s.batch, t.buffered = s.buffered, s.shutdown => t.shutdown,
         t.docs = s.docs, AnswersTo(s, m, t)
  PROVE  Dispatches(s, m, t)
  BY DEF Dispatches

\* Fields the invariant does not speak of may change.
LEMMA OtherFields ==
  ASSUME NEW s, ServerInv(s), NEW t, Shape(t), t.docs = s.docs, t.cache = s.cache, t.ix = s.ix,
         t.pendD = s.pendD, t.published = s.published
  PROVE  ServerInv(t)
  BY DEF ServerInv, ServerBut, DocsInv, CacheInv, PendingInv, QuietInv

\* A cleared index.
LEMMA NewIndexOk == IndexInv(NewIndex)
  <1>1. /\ NewIndex.dirty = FALSE /\ DOMAIN NewIndex = {"files", "view", "dirty"}
        /\ DOMAIN NewIndex.files = Files
        /\ \A f \in Files : NewIndex.files[f] = None /\ NewIndex.view[f] = None
    BY DEF NewIndex
  <1> QED BY <1>1 DEF IndexInv, Visible

\* progress_begin.
LEMMA ProgressBegins ==
  ASSUME NEW s, ServerInv(s), NEW x
  PROVE  LET t == ProgressBegin(s, x) IN
         /\ ServerInv(t) /\ SamePlace(s, t) /\ t.docs = s.docs /\ t.pc = "wait" /\ t.then = x
         /\ t.ready = s.ready /\ t.answers = s.answers
  <1>1. PICK t : t = ProgressBegin(s, x)
    OBVIOUS
  <1>2. /\ Shape(t) /\ SamePlace(s, t) /\ t.docs = s.docs /\ t.pc = "wait" /\ t.then = x
        /\ t.ready = s.ready /\ t.answers = s.answers /\ t.cache = s.cache /\ t.ix = s.ix
        /\ t.pendD = s.pendD /\ t.published = s.published
    BY <1>1 DEF ProgressBegin, SamePlace, ServerInv, ServerBut, Shape, Fields
  <1>3. ServerInv(t)
    BY <1>2, OtherFields
  <1> QED BY <1>1, <1>2, <1>3

\* Saving a manifest: the analyses are dropped and made again.
LEMMA ManifestSaved ==
  ASSUME NEW s, ServerInv(s)
  PROVE  LET t == HandleSaveManifest(s) IN
         /\ ServerInv(t) /\ SamePlace(s, t) /\ t.docs = s.docs /\ t.pc = "wait"
         /\ t.then = [op |-> "manifest"] /\ t.ready = s.ready /\ t.answers = s.answers
  <1>1. PICK r : r = [s EXCEPT !.ctx = NoContext, !.cache = [f \in Files |-> None]]
    OBVIOUS
  <1>2. PICK fs : fs = OpenDocs(s)
    OBVIOUS
  <1>3. fs \subseteq Files /\ \A f \in Files : f \in fs <=> s.docs[f] # None
    BY <1>2 DEF OpenDocs
  <1>4. /\ Shape(r) /\ Steady(s, r) /\ r.docs = s.docs /\ r.ix = s.ix /\ r.published = s.published
        /\ r.pendD = s.pendD /\ \A f \in Files : r.cache[f] = None
    BY <1>1 DEF ServerInv, ServerBut, Shape, Fields, Steady
  <1>5. ServerBut(r, fs)
    BY <1>3, <1>4 DEF ServerInv, ServerBut, DocsInv, CacheInv, PendingInv, QuietInv
  <1>6. PICK u : u = AnalyzeAndPublishAll(r, fs)
    OBVIOUS
  <1>7. ServerInv(u) /\ Keeps(r, u)
    BY <1>3, <1>5, <1>6, PublishAllKeeps
  <1>8. PICK t, x : t = ProgressBegin(u, x) /\ x = [op |-> "manifest"]
    OBVIOUS
  <1>9. /\ ServerInv(t) /\ SamePlace(u, t) /\ t.docs = u.docs /\ t.pc = "wait" /\ t.then = x
        /\ t.ready = u.ready /\ t.answers = u.answers
    BY <1>7, <1>8, ProgressBegins
  <1>10. HandleSaveManifest(s) = t
    BY <1>1, <1>2, <1>6, <1>8 DEF HandleSaveManifest
  <1> QED BY <1>4, <1>7, <1>8, <1>9, <1>10 DEF Keeps, Steady, SamePlace

\* A forced reindex clears the index and waits.
LEMMA ReindexStarted ==
  ASSUME NEW s, ServerInv(s), NEW id
  PROVE  LET t == HandleReindex(s, id) IN
         /\ ServerInv(t) /\ SamePlace(s, t) /\ t.docs = s.docs /\ t.pc = "wait"
         /\ t.then = [op |-> "reindex", id |-> id] /\ t.ready = s.ready /\ t.answers = s.answers
  <1>1. PICK r : r = [s EXCEPT !.ix = NewIndex]
    OBVIOUS
  <1>2. /\ Shape(r) /\ Steady(s, r) /\ r.docs = s.docs /\ r.ix = NewIndex /\ r.published = s.published
        /\ r.pendD = s.pendD /\ r.cache = s.cache
    BY <1>1 DEF ServerInv, ServerBut, Shape, Fields, Steady
  <1>3. ServerInv(r)
    BY <1>2, NewIndexOk DEF ServerInv, ServerBut, DocsInv, CacheInv, PendingInv, QuietInv
  <1>4. PICK t, x : t = ProgressBegin(r, x) /\ x = [op |-> "reindex", id |-> id]
    OBVIOUS
  <1>5. /\ ServerInv(t) /\ SamePlace(r, t) /\ t.docs = r.docs /\ t.pc = "wait" /\ t.then = x
        /\ t.ready = r.ready /\ t.answers = r.answers
    BY <1>3, <1>4, ProgressBegins
  <1>6. HandleReindex(s, id) = t
    BY <1>1, <1>4 DEF HandleReindex, ForceClear
  <1> QED BY <1>2, <1>4, <1>5, <1>6 DEF Steady, SamePlace

\* A request is answered or starts an indexing run.
LEMMA RequestDispatched ==
  ASSUME NEW s, ServerInv(s), s.pc = "run", ~s.shutdown, NEW m \in Message, m.m = "request"
  PROVE  Dispatches(s, m, DispatchRequest(s, m)) /\ DispatchRequest(s, m).ready = s.ready
  <1>1. PICK t : t = DispatchRequest(s, m)
    OBVIOUS
  <1>2. m.id \in Ids /\ m.f \in Files /\ m.method \in Methods
    BY MessageFields
  <1>3. \A f \in Files : ~DocMessage(m, f)
    BY DEF DocMessage
  <1>4. CASE IsCanceled(s, m.id)
    <2>1. PICK a, u : a = [k |-> "cancelled"] /\ u = Respond(s, m.id, a)
      OBVIOUS
    <2>2. AnswerOk(s, m, a) /\ Keeps(s, s)
      BY <2>1 DEF AnswerOk, Keeps, Steady
    <2>3. Answers(s, m, u)
      BY <2>1, <2>2, AnswerSent
    <2>4. t = [u EXCEPT !.canceled = @ \ {m.id}]
      BY <1>1, <1>4, <2>1 DEF DispatchRequest, RetireCancel
    <2>5. ServerInv(u)
      BY <2>3 DEF Answers
    <2>6. /\ Shape(t) /\ SamePlace(u, t) /\ t.docs = u.docs /\ t.cache = u.cache /\ t.ix = u.ix
          /\ t.pendD = u.pendD /\ t.published = u.published /\ t.pc = u.pc /\ t.ready = u.ready
          /\ t.answers = u.answers
      BY <2>4, <2>5 DEF ServerInv, ServerBut, Shape, Fields, SamePlace
    <2>7. ServerInv(t)
      BY <2>5, <2>6, OtherFields
    <2>8. AnswersTo(s, m, t) /\ t.pc = "run" /\ WaitOk(t)
      BY <2>3, <2>6 DEF AnswersTo, Answers, WaitOk
    <2> QED BY <1>1, <1>3, <2>3, <2>6, <2>7, <2>8, OtherDispatched DEF Answers, SamePlace
  <1>5. CASE ~IsCanceled(s, m.id) /\ m.method # "reindex"
    <2>1. t = HandleRequest(s, m)
      BY <1>1, <1>5 DEF DispatchRequest
    <2>2. Answers(s, m, t)
      BY <1>2, <1>5, <2>1, RequestAnswered
    <2>3. AnswersTo(s, m, t) /\ t.pc = "run" /\ WaitOk(t)
      BY <2>2 DEF AnswersTo, Answers, WaitOk
    <2> QED BY <1>1, <1>3, <2>2, <2>3, OtherDispatched DEF Answers, SamePlace
  <1>6. CASE ~IsCanceled(s, m.id) /\ m.method = "reindex"
    <2>1. PICK id : id = m.id
      OBVIOUS
    <2>2. t = HandleReindex(s, id)
      BY <1>1, <1>6, <2>1 DEF DispatchRequest, HandleRequest
    <2>3. /\ ServerInv(t) /\ SamePlace(s, t) /\ t.docs = s.docs /\ t.pc = "wait"
          /\ t.then = [op |-> "reindex", id |-> id] /\ t.ready = s.ready /\ t.answers = s.answers
      BY <2>2, ReindexStarted
    <2>4. AnswersTo(s, m, t) /\ WaitOk(t)
      BY <1>6, <2>1, <2>3 DEF AnswersTo, WaitOk
    <2> QED BY <1>1, <1>3, <2>3, <2>4, OtherDispatched DEF SamePlace
  <1> QED BY <1>4, <1>5, <1>6

\* Every message, before the wait of a client without progress is skipped.
LEMMA DispatchedOk ==
  ASSUME ClientInv, NEW s, ServerInv(s), s.pc = "run", NEW m \in Dispatchable
  PROVE  Dispatches(s, m, Dispatched(s, m)) /\ Dispatched(s, m).ready = s.ready
  <1>1. PICK t : t = Dispatched(s, m)
    OBVIOUS
  <1>2. m \in Message /\ m.m \notin {"tick", "closed"}
    BY DEF Dispatchable
  <1>3. /\ m.m \in {"initialize", "initialized", "saveManifest", "shutdown", "exit", "reply",
                    "cancel", "didOpen", "didChange", "didSave", "didClose", "request"}
        /\ m.m = "initialize" => m.debounce \in Nat
        /\ m.m \in {"didOpen", "didChange", "didSave"} => m.f \in Files /\ m.text \in Texts[m.f]
        /\ m.m = "didClose" => m.f \in Files
        /\ m.m = "request" => m.id \in Ids /\ m.f \in Files /\ m.method \in Methods
    BY <1>2, MessageFields
  <1>4. m.m \notin {"didOpen", "didChange", "didSave", "didClose"} => \A f \in Files : ~DocMessage(m, f)
    BY DEF DocMessage
  \* Handlers that change only fields the invariant does not speak of.
  <1>6. ASSUME m.m \notin {"didOpen", "didChange", "didSave", "didClose", "request"},
               Shape(t), t.docs = s.docs, t.cache = s.cache, t.ix = s.ix, t.pendD = s.pendD,
               t.published = s.published, t.at = s.at, t.batch = s.batch, t.buffered = s.buffered,
               s.shutdown => t.shutdown, t.answers = s.answers, t.ready = s.ready,
               t.pc \in {"run", "exited"}
        PROVE  Dispatches(s, m, t) /\ t.ready = s.ready
    <2>1. ServerInv(t)
      BY <1>6, OtherFields
    <2>2. WaitOk(t) /\ AnswersTo(s, m, t) /\ t.pc # "wait"
      BY <1>6 DEF WaitOk, AnswersTo
    <2> QED BY <1>4, <1>6, <2>1, <2>2, OtherDispatched
  <1>7. CASE m.m = "exit"
    <2>1. t = [s EXCEPT !.pc = "exited"]
      BY <1>1, <1>7 DEF Dispatched
    <2>2. /\ Shape(t) /\ t.docs = s.docs /\ t.cache = s.cache /\ t.ix = s.ix /\ t.pendD = s.pendD
          /\ t.published = s.published /\ t.at = s.at /\ t.batch = s.batch /\ t.buffered = s.buffered
          /\ t.shutdown = s.shutdown /\ t.answers = s.answers /\ t.ready = s.ready /\ t.pc = "exited"
      BY <2>1 DEF ServerInv, ServerBut, Shape, Fields
    <2> QED BY <1>1, <1>6, <1>7, <2>2
  <1>8. CASE m.m # "exit" /\ s.shutdown
    <2>1. t = IF m.m = "request" THEN Respond(s, m.id, [k |-> "invalid"]) ELSE s
      BY <1>1, <1>8 DEF Dispatched
    <2>2. CASE m.m = "request"
      <3>1. PICK a : a = [k |-> "invalid"]
        OBVIOUS
      <3>2. AnswerOk(s, m, a) /\ Keeps(s, s)
        BY <3>1 DEF AnswerOk, Keeps, Steady
      <3>3. Answers(s, m, Respond(s, m.id, a))
        BY <3>2, AnswerSent
      <3>4. Answers(s, m, t)
        BY <2>1, <2>2, <3>1, <3>3
      <3>5. AnswersTo(s, m, t) /\ t.pc = "run" /\ WaitOk(t)
        BY <2>2, <3>4 DEF AnswersTo, Answers, WaitOk
      <3>6. \A f \in Files : ~DocMessage(m, f)
        BY <1>4, <2>2
      <3> QED BY <1>1, <3>4, <3>5, <3>6, OtherDispatched DEF Answers, SamePlace
    <2>3. CASE m.m # "request"
      <3>1. t = s
        BY <2>1, <2>3
      <3>2. AnswersTo(s, m, s) /\ WaitOk(s)
        BY <2>3 DEF AnswersTo, WaitOk
      <3> QED BY <1>1, <1>8, <3>1, <3>2 DEF Dispatches
    <2> QED BY <2>2, <2>3
  <1>9. CASE ~s.shutdown /\ m.m = "initialize"
    <2>1. t = HandleInitialize(s, m)
      BY <1>1, <1>9 DEF Dispatched
    <2>2. /\ Shape(t) /\ t.docs = s.docs /\ t.cache = s.cache /\ t.ix = s.ix /\ t.pendD = s.pendD
          /\ t.published = s.published /\ t.at = s.at /\ t.batch = s.batch /\ t.buffered = s.buffered
          /\ t.shutdown = s.shutdown /\ t.answers = s.answers /\ t.ready = s.ready /\ t.pc = s.pc
      BY <1>3, <1>9, <2>1 DEF HandleInitialize, ServerInv, ServerBut, Shape, Fields
    <2> QED BY <1>1, <1>6, <1>9, <2>2
  <1>10. CASE ~s.shutdown /\ m.m = "initialized"
    <2>1. PICK x : x = [op |-> "initial"]
      OBVIOUS
    <2>2. t = ProgressBegin(s, x)
      BY <1>1, <1>10, <2>1 DEF Dispatched
    <2>3. /\ ServerInv(t) /\ SamePlace(s, t) /\ t.docs = s.docs /\ t.pc = "wait" /\ t.then = x
          /\ t.ready = s.ready /\ t.answers = s.answers
      BY <2>2, ProgressBegins
    <2>4. AnswersTo(s, m, t) /\ WaitOk(t)
      BY <1>10, <2>1, <2>3 DEF AnswersTo, WaitOk
    <2>5. \A f \in Files : ~DocMessage(m, f)
      BY <1>4, <1>10
    <2> QED BY <1>1, <2>3, <2>4, <2>5, OtherDispatched DEF SamePlace
  <1>11. CASE ~s.shutdown /\ m.m = "shutdown"
    <2>1. t = [s EXCEPT !.shutdown = TRUE]
      BY <1>1, <1>11 DEF Dispatched
    <2>2. /\ Shape(t) /\ t.docs = s.docs /\ t.cache = s.cache /\ t.ix = s.ix /\ t.pendD = s.pendD
          /\ t.published = s.published /\ t.at = s.at /\ t.batch = s.batch /\ t.buffered = s.buffered
          /\ t.answers = s.answers /\ t.ready = s.ready /\ t.pc = s.pc
      BY <2>1 DEF ServerInv, ServerBut, Shape, Fields
    <2> QED BY <1>1, <1>6, <1>11, <2>2
  <1>12. CASE ~s.shutdown /\ m.m = "cancel"
    <2>1. t = [s EXCEPT !.canceled = @ \cup {m.id}]
      BY <1>1, <1>12 DEF Dispatched
    <2>2. /\ Shape(t) /\ t.docs = s.docs /\ t.cache = s.cache /\ t.ix = s.ix /\ t.pendD = s.pendD
          /\ t.published = s.published /\ t.at = s.at /\ t.batch = s.batch /\ t.buffered = s.buffered
          /\ t.shutdown = s.shutdown /\ t.answers = s.answers /\ t.ready = s.ready /\ t.pc = s.pc
      BY <2>1 DEF ServerInv, ServerBut, Shape, Fields
    <2> QED BY <1>1, <1>6, <1>12, <2>2
  <1>13. CASE ~s.shutdown /\ m.m = "reply"
    <2>1. t = s
      BY <1>1, <1>13 DEF Dispatched
    <2> QED BY <1>1, <1>6, <1>13, <2>1 DEF ServerInv, ServerBut
  <1>14. CASE ~s.shutdown /\ m.m = "saveManifest"
    <2>1. t = HandleSaveManifest(s)
      BY <1>1, <1>14 DEF Dispatched
    <2>2. /\ ServerInv(t) /\ SamePlace(s, t) /\ t.docs = s.docs /\ t.pc = "wait"
          /\ t.then = [op |-> "manifest"] /\ t.ready = s.ready /\ t.answers = s.answers
      BY <2>1, ManifestSaved
    <2>3. AnswersTo(s, m, t) /\ WaitOk(t)
      BY <1>14, <2>2 DEF AnswersTo, WaitOk
    <2>4. \A f \in Files : ~DocMessage(m, f)
      BY <1>4, <1>14
    <2> QED BY <1>1, <2>2, <2>3, <2>4, OtherDispatched DEF SamePlace
  <1>15. CASE ~s.shutdown /\ m.m = "request"
    <2>1. t = DispatchRequest(s, m)
      BY <1>1, <1>15 DEF Dispatched
    <2> QED BY <1>1, <1>2, <1>15, <2>1, RequestDispatched
  <1>16. CASE ~s.shutdown /\ m.m \in {"didOpen", "didChange", "didSave", "didClose"}
    <2>1. PICK f, x : f = m.f /\ x = Carried(m)
      OBVIOUS
    <2>2. f \in Files /\ (m.m # "didClose" => x = m.text /\ x \in Texts[f]) /\ (m.m = "didClose" => x = None)
      BY <1>3, <1>16, <2>1 DEF Carried
    <2>3. DocHandled(s, t, f, x)
      <3>1. CASE m.m = "didOpen"
        <4>1. t = HandleDidOpen(s, f, x)
          BY <1>1, <1>16, <2>1, <2>2, <3>1 DEF Dispatched
        <4> QED BY <2>2, <3>1, <4>1, DidOpenHandled
      <3>2. CASE m.m = "didChange"
        <4>1. t = HandleDidChange(s, f, x)
          BY <1>1, <1>16, <2>1, <2>2, <3>2 DEF Dispatched
        <4> QED BY <2>2, <3>2, <4>1, DidChangeHandled
      <3>3. CASE m.m = "didSave"
        <4>1. t = HandleDidSave(s, f, x)
          BY <1>1, <1>16, <2>1, <2>2, <3>3 DEF Dispatched
        <4> QED BY <2>2, <3>3, <4>1, DidSaveHandled
      <3>4. CASE m.m = "didClose"
        <4>1. t = HandleDidClose(s, f)
          BY <1>1, <1>16, <2>1, <3>4 DEF Dispatched
        <4> QED BY <2>2, <3>4, <4>1, DidCloseHandled
      <3> QED BY <1>16, <3>1, <3>2, <3>3, <3>4
    <2> QED BY <1>1, <1>16, <2>1, <2>2, <2>3, DocDispatched
  <1> QED BY <1>3, <1>7, <1>8, <1>9, <1>10, <1>11, <1>12, <1>13, <1>14, <1>15, <1>16

\* dispatch_message: if an indexing run ends in it, the index reflects the
\* documents.
LEMMA DispatchOk ==
  ASSUME ClientInv, NEW s, ServerInv(s), s.pc = "run", NEW m \in Dispatchable
  PROVE  LET t == DispatchMessage(s, m) IN
         Dispatches(s, m, t) /\ (t.ready # s.ready => Reflects(t))
  <1>1. PICK u : u = Dispatched(s, m)
    OBVIOUS
  <1>2. Dispatches(s, m, u) /\ u.ready = s.ready
    BY <1>1, DispatchedOk
  <1>3. PICK t : t = DispatchMessage(s, m)
    OBVIOUS
  <1>4. CASE ~(u.pc = "wait" /\ ~u.progress)
    <2>1. t = u
      BY <1>1, <1>3, <1>4 DEF DispatchMessage, Settle
    <2> QED BY <1>2, <1>3, <2>1
  <1>5. CASE u.pc = "wait" /\ ~u.progress
    <2>1. t = AfterProgress(u)
      BY <1>1, <1>3, <1>5 DEF DispatchMessage, Settle
    <2>2. ServerInv(u) /\ u.then.op \in {"initial", "manifest", "reindex"}
      BY <1>2, <1>5 DEF Dispatches, WaitOk
    <2>3. Resumed(u, t)
      BY <2>1, <2>2, AfterProgressKeeps
    <2>4. AnswersTo(s, m, t)
      <3>1. AnswersTo(s, m, u) /\ t.pc = "run"
        BY <1>2, <2>3 DEF Dispatches, Resumed
      <3>2. CASE m.m = "request"
        <4>1. u.then = [op |-> "reindex", id |-> m.id] /\ u.answers = s.answers
          BY <1>5, <3>1, <3>2 DEF AnswersTo
        <4>2. PICK a : a = [k |-> "count"]
          OBVIOUS
        <4>3. t.answers = Answered(s, m.id, a)
          BY <2>3, <4>1, <4>2 DEF Resumed, Answered
        <4>4. AnswerOk(s, m, a)
          BY <4>2 DEF AnswerOk
        <4> QED BY <3>1, <3>2, <4>3, <4>4 DEF AnswersTo
      <3>3. CASE m.m # "request"
        <4>1. u.then.op # "reindex" /\ u.answers = s.answers
          BY <1>5, <3>1, <3>3 DEF AnswersTo
        <4>2. t.answers = s.answers
          BY <2>3, <4>1 DEF Resumed
        <4> QED BY <3>1, <3>3, <4>2 DEF AnswersTo
      <3> QED BY <3>2, <3>3
    <2>5. Dispatches(s, m, t)
      BY <1>2, <2>3, <2>4 DEF Dispatches, Resumed, SamePlace, WaitOk
    <2> QED BY <1>2, <1>3, <2>3, <2>5 DEF Resumed
  <1> QED BY <1>4, <1>5

----------------------------------------------------------------------------
(* The steps of the server.                                                *)

\* s is srv with the main loop at another place.
Moved(s, at, batch, buffered) ==
    /\ ServerInv(s) /\ s.at = at /\ s.batch = batch /\ s.buffered = buffered
    /\ s.docs = srv.docs /\ s.pc = srv.pc /\ s.then = srv.then /\ s.shutdown = srv.shutdown
    /\ s.answers = srv.answers /\ s.ready = srv.ready

\* srv' comes from the dispatch of m with the main loop at this place.
Handled(at, batch, buffered, m) ==
    /\ m \in Dispatchable
    /\ srv'.ready # srv.ready => Reflects(srv')
    /\ \E s : Moved(s, at, batch, buffered) /\ s.pc = "run" /\ Dispatches(s, m, srv')

Rest == UNCHANGED <<client, disk, lock, sent, budget>>

\* The first message of a sequence and the others.
LEMMA HeadTail ==
  ASSUME NEW S, NEW q \in Seq(S), q # <<>>
  PROVE  Head(q) \in S /\ Tail(q) \in Seq(S) /\ Len(q) \in Nat /\ Len(q) > 0
  OBVIOUS

\* A message from the buffer.
LEMMA BufferedStep ==
  ASSUME BaseInv, DispatchBuffered
  PROVE  /\ Batch \in Seq(Dispatchable) /\ Batch # <<>>
         /\ Handled("recv", Tail(Batch), IF srv.at = "top" THEN <<>> ELSE srv.buffered, Head(Batch))
  <1>1. Batch \in Seq(Dispatchable) /\ Batch # <<>> /\ srv.pc = "run"
    BY DEF BaseInv, DispatchBuffered, Batch, Running
  <1>2. PICK b, c, m : b = Tail(Batch) /\ c = (IF srv.at = "top" THEN <<>> ELSE srv.buffered) /\ m = Head(Batch)
    OBVIOUS
  <1>3. m \in Dispatchable
    BY <1>1, <1>2, HeadTail
  <1>4. PICK s : s = [srv EXCEPT !.at = "recv", !.batch = b, !.buffered = c]
    OBVIOUS
  <1>5. srv' = DispatchMessage(s, m)
    BY <1>2, <1>4 DEF DispatchBuffered, BaseInv, ServerInv, ServerBut, Shape, Fields
  <1>6. /\ Shape(s) /\ s.cache = srv.cache /\ s.ix = srv.ix /\ s.pendD = srv.pendD
        /\ s.published = srv.published /\ s.at = "recv" /\ s.batch = b /\ s.buffered = c
        /\ s.docs = srv.docs /\ s.pc = srv.pc /\ s.then = srv.then /\ s.shutdown = srv.shutdown
        /\ s.answers = srv.answers /\ s.ready = srv.ready
    BY <1>4 DEF BaseInv, ServerInv, ServerBut, Shape, Fields
  <1>7. ServerInv(s)
    BY <1>6, OtherFields DEF BaseInv
  <1>8. Moved(s, "recv", b, c) /\ s.pc = "run"
    BY <1>1, <1>6, <1>7 DEF Moved
  <1>9. Dispatches(s, m, srv') /\ (srv'.ready # s.ready => Reflects(srv'))
    BY <1>1, <1>3, <1>5, <1>7, <1>8, DispatchOk DEF BaseInv
  <1>10. Handled("recv", b, c, m)
    BY <1>3, <1>6, <1>8, <1>9 DEF Handled
  <1> QED BY <1>1, <1>2, <1>10

\* A message from the channel.
LEMMA ReceiveStep ==
  ASSUME BaseInv, ReceiveMessage
  PROVE  /\ Batch = <<>> /\ chan # <<>>
         /\ Handled("top", srv.batch, srv.buffered, Head(chan))
  <1>1. chan \in Seq(Message) /\ chan # <<>> /\ Batch = <<>> /\ srv.pc = "run"
    BY DEF BaseInv, ReceiveMessage, CanReceive, Running
  <1>2. PICK m : m = Head(chan)
    OBVIOUS
  <1>3. m \in Dispatchable
    BY <1>1, <1>2, HeadTail DEF ReceiveMessage, Dispatchable
  <1>4. PICK s : s = [srv EXCEPT !.at = "top"]
    OBVIOUS
  <1>5. srv' = DispatchMessage(s, m)
    BY <1>2, <1>4 DEF ReceiveMessage
  <1>6. /\ Shape(s) /\ s.cache = srv.cache /\ s.ix = srv.ix /\ s.pendD = srv.pendD
        /\ s.published = srv.published /\ s.at = "top" /\ s.batch = srv.batch /\ s.buffered = srv.buffered
        /\ s.docs = srv.docs /\ s.pc = srv.pc /\ s.then = srv.then /\ s.shutdown = srv.shutdown
        /\ s.answers = srv.answers /\ s.ready = srv.ready
    BY <1>4 DEF BaseInv, ServerInv, ServerBut, Shape, Fields
  <1>7. ServerInv(s)
    BY <1>6, OtherFields DEF BaseInv
  <1>8. Moved(s, "top", srv.batch, srv.buffered) /\ s.pc = "run"
    BY <1>1, <1>6, <1>7 DEF Moved
  <1>9. Dispatches(s, m, srv') /\ (srv'.ready # s.ready => Reflects(srv'))
    BY <1>1, <1>3, <1>5, <1>7, <1>8, DispatchOk DEF BaseInv
  <1>10. Handled("top", srv.batch, srv.buffered, m)
    BY <1>3, <1>6, <1>8, <1>9 DEF Handled
  <1> QED BY <1>1, <1>2, <1>10

\* A tick: what is due is published and indexed, from the documents as they
\* are.
LEMMA TickStep ==
  ASSUME BaseInv, ReceiveTick
  PROVE  Moved(srv', "top", srv.batch, srv.buffered)
  <1>1. PICK s : s = [srv EXCEPT !.at = "top"]
    OBVIOUS
  <1>2. PICK late \in {0, 1} : srv' = FlushPendingIndexUpdates(FlushPendingDiagnostics(s), late)
    BY <1>1 DEF ReceiveTick
  <1>3. /\ Shape(s) /\ s.cache = srv.cache /\ s.ix = srv.ix /\ s.pendD = srv.pendD
        /\ s.published = srv.published /\ s.at = "top" /\ s.batch = srv.batch /\ s.buffered = srv.buffered
        /\ s.docs = srv.docs /\ s.pc = srv.pc /\ s.then = srv.then /\ s.shutdown = srv.shutdown
        /\ s.answers = srv.answers /\ s.ready = srv.ready
    BY <1>1 DEF BaseInv, ServerInv, ServerBut, Shape, Fields
  <1>4. ServerInv(s)
    BY <1>3, OtherFields DEF BaseInv
  <1>5. PICK fs : fs = DiagnosticsReady(s)
    OBVIOUS
  <1>6. PICK r : r = [s EXCEPT !.pendD = Removed(@, fs)]
    OBVIOUS
  <1>7. /\ Shape(r) /\ Steady(s, r) /\ r.docs = s.docs /\ r.cache = s.cache /\ r.ix = s.ix
        /\ r.published = s.published /\ \A f \in Files : f \notin fs => r.pendD[f] = s.pendD[f]
    BY <1>3, <1>6 DEF Shape, Fields, Steady, Removed
  <1>8. ServerBut(r, fs)
    BY <1>4, <1>7 DEF ServerInv, ServerBut, DocsInv, CacheInv, PendingInv, QuietInv
  <1>9. PICK u : u = AnalyzeAndPublishAll(r, fs)
    OBVIOUS
  <1>10. ServerInv(u) /\ Keeps(r, u)
    <2>1. fs \subseteq Files
      BY <1>5 DEF DiagnosticsReady
    <2> QED BY <1>8, <1>9, <2>1, PublishAllKeeps
  <1>11. FlushPendingDiagnostics(s) = u
    BY <1>5, <1>6, <1>9 DEF FlushPendingDiagnostics
  <1>12. Moved(u, "top", srv.batch, srv.buffered)
    BY <1>3, <1>7, <1>10 DEF Moved, Keeps, Steady
  <1>13. PICK gs : gs = IndexReady(u, late)
    OBVIOUS
  <1>14. CASE gs = {}
    <2>1. srv' = u
      BY <1>2, <1>11, <1>13, <1>14 DEF FlushPendingIndexUpdates
    <2> QED BY <1>12, <2>1
  <1>15. CASE gs # {}
    <2>1. PICK v : v = [u EXCEPT !.pendI = Removed(@, gs)]
      OBVIOUS
    <2>2. /\ Shape(v) /\ v.docs = u.docs /\ v.cache = u.cache /\ v.ix = u.ix /\ v.pendD = u.pendD
          /\ v.published = u.published /\ Keeps(u, v)
      BY <1>10, <2>1 DEF ServerInv, ServerBut, Shape, Fields, Keeps, Steady
    <2>3. ServerInv(v)
      BY <1>10, <2>2, OtherFields
    <2>4. PICK w : w = UpdateIndexForOpenDocs(v, gs)
      OBVIOUS
    <2>5. ServerInv(w) /\ Keeps(v, w)
      <3>1. gs \subseteq Files
        BY <1>13 DEF IndexReady
      <3> QED BY <2>3, <2>4, <3>1, UpdateIndexKeeps
    <2>6. PICK x : x = Rebuild(w)
      OBVIOUS
    <2>7. ServerInv(x) /\ Keeps(w, x)
      <3>1. ServerInv(w)
        BY <2>5
      <3> QED BY <2>6, <3>1, RebuildKeeps
    <2>8. srv' = x
      BY <1>2, <1>11, <1>13, <1>15, <2>1, <2>4, <2>6 DEF FlushPendingIndexUpdates
    <2> QED BY <1>12, <2>2, <2>5, <2>7, <2>8 DEF Moved, Keeps, Steady
  <1> QED BY <1>14, <1>15

\* The end of the wait.
LEMMA WaitEnds ==
  ASSUME BaseInv, srv.pc = "wait", srv' = AfterProgress(srv)
  PROVE  Resumed(srv, srv')
  BY AfterProgressKeeps DEF BaseInv, WaitOk

\* A message that arrives during the wait is buffered.
LEMMA BufferStep ==
  ASSUME BaseInv, NEW m, srv' = [srv EXCEPT !.buffered = Append(@, m)]
  PROVE  /\ Moved(srv', srv.at, srv.batch, Append(srv.buffered, m))
  <1>1. PICK s : s = [srv EXCEPT !.buffered = Append(@, m)]
    OBVIOUS
  <1>2. /\ Shape(s) /\ s.cache = srv.cache /\ s.ix = srv.ix /\ s.pendD = srv.pendD
        /\ s.published = srv.published /\ s.at = srv.at /\ s.batch = srv.batch
        /\ s.buffered = Append(srv.buffered, m)
        /\ s.docs = srv.docs /\ s.pc = srv.pc /\ s.then = srv.then /\ s.shutdown = srv.shutdown
        /\ s.answers = srv.answers /\ s.ready = srv.ready
    BY <1>1 DEF BaseInv, ServerInv, ServerBut, Shape, Fields
  <1>3. ServerInv(s)
    BY <1>2, OtherFields DEF BaseInv
  <1> QED BY <1>1, <1>2, <1>3 DEF Moved

\* Time passes.
LEMMA TimerStep ==
  ASSUME BaseInv, Timer
  PROVE  Moved(srv', srv.at, srv.batch, srv.buffered)
  <1>1. PICK p : p = Older(srv.pendD, srv.debounce)
    OBVIOUS
  <1>2. p \in [Files -> Nat \cup {NotPending}] /\ \A f \in Files : srv.pendD[f] # NotPending => p[f] # NotPending
    BY <1>1 DEF Older, NotPending, BaseInv, ServerInv, ServerBut, Shape
  <1>3. PICK s : s = [srv EXCEPT !.pendD = p, !.pendI = Older(@, srv.indexDebounce)]
    OBVIOUS
  <1>4. srv' = s
    BY <1>1, <1>3 DEF Timer, BaseInv, ServerInv, ServerBut, Shape, Fields
  <1>5. /\ Shape(s) /\ s.cache = srv.cache /\ s.ix = srv.ix /\ s.pendD = p
        /\ s.published = srv.published /\ s.at = srv.at /\ s.batch = srv.batch
        /\ s.buffered = srv.buffered
        /\ s.docs = srv.docs /\ s.pc = srv.pc /\ s.then = srv.then /\ s.shutdown = srv.shutdown
        /\ s.answers = srv.answers /\ s.ready = srv.ready
    BY <1>2, <1>3 DEF BaseInv, ServerInv, ServerBut, Shape, Fields
  <1>6. ServerInv(s)
    BY <1>2, <1>5 DEF BaseInv, ServerInv, ServerBut, DocsInv, CacheInv, PendingInv, QuietInv
  <1> QED BY <1>4, <1>5, <1>6 DEF Moved

----------------------------------------------------------------------------
(* The first layer of the invariant.                                       *)

\* The initial state.
LEMMA InitBase == Init => BaseInv
  <1> SUFFICES ASSUME Init PROVE BaseInv
    OBVIOUS
  <1>1. PICK n : n = NewServer
    OBVIOUS
  <1>2. /\ DOMAIN n = Fields /\ n.docs = [f \in Files |-> None] /\ n.cache = [f \in Files |-> None]
        /\ n.published = [f \in Files |-> NoDiagnostics] /\ n.pendD = [f \in Files |-> NotPending]
        /\ n.debounce = 0 /\ n.ready \in BOOLEAN /\ n.shutdown \in BOOLEAN /\ n.answers = [id \in Ids |-> <<>>]
        /\ n.ix = NewIndex /\ n.pc = "run" /\ n.batch = <<>> /\ n.buffered = <<>>
    BY <1>1 DEF NewServer, Fields
  <1>3. Shape(n) /\ DocsInv(n) /\ CacheInv(n, {}) /\ PendingInv(n, {}) /\ QuietInv(n)
    <2>1. n.pendD \in [Files -> Nat \cup {NotPending}]
      BY <1>2
    <2>2. Shape(n)
      <3>1. /\ DOMAIN n = Fields /\ n.debounce \in Nat /\ n.ready \in BOOLEAN /\ n.shutdown \in BOOLEAN
        BY <1>2
      <3>2. /\ DOMAIN n.docs = Files /\ DOMAIN n.cache = Files /\ DOMAIN n.published = Files
            /\ DOMAIN n.answers = Ids
        BY <1>2
      <3> QED BY <2>1, <3>1, <3>2 DEF Shape
    <2>3. \A f \in Files : n.docs[f] = None /\ n.published[f] = NoDiagnostics
      BY <1>2
    <2> QED BY <2>2, <2>3 DEF DocsInv, CacheInv, PendingInv, QuietInv
  <1>4. ServerInv(n) /\ WaitOk(n)
    BY <1>2, <1>3, NewIndexOk DEF ServerInv, ServerBut, WaitOk
  <1>5. srv = n
    BY <1>1 DEF Init
  <1>6. \A f \in Files : disk[f] \in Texts[f]
    BY TextsAssumption DEF Init
  <1>7. ClientInv
    <2>1. disk = Saved /\ client = [f \in Files |-> IF f \in Range(Restored) THEN disk[f] ELSE None]
      BY DEF Init
    <2>2. DOMAIN client = Files /\ \A f \in Files : client[f] \in Texts[f] \cup {None}
      BY <1>6, <2>1
    <2>3. DOMAIN disk = Files
      BY <2>1, TextsAssumption
    <2>4. /\ DOMAIN sent = Ids /\ DOMAIN budget = {"edits", "requests", "other", "total", "open"}
          /\ budget.requests = MaxRequests
      BY DEF Init
    <2> QED BY <1>6, <2>2, <2>3, <2>4, ClientAssumption DEF ClientInv
  <1>8. chan \in Seq(Message)
    <2>1. PICK p \in BOOLEAN, d \in Debounces :
             chan = <<[m |-> "initialize", progress |-> p, debounce |-> d[1], indexDebounce |-> d[2]],
                      [m |-> "initialized"]>>
                    \o [i \in DOMAIN Restored |->
                           [m |-> "didOpen", f |-> Restored[i], text |-> disk[Restored[i]]]]
      BY DEF Init
    <2>2. PICK a, b, c : /\ a = [m |-> "initialize", progress |-> p, debounce |-> d[1], indexDebounce |-> d[2]]
                         /\ b = [m |-> "initialized"]
                         /\ c = [i \in DOMAIN Restored |->
                                   [m |-> "didOpen", f |-> Restored[i], text |-> disk[Restored[i]]]]
      OBVIOUS
    <2>3. a \in Message
      <3>1. d[1] \in Nat /\ d[2] \in Nat
        BY ClientAssumption
      <3>2. a \in [m : {"initialize"}, progress : BOOLEAN, debounce : Nat, indexDebounce : Nat]
        BY <2>2, <3>1
      <3> QED BY <3>2 DEF Message
    <2>4. b \in Message
      BY <2>2, MessageMade
    <2>5. c \in Seq(Message)
      <3>1. \A i \in DOMAIN Restored : c[i] \in Message
        <4> SUFFICES ASSUME NEW i \in DOMAIN Restored PROVE c[i] \in Message
          OBVIOUS
        <4>1. PICK g : g = Restored[i]
          OBVIOUS
        <4>2. g \in Files
          BY <4>1, ClientAssumption
        <4>3. [m |-> "didOpen", f |-> g, text |-> disk[g]] \in Message
          BY <1>6, <4>2, MessageMade
        <4> QED BY <2>2, <4>1, <4>3
      <3>2. PICK k \in Nat : DOMAIN Restored = 1..k
        BY ClientAssumption
      <3>3. c \in [1..k -> Message]
        BY <2>2, <3>1, <3>2
      <3> QED BY <3>3
    <2>6. <<a, b>> \in Seq(Message)
      BY <2>3, <2>4
    <2> QED BY <2>1, <2>2, <2>5, <2>6
  <1>9. srv.batch \in Seq(Dispatchable) /\ srv.buffered \in Seq(Dispatchable)
    <2>1. srv.batch = <<>> /\ srv.buffered = <<>>
      BY <1>2, <1>5
    <2> QED BY <2>1
  <1> QED BY <1>4, <1>5, <1>7, <1>8, <1>9 DEF BaseInv

\* The server's part after a step.
ServerPart ==
    /\ ServerInv(srv') /\ WaitOk(srv')
    /\ srv'.batch \in Seq(Dispatchable) /\ srv'.buffered \in Seq(Dispatchable)

\* A step that moves the main loop.
LEMMA MovedPart ==
  ASSUME BaseInv, NEW at, NEW batch \in Seq(Dispatchable), NEW buffered \in Seq(Dispatchable),
         Moved(srv', at, batch, buffered)
  PROVE  ServerPart
  BY DEF ServerPart, Moved, BaseInv, WaitOk

\* A step that dispatches a message.
LEMMA HandledPart ==
  ASSUME BaseInv, NEW at, NEW batch \in Seq(Dispatchable), NEW buffered \in Seq(Dispatchable), NEW m,
         Handled(at, batch, buffered, m)
  PROVE  ServerPart
  <1>1. PICK s : Moved(s, at, batch, buffered) /\ s.pc = "run" /\ Dispatches(s, m, srv')
    BY DEF Handled
  <1> QED BY <1>1 DEF ServerPart, Moved, Dispatches

\* The server's steps keep the first layer, and an indexing run that ends
\* shows the documents.
LEMMA ServerStepBase ==
  ASSUME BaseInv, ServerStep
  PROVE  ServerPart /\ Rest /\ chan' \in Seq(Message) /\ (srv'.ready # srv.ready => Reflects(srv'))
  <1>1. chan # <<>> => Tail(chan) \in Seq(Message)
    BY HeadTail DEF BaseInv
  <1>2. srv.batch \in Seq(Dispatchable) /\ srv.buffered \in Seq(Dispatchable) /\ chan \in Seq(Message)
    BY DEF BaseInv
  <1>3. CASE DispatchBuffered
    <2>1. /\ Batch \in Seq(Dispatchable) /\ Batch # <<>>
          /\ Handled("recv", Tail(Batch), IF srv.at = "top" THEN <<>> ELSE srv.buffered, Head(Batch))
      BY <1>3, BufferedStep
    <2>2. PICK b, c, m : b = Tail(Batch) /\ c = (IF srv.at = "top" THEN <<>> ELSE srv.buffered) /\ m = Head(Batch)
      OBVIOUS
    <2>3. b \in Seq(Dispatchable) /\ c \in Seq(Dispatchable) /\ Handled("recv", b, c, m)
      BY <1>2, <2>1, <2>2, HeadTail
    <2>4. ServerPart
      BY <2>3, HandledPart
    <2> QED BY <1>2, <1>3, <2>3, <2>4 DEF Handled, DispatchBuffered, Rest
  <1>4. CASE ReceiveMessage
    <2>1. chan # <<>> /\ Handled("top", srv.batch, srv.buffered, Head(chan))
      BY <1>4, ReceiveStep
    <2>2. ServerPart
      BY <1>2, <2>1, HandledPart
    <2> QED BY <1>1, <1>4, <2>1, <2>2 DEF Handled, ReceiveMessage, Rest
  <1>5. CASE ReceiveClosed
    <2>1. srv' = [srv EXCEPT !.pc = "exited"]
      BY <1>5 DEF ReceiveClosed
    <2>2. PICK s : s = srv'
      OBVIOUS
    <2>3. /\ Shape(s) /\ s.docs = srv.docs /\ s.cache = srv.cache /\ s.ix = srv.ix /\ s.pendD = srv.pendD
          /\ s.published = srv.published /\ s.batch = srv.batch /\ s.buffered = srv.buffered
          /\ s.ready = srv.ready /\ s.pc = "exited"
      BY <2>1, <2>2 DEF BaseInv, ServerInv, ServerBut, Shape, Fields
    <2>4. ServerInv(s)
      BY <2>3, OtherFields DEF BaseInv
    <2> QED BY <1>1, <1>2, <1>5, <2>2, <2>3, <2>4 DEF ServerPart, WaitOk, ReceiveClosed, CanReceive, Rest
  <1>6. CASE ReceiveTick
    <2>1. Moved(srv', "top", srv.batch, srv.buffered)
      BY <1>6, TickStep
    <2>2. ServerPart
      BY <1>2, <2>1, MovedPart
    <2> QED BY <1>1, <1>6, <2>1, <2>2 DEF Moved, ReceiveTick, CanReceive, Rest
  <1>7. ASSUME srv.pc = "wait", srv' = AfterProgress(srv)
        PROVE  ServerPart /\ (srv'.ready # srv.ready => Reflects(srv'))
    <2>1. Resumed(srv, srv')
      BY <1>7, WaitEnds
    <2> QED BY <1>2, <2>1 DEF Resumed, ServerPart, SamePlace, WaitOk
  <1>8. CASE WaitReceive
    <2>1. /\ srv.pc = "wait" /\ chan # <<>> /\ Rest /\ chan' = Tail(chan)
          /\ srv' = CASE Head(chan).m \in {"reply", "closed"} -> AfterProgress(srv)
                     [] Head(chan).m = "tick" -> srv
                     [] OTHER -> [srv EXCEPT !.buffered = Append(@, Head(chan))]
      BY <1>8 DEF WaitReceive, Rest
    <2>2. PICK m : m = Head(chan)
      OBVIOUS
    <2>3. m \in Message
      BY <1>2, <2>1, <2>2, HeadTail
    <2>4. CASE m.m \in {"reply", "closed"}
      <3>1. srv' = AfterProgress(srv)
        BY <2>1, <2>2, <2>4
      <3> QED BY <1>1, <1>7, <2>1, <3>1
    <2>5. CASE m.m = "tick"
      <3>1. srv' = srv
        BY <2>1, <2>2, <2>5
      <3> QED BY <1>1, <2>1, <3>1 DEF ServerPart, BaseInv
    <2>6. CASE m.m \notin {"reply", "closed", "tick"}
      <3>1. srv' = [srv EXCEPT !.buffered = Append(@, m)]
        BY <2>1, <2>2, <2>6
      <3>2. m \in Dispatchable
        BY <2>3, <2>6 DEF Dispatchable
      <3>3. Append(srv.buffered, m) \in Seq(Dispatchable)
        BY <1>2, <3>2
      <3>4. Moved(srv', srv.at, srv.batch, Append(srv.buffered, m))
        BY <3>1, BufferStep
      <3>5. ServerPart
        BY <1>2, <3>3, <3>4, MovedPart
      <3> QED BY <1>1, <2>1, <3>4, <3>5 DEF Moved
    <2> QED BY <2>4, <2>5, <2>6
  <1>9. CASE WaitTimeout
    BY <1>2, <1>7, <1>9 DEF WaitTimeout, Rest
  <1> QED BY <1>3, <1>4, <1>5, <1>6, <1>8, <1>9 DEF ServerStep

\* What the client and the file system do.
LEMMA ClientStepBase ==
  ASSUME BaseInv, Client
  PROVE  srv' = srv /\ ClientInv' /\ chan' \in Seq(Message)
  <1>1. ClientInv /\ chan \in Seq(Message)
    BY DEF BaseInv
  <1>2. \A m \in Message : Append(chan, m) \in Seq(Message)
    BY <1>1
  <1>3. Edited \subseteq Files /\ Requests \subseteq Methods /\ MaxRequests \in Nat
    BY ClientAssumption
  <1>4. ASSUME NEW f \in Files, NEW t \in Texts[f] \cup {None}, NEW m \in Message, Edit(f, t, m),
               \/ disk' = disk
               \/ t # None /\ disk' = [disk EXCEPT ![f] = t]
        PROVE  srv' = srv /\ ClientInv' /\ chan' \in Seq(Message)
    <2>1. client' = [client EXCEPT ![f] = t] /\ srv' = srv /\ chan' = Append(chan, m) /\ sent' = sent
      BY <1>4 DEF Edit, Send
    <2>2. budget' = [budget EXCEPT !.edits = @ - 1, !.total = @ - 1]
      BY <1>4 DEF Edit
    <2>3. DOMAIN budget' = DOMAIN budget /\ budget'.requests = budget.requests
      BY <1>1, <2>2 DEF ClientInv
    <2>4. DOMAIN client' = Files /\ \A g \in Files : client'[g] \in Texts[g] \cup {None}
      BY <1>1, <2>1 DEF ClientInv
    <2>5. DOMAIN disk' = Files /\ \A g \in Files : disk'[g] \in Texts[g]
      BY <1>1, <1>4 DEF ClientInv
    <2> QED BY <1>1, <1>2, <2>1, <2>3, <2>4, <2>5 DEF ClientInv
  <1>5. ASSUME NEW f \in Edited, ClientOpen(f)
        PROVE  srv' = srv /\ ClientInv' /\ chan' \in Seq(Message)
    <2>1. PICK m : m = [m |-> "didOpen", f |-> f, text |-> disk[f]]
      OBVIOUS
    <2>2. f \in Files /\ disk[f] \in Texts[f]
      BY <1>1, <1>3 DEF ClientInv
    <2>3. m \in Message
      BY <2>1, <2>2, MessageMade
    <2>4. Edit(f, disk[f], m) /\ disk' = disk
      BY <1>5, <2>1 DEF ClientOpen
    <2> QED BY <1>4, <2>2, <2>3, <2>4
  <1>6. ASSUME NEW f \in Edited, ClientChange(f)
        PROVE  srv' = srv /\ ClientInv' /\ chan' \in Seq(Message)
    <2>1. PICK t \in Texts[f] : Edit(f, t, [m |-> "didChange", f |-> f, text |-> t])
      BY <1>6 DEF ClientChange
    <2>2. PICK m : m = [m |-> "didChange", f |-> f, text |-> t]
      OBVIOUS
    <2>3. m \in Message /\ f \in Files
      BY <1>3, <2>1, <2>2, MessageMade
    <2>4. Edit(f, t, m) /\ disk' = disk
      BY <1>6, <2>1, <2>2 DEF ClientChange
    <2> QED BY <1>4, <2>3, <2>4
  <1>7. ASSUME NEW f \in Edited, ClientClose(f)
        PROVE  srv' = srv /\ ClientInv' /\ chan' \in Seq(Message)
    <2>1. PICK m : m = [m |-> "didClose", f |-> f]
      OBVIOUS
    <2>2. m \in Message /\ f \in Files
      BY <1>3, <2>1, MessageMade
    <2>3. Edit(f, None, m) /\ disk' = disk
      BY <1>7, <2>1 DEF ClientClose
    <2> QED BY <1>4, <2>2, <2>3
  <1>8. ASSUME NEW f \in Edited, ClientSave(f)
        PROVE  srv' = srv /\ ClientInv' /\ chan' \in Seq(Message)
    <2>1. PICK t : t = client[f]
      OBVIOUS
    <2>2. PICK m : m = [m |-> "didSave", f |-> f, text |-> t]
      OBVIOUS
    <2>3. f \in Files /\ t \in Texts[f] /\ t # None
      BY <1>1, <1>3, <1>8, <2>1 DEF ClientInv, ClientSave
    <2>4. m \in Message
      BY <2>2, <2>3, MessageMade
    <2>5. Edit(f, t, m) /\ disk' = [disk EXCEPT ![f] = t]
      BY <1>8, <2>1, <2>2 DEF ClientSave
    <2> QED BY <1>4, <2>3, <2>4, <2>5
  <1>9. ASSUME NEW f \in Edited, NEW r \in Requests, ClientRequest(r, f)
        PROVE  srv' = srv /\ ClientInv' /\ chan' \in Seq(Message)
    <2>1. PICK id : id = MaxRequests - budget.requests + 1
      OBVIOUS
    <2>2. /\ budget.requests > 0 /\ chan' = Append(chan, [m |-> "request", id |-> id, method |-> r, f |-> f])
          /\ sent' = [sent EXCEPT ![id] =
                       [method |-> r, f |-> f,
                        text |-> IF client[f] = None THEN "" ELSE client[f].id]]
          /\ budget' = [budget EXCEPT !.requests = @ - 1, !.total = @ - 1]
          /\ UNCHANGED <<srv, client, disk, lock>>
      BY <1>9, <2>1 DEF ClientRequest, Send
    <2>3. id \in Ids /\ budget.requests - 1 \in 0..MaxRequests
      <3>1. PICK k \in 0..MaxRequests : k = budget.requests
        BY <1>1 DEF ClientInv
      <3>2. id = MaxRequests - k + 1 /\ k > 0
        BY <2>1, <2>2, <3>1
      <3> QED BY <1>3, <3>1, <3>2 DEF Ids
    <2>4. PICK m : m = [m |-> "request", id |-> id, method |-> r, f |-> f]
      OBVIOUS
    <2>5. m \in Message
      BY <1>3, <2>3, <2>4, MessageMade
    <2>6. DOMAIN budget' = DOMAIN budget /\ budget'.requests = budget.requests - 1
      BY <1>1, <2>2 DEF ClientInv
    <2>7. DOMAIN sent' = DOMAIN sent
      BY <2>2
    <2> QED BY <1>1, <1>2, <2>2, <2>3, <2>4, <2>5, <2>6, <2>7 DEF ClientInv
  <1>10. ASSUME NEW m \in Message, Other(m)
         PROVE  srv' = srv /\ ClientInv' /\ chan' \in Seq(Message)
    <2>1. chan' = Append(chan, m) /\ UNCHANGED <<srv, client, disk, lock, sent>>
      BY <1>10 DEF Other, Send
    <2>2. budget' = [budget EXCEPT !.other = @ - 1, !.total = @ - 1, !.open = (m.m # "closed")]
      BY <1>10 DEF Other
    <2>3. DOMAIN budget' = DOMAIN budget /\ budget'.requests = budget.requests
      BY <1>1, <2>2 DEF ClientInv
    <2> QED BY <1>1, <1>2, <2>1, <2>3 DEF ClientInv
  <1>11. ASSUME NEW id \in Ids, ClientCancel(id)
         PROVE  srv' = srv /\ ClientInv' /\ chan' \in Seq(Message)
    <2>1. PICK m : m = [m |-> "cancel", id |-> id]
      OBVIOUS
    <2>2. m \in Message /\ Other(m)
      BY <1>11, <2>1, MessageMade DEF ClientCancel
    <2> QED BY <1>10, <2>2
  <1>12. CASE ClientSaveManifest
    <2>1. PICK m : m = [m |-> "saveManifest"]
      OBVIOUS
    <2>2. m \in Message /\ Other(m)
      BY <1>12, <2>1, MessageMade DEF ClientSaveManifest
    <2> QED BY <1>10, <2>2
  <1>13. CASE ClientShutdown
    <2>1. PICK x \in {"shutdown", "exit", "closed"} : Other([m |-> x])
      BY <1>13 DEF ClientShutdown
    <2>2. PICK m : m = [m |-> x]
      OBVIOUS
    <2>3. m \in Message /\ Other(m)
      BY <2>1, <2>2, MessageMade
    <2> QED BY <1>10, <2>3
  <1>14. CASE ClientReply
    <2>1. PICK m : m = [m |-> "reply"]
      OBVIOUS
    <2>2. m \in Message
      BY <2>1, MessageMade
    <2>3. chan' = Append(chan, m) /\ UNCHANGED <<srv, client, disk, lock, sent, budget>>
      BY <1>14, <2>1 DEF ClientReply, Send
    <2> QED BY <1>1, <1>2, <2>2, <2>3 DEF ClientInv
  <1>15. ASSUME budget' = [budget EXCEPT !.other = @ - 1, !.total = @ - 1]
         PROVE  DOMAIN budget' = DOMAIN budget /\ budget'.requests = budget.requests
    BY <1>1, <1>15 DEF ClientInv
  <1>16. CASE WriteLock
    <2>1. DOMAIN budget' = DOMAIN budget /\ budget'.requests = budget.requests
      BY <1>15, <1>16 DEF WriteLock
    <2> QED BY <1>1, <1>16, <2>1 DEF WriteLock, ClientInv
  <1>17. ASSUME NEW f \in Files, WriteFile(f)
         PROVE  srv' = srv /\ ClientInv' /\ chan' \in Seq(Message)
    <2>1. DOMAIN budget' = DOMAIN budget /\ budget'.requests = budget.requests
      BY <1>15, <1>17 DEF WriteFile
    <2>2. PICK t \in Texts[f] : disk' = [disk EXCEPT ![f] = t]
      BY <1>17 DEF WriteFile
    <2>3. DOMAIN disk' = Files /\ \A g \in Files : disk'[g] \in Texts[g]
      BY <1>1, <2>2 DEF ClientInv
    <2> QED BY <1>1, <1>17, <2>1, <2>3 DEF WriteFile, ClientInv
  <1> QED BY <1>5, <1>6, <1>7, <1>8, <1>9, <1>11, <1>12, <1>13, <1>14, <1>16, <1>17 DEF Client

\* Every step keeps the first layer.
LEMMA NextBase == BaseInv /\ [Next]_vars => BaseInv'
  <1> SUFFICES ASSUME BaseInv, [Next]_vars PROVE BaseInv'
    OBVIOUS
  <1>1. CASE ServerStep
    <2>1. ServerPart /\ Rest /\ chan' \in Seq(Message)
      BY <1>1, ServerStepBase
    <2>2. ClientInv'
      BY <2>1 DEF BaseInv, ClientInv, Rest
    <2> QED BY <2>1, <2>2 DEF BaseInv, ServerPart
  <1>2. CASE Timer
    <2>1. Moved(srv', srv.at, srv.batch, srv.buffered)
      BY <1>2, TimerStep
    <2>2. ServerPart
      BY <2>1, MovedPart DEF BaseInv
    <2>3. chan' \in Seq(Message)
      <3>1. PICK m : m = [m |-> "tick"]
        OBVIOUS
      <3>2. m \in Message /\ chan' = Append(chan, m)
        BY <1>2, <3>1, MessageMade DEF Timer
      <3> QED BY <3>2 DEF BaseInv
    <2>4. ClientInv'
      BY <1>2 DEF BaseInv, ClientInv, Timer
    <2> QED BY <2>2, <2>3, <2>4 DEF BaseInv, ServerPart
  <1>3. CASE Client
    <2>1. srv' = srv /\ ClientInv' /\ chan' \in Seq(Message)
      BY <1>3, ClientStepBase
    <2> QED BY <2>1 DEF BaseInv
  <1>4. CASE UNCHANGED vars
    BY <1>4 DEF BaseInv, ClientInv, vars
  <1> QED BY <1>1, <1>2, <1>3, <1>4 DEF Next

\* The first layer of the invariant holds throughout.
THEOREM BaseHolds == Spec => []BaseInv
  BY InitBase, NextBase, PTL DEF Spec

\* Nothing is published for a document after its didClose was handled,
\* whatever was pending for it.
THEOREM ClosedQuietHolds == Spec => []ClosedIsQuiet
  <1>1. BaseInv => ClosedIsQuiet
    BY DEF BaseInv, ServerInv, ServerBut, QuietInv, ClosedIsQuiet
  <1> QED BY <1>1, BaseHolds, PTL

\* An indexing run over open documents ends with an index that shows the closed
\* documents as they are on disk and the open ones as they are in memory, but
\* for those not analysed since their last change, which are shown as on disk.
THEOREM ReindexHolds == Spec => ReindexReflects
  <1> DEFINE Step == EndsReindex =>
                       \A f \in Files :
                          CASE srv'.docs[f] = None -> IndexShows(f, disk[f])
                            [] srv'.docs[f] # None /\ srv'.cache[f] # None ->
                                  IndexShows(f, srv'.docs[f].text)
                            [] srv'.docs[f] # None /\ srv'.cache[f] = None ->
                                  srv'.pendD[f] # NotPending /\ IndexShows(f, disk[f])
  <1>1. ASSUME BaseInv, [Next]_vars PROVE [Step]_vars
    <2>1. srv'.ready # srv.ready => Reflects(srv')
      <3>1. CASE ServerStep
        BY <1>1, <3>1, ServerStepBase
      <3>2. CASE Timer
        <4>1. Moved(srv', srv.at, srv.batch, srv.buffered)
          BY <1>1, <3>2, TimerStep
        <4> QED BY <4>1 DEF Moved
      <3>3. CASE Client
        BY <1>1, <3>3, ClientStepBase
      <3>4. CASE UNCHANGED vars
        BY <3>4 DEF vars
      <3> QED BY <1>1, <3>1, <3>2, <3>3, <3>4 DEF Next
    <2> QED BY <2>1 DEF Reflects, Shows, IndexShows, EndsReindex
  <1>2. BaseInv /\ [Next]_vars => [Step]_vars
    BY <1>1
  <1> QED BY <1>2, BaseHolds, PTL DEF Spec, ReindexReflects

----------------------------------------------------------------------------
(* Messages that leave the queue or enter it.                              *)

\* r is q without its p-th message.
Without(q, p, r) ==
    /\ Len(r) = Len(q) - 1
    /\ \A i \in 1..Len(r) : r[i] = IF i < p THEN q[i] ELSE q[i + 1]

\* A message that does not concern f may leave.
LEMMA TextDropped ==
  ASSUME NEW q, NEW r, Len(q) \in Nat, NEW p \in 1..Len(q), Without(q, p, r), NEW n \in 0..Len(q), NEW f,
         NEW d, NEW t, ~DocMessage(q[p], f), TextAfter(q, n, f, d, t), NEW k \in Nat,
         k = IF n < p THEN n ELSE n - 1
  PROVE  TextAfter(r, k, f, d, t)
  <1>1. k <= Len(r) /\ Len(r) \in Nat /\ Len(r) = Len(q) - 1
    BY DEF Without
  <1>2. ASSUME NEW i \in 1..k
        PROVE  \E j \in 1..n : r[i] = q[j] /\ j # p /\ i = IF j < p THEN j ELSE j - 1
    <2>1. CASE i < p
      BY <1>1, <1>2, <2>1 DEF Without
    <2>2. CASE i >= p
      <3>1. r[i] = q[i + 1] /\ i + 1 \in 1..n /\ i + 1 # p /\ ~(i + 1 < p) /\ i = (i + 1) - 1
        BY <1>1, <1>2, <2>2 DEF Without
      <3> QED BY <3>1
    <2> QED BY <1>1, <2>1, <2>2
  <1>3. CASE Shown(d) = t /\ \A i \in 1..n : ~DocMessage(q[i], f)
    BY <1>2, <1>3 DEF TextAfter
  <1>4. CASE \E j \in 1..n : /\ DocMessage(q[j], f) /\ Carried(q[j]) = t
                             /\ \A i \in 1..n : i > j => ~DocMessage(q[i], f)
    <2>1. PICK j \in 1..n : /\ DocMessage(q[j], f) /\ Carried(q[j]) = t
                            /\ \A i \in 1..n : i > j => ~DocMessage(q[i], f)
      BY <1>4
    <2>2. PICK h \in Nat : h = IF j < p THEN j ELSE j - 1
      OBVIOUS
    <2>3. j # p
      BY <2>1
    <2>4. h \in 1..k /\ r[h] = q[j]
      BY <1>1, <2>2, <2>3 DEF Without
    <2>5. ASSUME NEW i \in 1..k, i > h PROVE ~DocMessage(r[i], f)
      <3>1. PICK x \in 1..n : r[i] = q[x] /\ x # p /\ i = IF x < p THEN x ELSE x - 1
        BY <1>2
      <3>2. x > j
        BY <2>2, <2>3, <2>5, <3>1
      <3> QED BY <2>1, <3>1, <3>2
    <2> QED BY <2>1, <2>4, <2>5 DEF TextAfter
  <1> QED BY <1>3, <1>4 DEF TextAfter

\* A message about f that no other message about f precedes is handled.
LEMMA TextHandled ==
  ASSUME NEW q, NEW r, Len(q) \in Nat, NEW p \in 1..Len(q), Without(q, p, r), NEW n \in p..Len(q), NEW f,
         NEW d, NEW e, NEW t, DocMessage(q[p], f), Shown(e) = Carried(q[p]), TextAfter(q, n, f, d, t),
         \A i \in 1..(p - 1) : ~DocMessage(q[i], f)
  PROVE  TextAfter(r, n - 1, f, e, t)
  <1>1. \A i \in 1..(n - 1) : /\ r[i] = IF i < p THEN q[i] ELSE q[i + 1]
                              /\ i \in 1..n /\ i + 1 \in 1..n
    BY DEF Without
  <1>2. PICK j \in 1..n : /\ DocMessage(q[j], f) /\ Carried(q[j]) = t
                          /\ \A i \in 1..n : i > j => ~DocMessage(q[i], f)
    BY DEF TextAfter
  <1>3. j >= p
    BY <1>2
  <1>4. CASE j = p
    <2>1. ASSUME NEW i \in 1..(n - 1) PROVE ~DocMessage(r[i], f)
      <3>1. CASE i < p
        BY <1>1, <3>1
      <3>2. CASE ~(i < p)
        BY <1>1, <1>2, <1>4, <3>2
      <3> QED BY <3>1, <3>2
    <2> QED BY <1>2, <1>4, <2>1 DEF TextAfter
  <1>5. CASE j # p
    <2>1. j - 1 \in 1..(n - 1) /\ r[j - 1] = q[j]
      BY <1>1, <1>3, <1>5
    <2>2. \A i \in 1..(n - 1) : i > j - 1 => ~DocMessage(r[i], f)
      BY <1>1, <1>2, <1>3, <1>5
    <2> QED BY <1>2, <2>1, <2>2 DEF TextAfter
  <1> QED BY <1>4, <1>5

\* Only the first n messages count.
LEMMA TextSame ==
  ASSUME NEW q, NEW r, NEW n \in Nat, \A i \in 1..n : r[i] = q[i], NEW f, NEW d, NEW t,
         TextAfter(q, n, f, d, t)
  PROVE  TextAfter(r, n, f, d, t)
  BY DEF TextAfter

\* A message leaves the queue and is handled; of the documents that are not in
\* o, none has a message before it about the document it changes.
LEMMA StreamHandled ==
  ASSUME NEW q \in Seq(Message), NEW r, NEW p \in 1..Len(q), Without(q, p, r), NEW docs, NEW docs1, NEW o,
         \A f \in Files : f \notin o /\ ~DocMessage(q[p], f) => docs1[f] = docs[f],
         \A f \in Files : f \notin o /\ DocMessage(q[p], f) =>
            Shown(docs1[f]) = Carried(q[p]) /\ \A i \in 1..(p - 1) : ~About(q[i], f)
  PROVE  /\ \A shown : Follows(q, docs, shown, o) => Follows(r, docs1, shown, o)
         /\ \A asked : Finds(q, docs, asked, o) => Finds(r, docs1, asked, o)
  <1>1. Len(q) \in Nat /\ Len(r) \in Nat /\ Len(r) = Len(q) - 1 /\ \A i \in 1..Len(q) : q[i] \in Message
    BY DEF Without
  <1>2. ASSUME NEW f \in Files, f \notin o, NEW n \in 0..Len(q), NEW k \in Nat,
               k = (IF n < p THEN n ELSE n - 1), DocMessage(q[p], f) => n >= p,
               NEW d, NEW e, d = docs[f], e = docs1[f], NEW t, TextAfter(q, n, f, d, t)
        PROVE  TextAfter(r, k, f, e, t)
    <2>1. CASE DocMessage(q[p], f)
      <3>1. Shown(e) = Carried(q[p]) /\ \A i \in 1..(p - 1) : ~DocMessage(q[i], f)
        BY <1>2, <2>1 DEF About
      <3>2. n \in p..Len(q) /\ k = n - 1
        BY <1>2, <2>1
      <3> QED BY <1>1, <1>2, <2>1, <3>1, <3>2, TextHandled
    <2>2. CASE ~DocMessage(q[p], f)
      <3>1. e = d
        BY <1>2, <2>2
      <3>2. TextAfter(r, k, f, d, t)
        BY <1>1, <1>2, <2>2, TextDropped
      <3> QED BY <3>1, <3>2
    <2> QED BY <2>1, <2>2
  <1>3. ASSUME NEW shown, Follows(q, docs, shown, o), NEW f \in Files, f \notin o
        PROVE  TextAfter(r, Len(r), f, docs1[f], shown[f])
    <2>1. PICK n, k, d, e, t :
             n = Len(q) /\ k = Len(r) /\ d = docs[f] /\ e = docs1[f] /\ t = shown[f]
      OBVIOUS
    <2>2. TextAfter(q, n, f, d, t)
      BY <1>3, <2>1 DEF Follows
    <2>3. n \in 0..Len(q) /\ k \in Nat /\ k = (IF n < p THEN n ELSE n - 1) /\ n >= p
      BY <1>1, <2>1
    <2>4. TextAfter(r, k, f, e, t)
      BY <1>2, <1>3, <2>1, <2>2, <2>3
    <2> QED BY <2>1, <2>4
  <1>4. ASSUME NEW asked, Finds(q, docs, asked, o), NEW i \in 1..Len(r), r[i].m = "request", r[i].f \notin o
        PROVE  FindsText(r, i - 1, docs1, r[i], asked)
    <2>1. PICK h \in 1..Len(q) : h = IF i < p THEN i ELSE i + 1
      BY <1>1
    <2>2. r[i] = q[h]
      BY <1>1, <2>1 DEF Without
    <2>3. PICK m : m = q[h]
      OBVIOUS
    <2>4. m.f \in Files /\ m.f \notin o /\ About(m, m.f)
      BY <1>1, <1>4, <2>2, <2>3, MessageFields DEF About
    <2>5. FindsText(q, h - 1, docs, m, asked)
      BY <1>4, <2>2, <2>3 DEF Finds
    <2>6. PICK t \in Texts[m.f] \cup {None} :
             TextAfter(q, h - 1, m.f, docs[m.f], t) /\ asked[m.id].text = IdOf(t)
      BY <2>5 DEF FindsText
    <2>7. PICK n, k, f, d, e : n = h - 1 /\ k = i - 1 /\ f = m.f /\ d = docs[m.f] /\ e = docs1[m.f]
      OBVIOUS
    <2>8. n \in 0..Len(q) /\ k \in Nat /\ k = IF n < p THEN n ELSE n - 1
      BY <1>1, <2>1, <2>7
    <2>9. DocMessage(q[p], f) => n >= p
      <3>1. ASSUME DocMessage(q[p], f), i < p PROVE FALSE
        <4>1. h = i /\ i \in 1..(p - 1) /\ q[i] = m
          BY <1>1, <2>1, <2>3, <3>1
        <4> QED BY <2>4, <2>7, <3>1, <4>1
      <3> QED BY <1>1, <2>1, <2>7, <3>1
    <2>10. TextAfter(q, n, f, d, t) /\ f \in Files /\ f \notin o /\ d = docs[f] /\ e = docs1[f]
      BY <2>4, <2>6, <2>7
    <2>11. TextAfter(r, k, f, e, t)
      BY <1>2, <2>8, <2>9, <2>10
    <2>12. FindsText(r, i - 1, docs1, m, asked)
      BY <2>6, <2>7, <2>11 DEF FindsText
    <2> QED BY <2>2, <2>3, <2>12
  <1> QED BY <1>3, <1>4 DEF Follows, Finds

\* A message enters the queue and the editor shows what it says.
LEMMA StreamSent ==
  ASSUME NEW q \in Seq(Message), NEW m \in Message, NEW docs, NEW shown, NEW shown1, NEW asked, NEW asked1,
         NEW o, Follows(q, docs, shown, o), Finds(q, docs, asked, o),
         \A f \in Files : shown1[f] = IF DocMessage(m, f) THEN Carried(m) ELSE shown[f],
         \A f \in Files : shown[f] \in Texts[f] \cup {None},
         \A i \in 1..Len(q) : q[i].m = "request" => asked1[q[i].id] = asked[q[i].id],
         m.m = "request" => asked1[m.id].text = IdOf(shown[m.f])
  PROVE  Follows(Append(q, m), docs, shown1, o) /\ Finds(Append(q, m), docs, asked1, o)
  <1>1. PICK r, n : r = Append(q, m) /\ n = Len(q)
    OBVIOUS
  <1>2. /\ n \in Nat /\ Len(r) = n + 1 /\ r[n + 1] = m /\ \A i \in 1..n : r[i] = q[i] /\ q[i] \in Message
    BY <1>1
  <1>3. ASSUME NEW f \in Files, f \notin o PROVE TextAfter(r, n, f, docs[f], shown[f])
    <2>1. PICK d, t : d = docs[f] /\ t = shown[f]
      OBVIOUS
    <2>2. TextAfter(q, n, f, d, t)
      BY <1>1, <1>3, <2>1 DEF Follows
    <2>3. TextAfter(r, n, f, d, t)
      BY <1>2, <2>2, TextSame
    <2> QED BY <2>1, <2>3
  <1>4. ASSUME NEW f \in Files, f \notin o PROVE TextAfter(r, n + 1, f, docs[f], shown1[f])
    <2>1. CASE DocMessage(m, f)
      <3>1. n + 1 \in 1..(n + 1) /\ DocMessage(r[n + 1], f) /\ Carried(r[n + 1]) = shown1[f]
        BY <1>2, <2>1
      <3>2. \A i \in 1..(n + 1) : ~(i > n + 1)
        BY <1>2
      <3> QED BY <3>1, <3>2 DEF TextAfter
    <2>2. CASE ~DocMessage(m, f)
      <3>1. shown1[f] = shown[f] /\ ~DocMessage(r[n + 1], f)
        BY <1>2, <2>2
      <3>2. \A i \in 1..(n + 1) : i \in 1..n \/ i = n + 1
        BY <1>2
      <3>3. \A i \in 1..n : i \in 1..(n + 1)
        BY <1>2
      <3> QED BY <1>3, <1>4, <3>1, <3>2, <3>3 DEF TextAfter
    <2> QED BY <2>1, <2>2
  <1>5. ASSUME NEW i \in 1..(n + 1), r[i].m = "request", r[i].f \notin o
        PROVE  FindsText(r, i - 1, docs, r[i], asked1)
    <2>1. CASE i = n + 1
      <3>1. i - 1 = n /\ r[i] = m /\ m.m = "request" /\ m.f \in Files /\ m.f \notin o
        BY <1>2, <1>5, <2>1, MessageFields
      <3>2. TextAfter(r, n, m.f, docs[m.f], shown[m.f]) /\ shown[m.f] \in Texts[m.f] \cup {None}
        BY <1>3, <3>1
      <3>3. FindsText(r, n, docs, m, asked1)
        BY <3>1, <3>2 DEF FindsText
      <3> QED BY <3>1, <3>3
    <2>2. CASE i # n + 1
      <3>1. i \in 1..n /\ r[i] = q[i] /\ i - 1 \in Nat
        BY <1>2, <2>2
      <3>2. PICK x : x = q[i]
        OBVIOUS
      <3>3. FindsText(q, i - 1, docs, x, asked) /\ asked1[x.id] = asked[x.id]
        BY <1>1, <1>5, <3>1, <3>2 DEF Finds
      <3>4. PICK t \in Texts[x.f] \cup {None} :
               TextAfter(q, i - 1, x.f, docs[x.f], t) /\ asked[x.id].text = IdOf(t)
        BY <3>3 DEF FindsText
      <3>5. PICK f, d, k : f = x.f /\ d = docs[x.f] /\ k = i - 1
        OBVIOUS
      <3>6. \A h \in 1..k : r[h] = q[h]
        BY <1>2, <3>1, <3>5
      <3>7. TextAfter(r, k, f, d, t)
        BY <3>1, <3>4, <3>5, <3>6, TextSame
      <3>8. FindsText(r, i - 1, docs, x, asked1)
        BY <3>3, <3>4, <3>5, <3>7 DEF FindsText
      <3> QED BY <3>1, <3>2, <3>8
    <2> QED BY <2>1, <2>2
  <1>6. Follows(r, docs, shown1, o) /\ Finds(r, docs, asked1, o)
    BY <1>2, <1>4, <1>5 DEF Follows, Finds
  <1> QED BY <1>1, <1>6

----------------------------------------------------------------------------
(* The second layer of the invariant.                                      *)

\* The answer a to a request that was sent as r is as AnswersFresh says.
GoodAnswer(a, r) ==
    /\ a.k = "local" => a.text = r.text
    /\ a.k = "null" /\ r.method = "local" => r.text = ""
    /\ a.k = "edits" => \A e \in a.edits : e.uri = r.f => e.text = r.text

Fresh(answers, asked, o) ==
    \A id \in Ids : \A i \in DOMAIN answers[id] :
        i = 1 /\ (asked[id].f \notin o => GoodAnswer(answers[id][i], asked[id]))

\* AnswersFresh in these terms.
LEMMA FreshMeans == AnswersFresh <=> Fresh(srv.answers, sent, overtaken)
  BY DEF AnswersFresh, Fresh, GoodAnswer

\* Less is said when more documents were overtaken.
LEMMA FewerKept ==
  ASSUME NEW o, NEW o1, o \subseteq o1
  PROVE  /\ \A q, docs, shown : Follows(q, docs, shown, o) => Follows(q, docs, shown, o1)
         /\ \A q, docs, asked : Finds(q, docs, asked, o) => Finds(q, docs, asked, o1)
         /\ \A answers, asked : Fresh(answers, asked, o) => Fresh(answers, asked, o1)
  <1>1. \A f : f \notin o1 => f \notin o
    OBVIOUS
  <1>2. ASSUME NEW q, NEW docs, NEW shown, Follows(q, docs, shown, o) PROVE Follows(q, docs, shown, o1)
    BY <1>1, <1>2 DEF Follows
  <1>3. ASSUME NEW q, NEW docs, NEW asked, Finds(q, docs, asked, o) PROVE Finds(q, docs, asked, o1)
    BY <1>1, <1>3 DEF Finds
  <1>4. ASSUME NEW answers, NEW asked, Fresh(answers, asked, o) PROVE Fresh(answers, asked, o1)
    BY <1>1, <1>4 DEF Fresh
  <1> QED BY <1>2, <1>3, <1>4

\* One answer is added.
LEMMA AnswerAdded ==
  ASSUME NEW answers, NEW asked, NEW o, Fresh(answers, asked, o), DOMAIN answers = Ids, NEW id \in Ids,
         answers[id] = <<>>, NEW a, asked[id].f \notin o => GoodAnswer(a, asked[id])
  PROVE  Fresh([answers EXCEPT ![id] = Append(@, a)], asked, o)
  <1>1. PICK b : b = [answers EXCEPT ![id] = Append(@, a)]
    OBVIOUS
  <1>2. b[id] = <<a>> /\ \A x \in Ids : x # id => b[x] = answers[x]
    BY <1>1
  <1>3. DOMAIN b[id] = {1} /\ b[id][1] = a
    BY <1>2
  <1>4. Fresh(b, asked, o)
    BY <1>2, <1>3 DEF Fresh
  <1> QED BY <1>1, <1>4

\* Requests that stay in the queue when a message leaves it.
LEMMA AskedDropped ==
  ASSUME NEW q \in Seq(Message), NEW r, NEW p \in 1..Len(q), Without(q, p, r), NEW answers, NEW answers1,
         NEW asked, NEW used, Asked(q, answers, asked, used),
         \A id \in Ids : answers1[id] = answers[id] \/ (q[p].m = "request" /\ id = q[p].id)
  PROVE  /\ Asked(r, answers1, asked, used)
         /\ q[p].m = "request" => \A i \in 1..Len(r) : r[i].m = "request" => r[i].id # q[p].id
  <1>1. Len(q) \in Nat /\ Len(r) = Len(q) - 1 /\ \A i \in 1..Len(q) : q[i] \in Message
    BY DEF Without
  <1> DEFINE At(i) == IF i < p THEN i ELSE i + 1
  <1>2. \A i \in 1..Len(r) : r[i] = q[At(i)] /\ At(i) \in 1..Len(q) /\ At(i) # p
    BY <1>1 DEF Without
  <1>3. \A i, j \in 1..Len(r) : At(i) = At(j) => i = j
    BY <1>1
  <1> HIDE DEF At
  <1>4. ASSUME q[p].m = "request", NEW i \in 1..Len(r), r[i].m = "request" PROVE r[i].id # q[p].id
    BY <1>2, <1>4 DEF Asked
  <1>5. ASSUME NEW i \in 1..Len(r), r[i].m = "request"
        PROVE  Unanswered(r[i], answers1, asked, used)
    <2>1. PICK m : m = r[i]
      OBVIOUS
    <2>2. m \in Message /\ m.id \in Ids
      BY <1>1, <1>2, <1>5, <2>1, MessageFields
    <2>3. answers1[m.id] = answers[m.id]
      BY <1>4, <1>5, <2>1, <2>2
    <2>4. Unanswered(m, answers, asked, used)
      BY <1>2, <1>5, <2>1 DEF Asked
    <2>5. Unanswered(m, answers1, asked, used)
      BY <2>3, <2>4 DEF Unanswered
    <2> QED BY <2>1, <2>5
  <1>6. ASSUME NEW i \in 1..Len(r), NEW j \in 1..Len(r), r[i].m = "request", r[j].m = "request",
               r[i].id = r[j].id
        PROVE  i = j
    <2>1. At(i) = At(j)
      BY <1>2, <1>6 DEF Asked
    <2> QED BY <1>3, <2>1
  <1> QED BY <1>4, <1>5, <1>6 DEF Asked

\* The queue holds messages.
LEMMA QueueTyped ==
  ASSUME BaseInv
  PROVE  /\ Waiting \in Seq(Message) /\ Queue \in Seq(Message) /\ DOMAIN srv.answers = Ids
         /\ Batch \in Seq(Message) /\ srv.batch \in Seq(Message) /\ srv.buffered \in Seq(Message)
  <1>1. PICK b, c : b = srv.batch /\ c = srv.buffered
    OBVIOUS
  <1>2. Dispatchable \subseteq Message /\ b \in Seq(Dispatchable) /\ c \in Seq(Dispatchable)
    BY <1>1 DEF Dispatchable, BaseInv
  <1>3. b \in Seq(Message) /\ c \in Seq(Message)
    BY <1>2
  <1>4. b \o c \in Seq(Message)
    BY <1>3
  <1>5. DOMAIN srv.answers = Ids
    BY DEF BaseInv, ServerInv, ServerBut, Shape
  <1> QED BY <1>1, <1>3, <1>4, <1>5 DEF Waiting, Queue, Batch, BaseInv

\* A message is dispatched; what it goes past is overtaken.
LEMMA MessageDispatched ==
  ASSUME BaseInv, StreamInv, NEW at, NEW batch, NEW buffered, NEW m, Handled(at, batch, buffered, m),
         NEW p \in 1..Len(Queue), m = Queue[p], Without(Queue, p, Queue'), Rest,
         overtaken \subseteq overtaken',
         \A f \in Files : f \notin overtaken' => \A i \in 1..(p - 1) :
            /\ DocMessage(m, f) => ~About(Queue[i], f)
            /\ About(m, f) => ~DocMessage(Queue[i], f)
  PROVE  StreamInv'
  <1>1. PICK s : Moved(s, at, batch, buffered) /\ s.pc = "run" /\ Dispatches(s, m, srv')
    BY DEF Handled
  <1>2. PICK q, r, docs, docs1, answers, answers1, o, o1 :
           /\ q = Queue /\ r = Queue' /\ docs = srv.docs /\ docs1 = srv'.docs
           /\ answers = srv.answers /\ answers1 = srv'.answers
           /\ o = overtaken /\ o1 = overtaken'
    OBVIOUS
  <1>3. /\ q \in Seq(Message) /\ Len(q) \in Nat /\ p \in 1..Len(q) /\ m = q[p] /\ m \in Message
        /\ Without(q, p, r) /\ DOMAIN answers = Ids /\ o \subseteq o1
        /\ \A f \in Files : f \notin o1 => \A i \in 1..(p - 1) :
              /\ DocMessage(m, f) => ~About(q[i], f)
              /\ About(m, f) => ~DocMessage(q[i], f)
    <2>1. q \in Seq(Message) /\ DOMAIN answers = Ids
      BY <1>2, QueueTyped
    <2>2. Len(q) \in Nat /\ p \in 1..Len(q)
      BY <1>2, <2>1
    <2>3. m \in Message
      BY <1>2, <2>1, <2>2
    <2> QED BY <1>2, <2>1, <2>2, <2>3
  <1>4. s.docs = docs /\ s.answers = answers /\ s.shutdown = srv.shutdown
    BY <1>1, <1>2 DEF Moved
  <1>5. Used' = Used /\ sent' = sent /\ client' = client
    BY DEF Rest, Used
  <1>6. PICK used : used = Used
    OBVIOUS
  <1>7. Asked(q, answers, sent, used) /\ Unused(answers, sent, used)
    BY <1>2, <1>6 DEF StreamInv, RequestsOpen
  <1>8. m.m = "request" => Unanswered(m, answers, sent, used)
    BY <1>3, <1>7 DEF Asked
  <1>9. m.m = "request" => m.id \in Ids /\ m.f \in Files
    BY <1>3, MessageFields
  <1>10. Fresh(answers, sent, o1)
    <2>1. Fresh(answers, sent, o)
      BY <1>2, FreshMeans DEF StreamInv
    <2> QED BY <1>3, <2>1, FewerKept
  <1>20. ASSUME ~srv.shutdown PROVE Follows(q, docs, client, o1) /\ Finds(q, docs, sent, o1)
    <2>1. Follows(q, docs, client, o) /\ Finds(q, docs, sent, o)
      BY <1>2, <1>20 DEF StreamInv, DocumentsFollow
    <2> QED BY <1>3, <2>1, FewerKept
  \* Documents and the requests that stay.
  <1>11. ASSUME ~srv'.shutdown
         PROVE  Follows(r, docs1, client, o1) /\ Finds(r, docs1, sent, o1)
    <2>1. ~srv.shutdown /\ ~s.shutdown
      BY <1>1, <1>4, <1>11 DEF Dispatches
    <2>2. Follows(q, docs, client, o1) /\ Finds(q, docs, sent, o1)
      BY <1>20, <2>1
    <2>3. /\ \A f \in Files : ~DocMessage(m, f) => docs1[f] = docs[f]
          /\ \A f \in Files : DocMessage(m, f) => Shown(docs1[f]) = Carried(m)
      BY <1>1, <1>2, <1>4, <2>1 DEF Dispatches
    <2>4. /\ \A f \in Files : f \notin o1 /\ ~DocMessage(q[p], f) => docs1[f] = docs[f]
          /\ \A f \in Files : f \notin o1 /\ DocMessage(q[p], f) =>
                Shown(docs1[f]) = Carried(q[p]) /\ \A i \in 1..(p - 1) : ~About(q[i], f)
      BY <1>3, <2>3
    <2> QED BY <1>3, <2>2, <2>4, StreamHandled
  <1>12. ASSUME \A id \in Ids : answers1[id] = answers[id] \/ (m.m = "request" /\ id = m.id)
         PROVE  /\ Asked(r, answers1, sent, used)
                /\ m.m = "request" => \A i \in 1..Len(r) : r[i].m = "request" => r[i].id # m.id
    <2>1. \A id \in Ids : answers1[id] = answers[id] \/ (q[p].m = "request" /\ id = q[p].id)
      BY <1>3, <1>12
    <2>2. /\ Asked(r, answers1, sent, used)
          /\ q[p].m = "request" => \A i \in 1..Len(r) : r[i].m = "request" => r[i].id # q[p].id
      BY <1>3, <1>7, <2>1, AskedDropped
    <2> QED BY <1>3, <2>2
  \* The answer.
  <1>13. /\ Asked(r, answers1, sent, used) /\ Unused(answers1, sent, used) /\ Waits(srv', r, used)
         /\ Fresh(answers1, sent, o1)
    <2>1. AnswersTo(s, m, srv')
      BY <1>1 DEF Dispatches
    <2>2. CASE m.m = "request" /\ srv'.pc # "wait"
      <3>1. PICK a : srv'.answers = Answered(s, m.id, a) /\ AnswerOk(s, m, a)
        BY <2>1, <2>2 DEF AnswersTo
      <3>2. answers1 = [answers EXCEPT ![m.id] = Append(@, a)]
        BY <1>2, <1>4, <3>1 DEF Answered
      <3>3. \A id \in Ids : answers1[id] = answers[id] \/ id = m.id
        BY <1>3, <3>2
      <3>4. Asked(r, answers1, sent, used)
        BY <1>12, <2>2, <3>3
      <3>5. Unused(answers1, sent, used)
        <4>1. PICK h : h = m.id
          OBVIOUS
        <4>2. h \in Ids /\ h <= used
          BY <1>8, <1>9, <2>2, <4>1 DEF Unanswered
        <4>3. \A id \in Ids : id > used => id # h
          BY <1>6, <4>2, ClientAssumption DEF Ids, Used, BaseInv, ClientInv
        <4> QED BY <1>7, <3>3, <4>1, <4>3 DEF Unused
      <3>6. ASSUME m.f \notin o1 PROVE GoodAnswer(a, sent[m.id])
        <4>1. sent[m.id].f = m.f /\ sent[m.id].method = m.method
          BY <1>8, <2>2 DEF Unanswered
        <4>2. CASE a.k \notin {"local", "null", "edits"}
          BY <4>2 DEF GoodAnswer
        <4>3. CASE a.k \in {"local", "null", "edits"}
          <5>1. ~srv.shutdown
            BY <1>4, <3>1, <4>3 DEF AnswerOk
          <5>2. FindsText(q, p - 1, docs, m, sent)
            BY <1>3, <1>20, <2>2, <3>6, <5>1 DEF Finds
          <5>3. PICK t : TextAfter(q, p - 1, m.f, docs[m.f], t) /\ sent[m.id].text = IdOf(t)
            BY <5>2 DEF FindsText
          <5>4. \A i \in 1..(p - 1) : ~DocMessage(q[i], m.f)
            BY <1>3, <1>9, <2>2, <3>6 DEF About
          <5>5. Shown(docs[m.f]) = t
            BY <5>3, <5>4 DEF TextAfter
          <5> QED BY <1>4, <3>1, <4>1, <5>3, <5>5 DEF AnswerOk, GoodAnswer, IdOf
        <4> QED BY <4>2, <4>3
      <3>7. Fresh(answers1, sent, o1)
        <4>1. PICK h : h = m.id
          OBVIOUS
        <4>2. h \in Ids /\ answers[h] = <<>> /\ (sent[h].f \notin o1 => GoodAnswer(a, sent[h]))
          BY <1>8, <1>9, <2>2, <3>6, <4>1 DEF Unanswered
        <4>3. Fresh([answers EXCEPT ![h] = Append(@, a)], sent, o1)
          BY <1>3, <1>10, <4>2, AnswerAdded
        <4> QED BY <3>2, <4>1, <4>3
      <3> QED BY <2>2, <3>4, <3>5, <3>7 DEF Waits
    <2>3. CASE m.m = "request" /\ srv'.pc = "wait"
      <3>1. srv'.answers = s.answers /\ srv'.then = [op |-> "reindex", id |-> m.id]
        BY <2>1, <2>3 DEF AnswersTo
      <3>2. answers1 = answers /\ srv'.then.id = m.id
        BY <1>2, <1>4, <3>1
      <3>3. /\ Asked(r, answers1, sent, used)
            /\ \A i \in 1..Len(r) : r[i].m = "request" => r[i].id # m.id
        BY <1>12, <2>3, <3>2
      <3>4. Waits(srv', r, used)
        BY <1>2, <1>8, <1>9, <2>3, <3>2, <3>3 DEF Waits, Unanswered
      <3> QED BY <1>7, <1>10, <3>2, <3>3, <3>4
    <2>4. CASE m.m # "request"
      <3>1. srv'.answers = s.answers /\ (srv'.pc = "wait" => srv'.then.op # "reindex")
        BY <2>1, <2>4 DEF AnswersTo
      <3>2. answers1 = answers
        BY <1>2, <1>4, <3>1
      <3>3. Asked(r, answers1, sent, used)
        BY <1>12, <3>2
      <3>4. Waits(srv', r, used)
        BY <3>1 DEF Waits
      <3> QED BY <1>7, <1>10, <3>2, <3>3, <3>4
    <2> QED BY <2>2, <2>3, <2>4
  <1>14. RequestsOpen'
    BY <1>2, <1>5, <1>6, <1>13 DEF RequestsOpen
  <1>15. DocumentsFollow'
    BY <1>2, <1>5, <1>11 DEF DocumentsFollow
  <1>16. AnswersFresh'
    BY <1>2, <1>5, <1>13 DEF AnswersFresh, Fresh, GoodAnswer
  <1> QED BY <1>14, <1>15, <1>16 DEF StreamInv


\* A message that is neither about a document nor a request leaves the queue,
\* or none does, and the wait may end.
LEMMA QueueKept ==
  ASSUME BaseInv, StreamInv, Rest, overtaken' = overtaken, srv'.docs = srv.docs, srv'.shutdown = srv.shutdown,
         \/ Queue' = Queue
         \/ \E p \in 1..Len(Queue) : Without(Queue, p, Queue') /\ Queue[p].m \in {"tick", "closed", "reply"},
         \/ /\ srv'.answers = srv.answers
            /\ srv'.pc = "wait" => srv.pc = "wait" /\ srv'.then = srv.then
         \/ srv.pc = "wait" /\ srv.then.op = "reindex" /\ srv'.pc # "wait"
              /\ srv'.answers = Answered(srv, srv.then.id, [k |-> "count"])
  PROVE  StreamInv'
  <1>1. PICK q, r, docs, answers, answers1, o :
           /\ q = Queue /\ r = Queue' /\ docs = srv.docs /\ o = overtaken
           /\ answers = srv.answers /\ answers1 = srv'.answers
    OBVIOUS
  <1>2. q \in Seq(Message) /\ DOMAIN answers = Ids
    BY <1>1, QueueTyped
  <1>3. Used' = Used /\ sent' = sent /\ client' = client
    BY DEF Rest, Used
  <1>4. PICK used : used = Used
    OBVIOUS
  <1>5. Asked(q, answers, sent, used) /\ Unused(answers, sent, used) /\ Waits(srv, q, used)
    BY <1>1, <1>4 DEF StreamInv, RequestsOpen
  <1>6. Fresh(answers, sent, o)
    BY <1>1, FreshMeans DEF StreamInv
  \* The queue alone.
  <1>7. /\ Asked(r, answers, sent, used)
        /\ Follows(q, docs, client, o) => Follows(r, docs, client, o)
        /\ Finds(q, docs, sent, o) => Finds(r, docs, sent, o)
        /\ \A i \in 1..Len(r) : \E j \in 1..Len(q) : r[i] = q[j]
    <2>1. CASE r = q
      BY <1>5, <2>1
    <2>2. CASE r # q
      <3>1. PICK p \in 1..Len(q) : Without(q, p, r) /\ q[p].m \in {"tick", "closed", "reply"}
        BY <1>1, <2>2
      <3>2. \A f \in Files : ~DocMessage(q[p], f)
        BY <3>1 DEF DocMessage
      <3>3. /\ \A f \in Files : f \notin o /\ ~DocMessage(q[p], f) => docs[f] = docs[f]
            /\ \A f \in Files : f \notin o /\ DocMessage(q[p], f) =>
                  Shown(docs[f]) = Carried(q[p]) /\ \A i \in 1..(p - 1) : ~About(q[i], f)
        BY <3>2
      <3>4. /\ Follows(q, docs, client, o) => Follows(r, docs, client, o)
            /\ Finds(q, docs, sent, o) => Finds(r, docs, sent, o)
        BY <1>2, <3>1, <3>3, StreamHandled
      <3>5. \A id \in Ids : answers[id] = answers[id] \/ (q[p].m = "request" /\ id = q[p].id)
        OBVIOUS
      <3>6. Asked(r, answers, sent, used)
        BY <1>2, <1>5, <3>1, <3>5, AskedDropped
      <3>7. \A i \in 1..Len(r) : \E j \in 1..Len(q) : r[i] = q[j]
        <4>1. Len(q) \in Nat
          BY <1>2
        <4>2. \A i \in 1..Len(r) : /\ r[i] = IF i < p THEN q[i] ELSE q[i + 1]
                                   /\ i \in 1..Len(q) /\ i + 1 \in 1..Len(q)
          BY <3>1, <4>1 DEF Without
        <4> QED BY <4>2
      <3> QED BY <3>4, <3>6, <3>7
    <2> QED BY <2>1, <2>2
  <1>8. DocumentsFollow'
    BY <1>1, <1>3, <1>7 DEF DocumentsFollow, StreamInv
  \* The answers.
  <1>9. /\ Asked(r, answers1, sent, used) /\ Unused(answers1, sent, used) /\ Waits(srv', r, used)
        /\ Fresh(answers1, sent, o)
    <2>1. CASE /\ srv'.answers = srv.answers
               /\ srv'.pc = "wait" => srv.pc = "wait" /\ srv'.then = srv.then
      <3>1. answers1 = answers
        BY <1>1, <2>1
      <3>2. Waits(srv', r, used)
        BY <1>1, <1>5, <1>7, <2>1 DEF Waits
      <3> QED BY <1>5, <1>6, <1>7, <3>1, <3>2
    <2>2. CASE srv.pc = "wait" /\ srv.then.op = "reindex" /\ srv'.pc # "wait"
                 /\ srv'.answers = Answered(srv, srv.then.id, [k |-> "count"])
      <3>1. PICK h, a : h = srv.then.id /\ a = [k |-> "count"]
        OBVIOUS
      <3>2. answers1 = [answers EXCEPT ![h] = Append(@, a)]
        BY <1>1, <2>2, <3>1 DEF Answered
      <3>3. /\ h \in Ids /\ h <= used /\ answers[h] = <<>>
            /\ \A i \in 1..Len(q) : q[i].m = "request" => q[i].id # h
        BY <1>1, <1>5, <2>2, <3>1 DEF Waits
      <3>4. \A id \in Ids : id # h => answers1[id] = answers[id]
        BY <1>2, <3>2
      <3>5. Asked(r, answers1, sent, used)
        <4>1. ASSUME NEW i \in 1..Len(r), r[i].m = "request"
              PROVE  Unanswered(r[i], answers1, sent, used)
          <5>1. PICK j \in 1..Len(q) : r[i] = q[j]
            BY <1>7
          <5>2. PICK m : m = q[j]
            OBVIOUS
          <5>3. m.m = "request" /\ m.id # h /\ m \in Message
            BY <1>2, <3>3, <4>1, <5>1, <5>2
          <5>4. answers1[m.id] = answers[m.id]
            BY <3>4, <5>3, MessageFields
          <5>5. Unanswered(m, answers, sent, used)
            BY <1>5, <5>2, <5>3 DEF Asked
          <5>6. Unanswered(m, answers1, sent, used)
            BY <5>4, <5>5 DEF Unanswered
          <5> QED BY <5>1, <5>2, <5>6
        <4> QED BY <1>7, <4>1 DEF Asked
      <3>6. Unused(answers1, sent, used)
        <4>1. \A id \in Ids : id > used => id # h
          BY <1>4, <3>3, ClientAssumption DEF Ids, Used, BaseInv, ClientInv
        <4> QED BY <1>5, <3>4, <4>1 DEF Unused
      <3>7. Fresh(answers1, sent, o)
        <4>1. GoodAnswer(a, sent[h])
          BY <3>1 DEF GoodAnswer
        <4>2. Fresh([answers EXCEPT ![h] = Append(@, a)], sent, o)
          BY <1>2, <1>6, <3>3, <4>1, AnswerAdded
        <4> QED BY <3>2, <4>2
      <3> QED BY <2>2, <3>5, <3>6, <3>7 DEF Waits
    <2> QED BY <2>1, <2>2
  <1>10. RequestsOpen'
    BY <1>1, <1>3, <1>4, <1>9 DEF RequestsOpen
  <1>11. AnswersFresh'
    BY <1>1, <1>3, <1>9 DEF AnswersFresh, Fresh, GoodAnswer
  <1> QED BY <1>8, <1>10, <1>11 DEF StreamInv

\* What a message that enters the queue leaves as it was.
SameServer ==
    /\ srv'.docs = srv.docs /\ srv'.shutdown = srv.shutdown /\ srv'.answers = srv.answers
    /\ srv'.pc = srv.pc /\ srv'.then = srv.then

\* A message that is no request is sent.
LEMMA OtherSent ==
  ASSUME BaseInv, StreamInv, SameServer, overtaken' = overtaken, NEW m \in Message, m.m # "request", Queue' = Append(Queue, m),
         sent' = sent, budget'.requests = budget.requests,
         \A f \in Files : client'[f] = IF DocMessage(m, f) THEN Carried(m) ELSE client[f]
  PROVE  StreamInv'
  <1>1. PICK q, r, docs, answers, n :
           q = Queue /\ r = Queue' /\ docs = srv.docs /\ answers = srv.answers /\ n = Len(q)
    OBVIOUS
  <1>2. q \in Seq(Message) /\ r = Append(q, m) /\ srv'.docs = docs /\ srv'.answers = answers
    BY <1>1, QueueTyped DEF SameServer
  <1>3. /\ n \in Nat /\ Len(q) = n /\ Len(r) = n + 1 /\ r[n + 1] = m /\ \A i \in 1..n : r[i] = q[i]
    BY <1>1, <1>2
  <1>4. Used' = Used
    BY DEF Used
  <1>5. PICK used : used = Used
    OBVIOUS
  <1>6. Asked(q, answers, sent, used) /\ Unused(answers, sent, used) /\ Waits(srv, q, used)
    BY <1>1, <1>5 DEF StreamInv, RequestsOpen
  <1>7. \A i \in 1..Len(r) : r[i].m = "request" => i \in 1..Len(q) /\ r[i] = q[i]
    <2>1. \A i \in 1..(n + 1) : i \in 1..n \/ i = n + 1
      BY <1>3
    <2> QED BY <1>3, <2>1
  <1>8. Asked(r, answers, sent, used)
    BY <1>6, <1>7 DEF Asked
  <1>9. Waits(srv', r, used)
    BY <1>6, <1>7 DEF Waits, SameServer
  <1>10. RequestsOpen'
    BY <1>1, <1>2, <1>4, <1>5, <1>6, <1>8, <1>9 DEF RequestsOpen
  <1>11. ASSUME ~srv'.shutdown PROVE Follows(r, docs, client', overtaken) /\ Finds(r, docs, sent, overtaken)
    <2>1. Follows(q, docs, client, overtaken) /\ Finds(q, docs, sent, overtaken)
      BY <1>1, <1>11 DEF StreamInv, DocumentsFollow, SameServer
    <2>2. \A f \in Files : client[f] \in Texts[f] \cup {None}
      BY DEF BaseInv, ClientInv
    <2>3. PICK shown1 : shown1 = client'
      OBVIOUS
    <2>4. Follows(Append(q, m), docs, shown1, overtaken) /\ Finds(Append(q, m), docs, sent, overtaken)
      BY <1>2, <2>1, <2>2, <2>3, StreamSent
    <2> QED BY <1>2, <2>3, <2>4
  <1>12. DocumentsFollow'
    BY <1>1, <1>2, <1>11 DEF DocumentsFollow
  <1>13. AnswersFresh'
    <2>1. Fresh(answers, sent, overtaken)
      BY <1>1, FreshMeans DEF StreamInv
    <2> QED BY <1>2, <2>1 DEF AnswersFresh, Fresh, GoodAnswer
  <1> QED BY <1>10, <1>12, <1>13 DEF StreamInv

\* A request is sent, with the next id.
LEMMA RequestSent ==
  ASSUME BaseInv, StreamInv, SameServer, overtaken' = overtaken, NEW m \in Message, m.m = "request", Queue' = Append(Queue, m),
         NEW x, x.f = m.f, x.method = m.method, x # None, x.text = IdOf(client[m.f]),
         m.id = Used + 1, sent' = [sent EXCEPT ![m.id] = x], Used' = Used + 1, client' = client
  PROVE  StreamInv'
  <1>1. PICK q, r, docs, answers, n, h :
           /\ q = Queue /\ r = Queue' /\ docs = srv.docs /\ answers = srv.answers /\ n = Len(q)
           /\ h = m.id
    OBVIOUS
  <1>2. q \in Seq(Message) /\ r = Append(q, m) /\ srv'.docs = docs /\ srv'.answers = answers
    BY <1>1, QueueTyped DEF SameServer
  <1>3. /\ n \in Nat /\ Len(q) = n /\ Len(r) = n + 1 /\ r[n + 1] = m
        /\ \A i \in 1..n : r[i] = q[i] /\ q[i] \in Message
    BY <1>1, <1>2
  <1>4. PICK used \in Int : used = Used
    <2>1. PICK k \in 0..MaxRequests : k = budget.requests
      BY DEF BaseInv, ClientInv
    <2>2. Used = MaxRequests - k
      BY <2>1 DEF Used
    <2> QED BY <2>1, <2>2, ClientAssumption
  <1>5. h \in Ids /\ m.f \in Files /\ h = used + 1 /\ Ids \subseteq Int
    BY <1>1, <1>4, MessageFields, ClientAssumption DEF Ids
  <1>6. Asked(q, answers, sent, used) /\ Unused(answers, sent, used) /\ Waits(srv, q, used)
    BY <1>1, <1>4 DEF StreamInv, RequestsOpen
  <1>7. PICK sent1 : sent1 = sent'
    OBVIOUS
  <1>8. sent1[h] = x /\ \A id \in Ids : id # h => sent1[id] = sent[id]
    BY <1>1, <1>5, <1>7 DEF BaseInv, ClientInv
  <1>9. answers[h] = <<>> /\ h > used
    BY <1>4, <1>5, <1>6 DEF Unused
  \* The requests before it have other ids.
  <1>10. ASSUME NEW i \in 1..n, q[i].m = "request"
         PROVE  /\ q[i].id \in Ids /\ q[i].id # h /\ q[i].id <= used
                /\ sent1[q[i].id] = sent[q[i].id] /\ Unanswered(q[i], answers, sent, used)
    <2>1. PICK z : z = q[i]
      OBVIOUS
    <2>2. z.id \in Ids
      BY <1>3, <1>10, <2>1, MessageFields
    <2>3. Unanswered(z, answers, sent, used)
      BY <1>3, <1>6, <1>10, <2>1 DEF Asked
    <2>4. z.id <= used
      BY <2>3 DEF Unanswered
    <2>5. z.id # h
      BY <1>4, <1>5, <2>2, <2>4
    <2> QED BY <1>8, <2>1, <2>2, <2>3, <2>4, <2>5
  <1>11. \A i \in 1..(n + 1) : i \in 1..n \/ i = n + 1
    BY <1>3
  <1>12. ASSUME NEW i \in 1..(n + 1), r[i].m = "request"
         PROVE  Unanswered(r[i], answers, sent1, used + 1)
    <2>1. CASE i \in 1..n
      <3>1. PICK z : z = q[i]
        OBVIOUS
      <3>2. z = r[i] /\ Unanswered(z, answers, sent, used) /\ sent1[z.id] = sent[z.id] /\ z.id \in Ids
        BY <1>3, <1>10, <1>12, <2>1, <3>1
      <3>3. z.id <= used + 1
        <4>1. PICK y \in Int : y = z.id
          BY <1>5, <3>2
        <4>2. y <= used
          BY <3>2, <4>1 DEF Unanswered
        <4>3. y <= used + 1
          BY <4>2
        <4> QED BY <4>1, <4>3
      <3>4. Unanswered(z, answers, sent1, used + 1)
        BY <3>2, <3>3 DEF Unanswered
      <3> QED BY <3>2, <3>4
    <2>2. CASE i = n + 1
      <3>1. Unanswered(m, answers, sent1, used + 1)
        BY <1>1, <1>4, <1>5, <1>8, <1>9 DEF Unanswered
      <3> QED BY <1>3, <2>2, <3>1
    <2> QED BY <1>11, <2>1, <2>2
  <1>13. ASSUME NEW i \in 1..(n + 1), NEW j \in 1..(n + 1), r[i].m = "request", r[j].m = "request",
                r[i].id = r[j].id
         PROVE  i = j
    <2>1. CASE i \in 1..n /\ j \in 1..n
      BY <1>3, <1>6, <1>13, <2>1 DEF Asked
    <2>2. CASE i \in 1..n /\ j = n + 1
      BY <1>1, <1>3, <1>10, <1>13, <2>2
    <2>3. CASE i = n + 1 /\ j \in 1..n
      BY <1>1, <1>3, <1>10, <1>13, <2>3
    <2> QED BY <1>11, <2>1, <2>2, <2>3
  <1>14. Asked(r, answers, sent1, used + 1)
    BY <1>3, <1>12, <1>13 DEF Asked
  <1>15. Unused(answers, sent1, used + 1)
    <2>1. \A id \in Ids : id > used + 1 => id > used /\ id # h
      BY <1>4, <1>5
    <2> QED BY <1>6, <1>8, <2>1 DEF Unused
  <1>16. Waits(srv', r, used + 1)
    <2>1. SUFFICES ASSUME srv'.pc = "wait", srv'.then.op = "reindex"
                   PROVE  /\ srv'.then.id \in Ids /\ srv'.then.id <= used + 1
                          /\ srv'.answers[srv'.then.id] = <<>>
                          /\ \A i \in 1..Len(r) : r[i].m = "request" => r[i].id # srv'.then.id
      BY DEF Waits
    <2>2. PICK w : w = srv.then.id
      OBVIOUS
    <2>3. /\ w \in Ids /\ w <= used /\ answers[w] = <<>>
          /\ \A i \in 1..Len(q) : q[i].m = "request" => q[i].id # w
      BY <1>1, <1>6, <2>1, <2>2 DEF Waits, SameServer
    <2>4. w # h /\ w <= used + 1
      BY <1>4, <1>5, <2>3
    <2>5. \A i \in 1..Len(r) : r[i].m = "request" => r[i].id # w
      BY <1>1, <1>3, <1>11, <2>3, <2>4
    <2> QED BY <1>2, <2>2, <2>3, <2>4, <2>5 DEF SameServer
  <1>17. RequestsOpen'
    BY <1>1, <1>2, <1>4, <1>7, <1>14, <1>15, <1>16 DEF RequestsOpen
  <1>18. ASSUME ~srv'.shutdown PROVE Follows(r, docs, client, overtaken) /\ Finds(r, docs, sent1, overtaken)
    <2>1. Follows(q, docs, client, overtaken) /\ Finds(q, docs, sent, overtaken)
      BY <1>1, <1>18 DEF StreamInv, DocumentsFollow, SameServer
    <2>2. \A f \in Files : client[f] \in Texts[f] \cup {None}
      BY DEF BaseInv, ClientInv
    <2>3. \A f \in Files : client[f] = IF DocMessage(m, f) THEN Carried(m) ELSE client[f]
      BY DEF DocMessage
    <2>4. \A i \in 1..Len(q) : q[i].m = "request" => sent1[q[i].id] = sent[q[i].id]
      BY <1>3, <1>10
    <2>5. m.m = "request" => sent1[m.id].text = IdOf(client[m.f])
      BY <1>1, <1>8
    <2>6. Follows(Append(q, m), docs, client, overtaken) /\ Finds(Append(q, m), docs, sent1, overtaken)
      BY <1>2, <2>1, <2>2, <2>3, <2>4, <2>5, StreamSent
    <2> QED BY <1>2, <2>6
  <1>19. DocumentsFollow'
    BY <1>1, <1>2, <1>7, <1>18 DEF DocumentsFollow
  <1>20. Fresh(answers, sent1, overtaken)
    <2>1. Fresh(answers, sent, overtaken)
      BY <1>1, FreshMeans DEF StreamInv
    <2>2. DOMAIN answers[h] = {}
      BY <1>9
    <2> QED BY <1>8, <2>1, <2>2 DEF Fresh
  <1>21. AnswersFresh'
    BY <1>2, <1>7, <1>20 DEF AnswersFresh, Fresh, GoodAnswer
  <1> QED BY <1>17, <1>19, <1>21 DEF StreamInv


----------------------------------------------------------------------------
(* The main loop and the client.                                           *)

\* Messages that leave from either end of two queues.
LEMMA QueueParts ==
  ASSUME NEW S, NEW a \in Seq(S), NEW b \in Seq(S)
  PROVE  /\ a # <<>> => /\ a \o b # <<>> /\ (a \o b)[1] = Head(a)
                        /\ Without(a \o b, 1, Tail(a) \o b)
         /\ b # <<>> => /\ Len(a) + 1 \in 1..Len(a \o b) /\ (a \o b)[Len(a) + 1] = Head(b)
                        /\ Without(a \o b, Len(a) + 1, a \o Tail(b))
                        /\ Append(a, Head(b)) \o Tail(b) = a \o b
         /\ \A m \in S : a \o Append(b, m) = Append(a \o b, m)
  <1>1. ASSUME a # <<>>
        PROVE  a \o b # <<>> /\ (a \o b)[1] = Head(a) /\ Without(a \o b, 1, Tail(a) \o b)
    BY <1>1 DEF Without
  <1>2. ASSUME b # <<>>
        PROVE  /\ Len(a) + 1 \in 1..Len(a \o b) /\ (a \o b)[Len(a) + 1] = Head(b)
               /\ Without(a \o b, Len(a) + 1, a \o Tail(b))
    BY <1>2 DEF Without
  <1>3. ASSUME b # <<>> PROVE Append(a, Head(b)) \o Tail(b) = a \o b
    BY <1>3
  <1>4. ASSUME NEW m \in S PROVE a \o Append(b, m) = Append(a \o b, m)
    OBVIOUS
  <1> QED BY <1>1, <1>2, <1>3, <1>4

\* The main loop handles the queue in order but for what comes from the channel
\* while messages are buffered.
LEMMA ServerStepStream ==
  ASSUME BaseInv, PlaceInv, StreamInv, ServerStep
  PROVE  PlaceInv' /\ StreamInv'
  <1>1. /\ Waiting \in Seq(Message) /\ chan \in Seq(Message) /\ Queue = Waiting \o chan
        /\ Batch \in Seq(Message) /\ srv.batch \in Seq(Message) /\ srv.buffered \in Seq(Message)
    BY QueueTyped DEF BaseInv, Queue
  <1>2. Rest
    BY ServerStepBase
  <1>3. CASE DispatchBuffered
    <2>1. PICK b, c, m : b = Batch /\ c = (IF srv.at = "top" THEN <<>> ELSE srv.buffered) /\ m = Head(Batch)
      OBVIOUS
    <2>2. b # <<>> /\ Handled("recv", Tail(b), c, m) /\ b \in Seq(Message) /\ c \in Seq(Message)
      BY <1>1, <1>3, <2>1, BufferedStep
    <2>3. srv'.at = "recv" /\ srv'.batch = Tail(b) /\ srv'.buffered = c
      BY <2>2 DEF Handled, Moved, Dispatches
    <2>4. Waiting = b \o c
      <3>1. CASE srv.at = "top"
        <4>1. Waiting = <<>> \o b /\ c = <<>>
          BY <2>1, <3>1 DEF Waiting, Batch, PlaceInv
        <4> QED BY <2>2, <4>1
      <3>2. CASE srv.at # "top"
        BY <2>1, <3>2 DEF Waiting, Batch
      <3> QED BY <3>1, <3>2
    <2>5. chan' = chan /\ overtaken' = overtaken
      BY <1>3 DEF DispatchBuffered
    <2>6. PICK e : e = c \o chan
      OBVIOUS
    <2>7. e \in Seq(Message) /\ Queue = b \o e /\ Queue' = Tail(b) \o e
      <3>1. e \in Seq(Message) /\ (b \o c) \o chan = b \o e /\ (Tail(b) \o c) \o chan = Tail(b) \o e
        <4>1. PICK x : x = Tail(b)
          OBVIOUS
        <4>2. PICK S, d : S = Message /\ d = chan
          OBVIOUS
        <4>3. b \in Seq(S) /\ c \in Seq(S) /\ d \in Seq(S) /\ x \in Seq(S) /\ e \in Seq(S)
          BY <1>1, <2>2, <2>6, <4>1, <4>2
        <4>4. (b \o c) \o d = b \o (c \o d)
          BY <4>3
        <4>5. (x \o c) \o d = x \o (c \o d)
          BY <4>3
        <4> QED BY <2>6, <4>1, <4>2, <4>3, <4>4, <4>5
      <3>2. Queue' = (Tail(b) \o c) \o chan
        BY <2>3, <2>5 DEF Queue, Waiting
      <3> QED BY <1>1, <2>4, <3>1, <3>2
    <2>8. PICK p : p = 1
      OBVIOUS
    <2>9. p \in 1..Len(Queue) /\ m = Queue[p] /\ Without(Queue, p, Queue')
      <3>1. b \o e # <<>> /\ (b \o e)[1] = Head(b) /\ Without(b \o e, 1, Tail(b) \o e)
        BY <2>2, <2>7, QueueParts
      <3>2. b \o e \in Seq(Message)
        BY <2>2, <2>7
      <3>3. 1 \in 1..Len(b \o e)
        BY <3>1, <3>2
      <3> QED BY <2>1, <2>7, <2>8, <3>1, <3>3
    <2>10. \A i \in 1..(p - 1) : FALSE
      BY <2>8
    <2>11. StreamInv'
      BY <1>2, <2>2, <2>5, <2>9, <2>10, MessageDispatched
    <2> QED BY <2>3, <2>11 DEF PlaceInv
  \* Whatever leaves the channel leaves the queue after what is buffered.
  <1>4. ASSUME chan # <<>>, chan' = Tail(chan), srv'.batch = srv.batch, srv'.buffered = srv.buffered,
               NEW p, p = Len(Waiting) + 1
        PROVE  /\ p \in 1..Len(Queue) /\ Queue[p] = Head(chan) /\ Without(Queue, p, Queue')
               /\ \A i \in 1..(p - 1) : i \in DOMAIN Waiting /\ Queue[i] = Waiting[i]
    <2>1. PICK a : a = Waiting
      OBVIOUS
    <2>2. a \in Seq(Message) /\ p = Len(a) + 1 /\ Queue = a \o chan /\ Queue' = a \o Tail(chan)
      BY <1>1, <1>4, <2>1 DEF Queue, Waiting
    <2>3. /\ Len(a) + 1 \in 1..Len(a \o chan) /\ (a \o chan)[Len(a) + 1] = Head(chan)
          /\ Without(a \o chan, Len(a) + 1, a \o Tail(chan))
      BY <1>1, <1>4, <2>2, QueueParts
    <2>4. \A i \in 1..Len(a) : i \in DOMAIN a /\ (a \o chan)[i] = a[i]
      BY <1>1, <2>2
    <2>5. p - 1 = Len(a)
      BY <2>2
    <2> QED BY <2>1, <2>2, <2>3, <2>4, <2>5
  \* At the channel the batch is done.
  <1>5. ASSUME Batch = <<>> PROVE srv.batch = <<>> /\ Waiting = srv.buffered
    <2>1. srv.batch = <<>>
      BY <1>5 DEF PlaceInv, Batch
    <2>2. PICK c : c = srv.buffered
      OBVIOUS
    <2>3. <<>> \o c = c
      BY <1>1, <2>2
    <2> QED BY <2>1, <2>2, <2>3 DEF Waiting
  <1>6. CASE ReceiveMessage
    <2>1. Batch = <<>> /\ chan # <<>> /\ Handled("top", srv.batch, srv.buffered, Head(chan))
      BY <1>6, ReceiveStep
    <2>2. srv'.at = "top" /\ srv'.batch = srv.batch /\ srv'.buffered = srv.buffered
      BY <2>1 DEF Handled, Moved, Dispatches
    <2>3. /\ chan' = Tail(chan)
          /\ overtaken' = overtaken \cup {f \in Files : Overtakes(Head(chan), f)}
      BY <1>6 DEF ReceiveMessage
    <2>4. PICK p, m, c : p = Len(Waiting) + 1 /\ m = Head(chan) /\ c = srv.buffered
      OBVIOUS
    <2>5. /\ p \in 1..Len(Queue) /\ m = Queue[p] /\ Without(Queue, p, Queue')
          /\ \A i \in 1..(p - 1) : i \in DOMAIN c /\ Queue[i] = c[i]
      BY <1>4, <1>5, <2>1, <2>2, <2>3, <2>4
    <2>6. ASSUME NEW f \in Files, f \notin overtaken', NEW i \in 1..(p - 1)
          PROVE  /\ DocMessage(m, f) => ~About(Queue[i], f)
                 /\ About(m, f) => ~DocMessage(Queue[i], f)
      <3>1. ~Overtakes(m, f)
        BY <2>3, <2>4, <2>6
      <3>2. i \in DOMAIN c /\ Queue[i] = c[i]
        BY <2>5
      <3>3. ~(About(m, f) /\ About(c[i], f) /\ (DocMessage(m, f) \/ DocMessage(c[i], f)))
        BY <2>4, <3>1, <3>2 DEF Overtakes
      <3> QED BY <3>2, <3>3 DEF About
    <2>7. overtaken \subseteq overtaken'
      BY <2>3
    <2>8. StreamInv'
      BY <1>2, <2>1, <2>4, <2>5, <2>6, <2>7, MessageDispatched
    <2> QED BY <1>5, <2>1, <2>2, <2>8 DEF PlaceInv
  \* Ticks, the end of stdin and the answer to progress_begin.
  <1>7. ASSUME chan # <<>>, chan' = Tail(chan), overtaken' = overtaken,
               srv'.batch = srv.batch, srv'.buffered = srv.buffered, srv'.pc = "wait" => srv' = srv,
               srv'.docs = srv.docs, srv'.shutdown = srv.shutdown, srv'.answers = srv.answers,
               Head(chan).m \in {"tick", "closed", "reply"}
        PROVE  StreamInv'
    <2>1. PICK p : p = Len(Waiting) + 1
      OBVIOUS
    <2>2. \E x \in 1..Len(Queue) : Without(Queue, x, Queue') /\ Queue[x].m \in {"tick", "closed", "reply"}
      BY <1>4, <1>7, <2>1
    <2> QED BY <1>2, <1>7, <2>2, QueueKept
  <1>8. CASE ReceiveClosed
    <2>1. /\ chan # <<>> /\ chan' = Tail(chan) /\ Head(chan).m = "closed"
          /\ srv' = [srv EXCEPT !.pc = "exited"] /\ overtaken' = overtaken
      BY <1>8 DEF ReceiveClosed, CanReceive
    <2>2. /\ srv'.at = srv.at /\ srv'.batch = srv.batch /\ srv'.buffered = srv.buffered
          /\ srv'.pc = "exited" /\ srv'.docs = srv.docs /\ srv'.shutdown = srv.shutdown
          /\ srv'.answers = srv.answers
      BY <2>1 DEF BaseInv, ServerInv, ServerBut, Shape, Fields
    <2>3. StreamInv'
      BY <1>7, <2>1, <2>2
    <2> QED BY <2>2, <2>3 DEF PlaceInv
  <1>9. CASE ReceiveTick
    <2>1. Moved(srv', "top", srv.batch, srv.buffered)
      BY <1>9, TickStep
    <2>2. /\ Batch = <<>> /\ chan # <<>> /\ chan' = Tail(chan) /\ Head(chan).m = "tick"
          /\ srv.pc = "run" /\ overtaken' = overtaken
      BY <1>9 DEF ReceiveTick, CanReceive, Running
    <2>3. StreamInv'
      BY <1>7, <2>1, <2>2 DEF Moved
    <2> QED BY <1>5, <2>1, <2>2, <2>3 DEF PlaceInv, Moved
  \* The wait ends, and a message may have left the channel.
  <1>10. ASSUME srv.pc = "wait", srv' = AfterProgress(srv), overtaken' = overtaken,
                \/ chan' = chan
                \/ chan # <<>> /\ chan' = Tail(chan) /\ Head(chan).m \in {"tick", "closed", "reply"}
         PROVE  PlaceInv' /\ StreamInv'
    <2>1. Resumed(srv, srv')
      BY <1>10, WaitEnds
    <2>2. /\ srv'.at = srv.at /\ srv'.batch = srv.batch /\ srv'.buffered = srv.buffered
          /\ srv'.shutdown = srv.shutdown /\ srv'.docs = srv.docs /\ srv'.pc = "run"
          /\ srv'.answers = IF srv.then.op = "reindex" THEN Answered(srv, srv.then.id, [k |-> "count"])
                            ELSE srv.answers
      BY <2>1 DEF Resumed, SamePlace
    <2>3. \/ Queue' = Queue
          \/ \E p \in 1..Len(Queue) : Without(Queue, p, Queue') /\ Queue[p].m \in {"tick", "closed", "reply"}
      <3>1. CASE chan' = chan
        BY <2>2, <3>1 DEF Queue, Waiting
      <3>2. CASE chan # <<>> /\ chan' = Tail(chan) /\ Head(chan).m \in {"tick", "closed", "reply"}
        <4>1. PICK p : p = Len(Waiting) + 1
          OBVIOUS
        <4> QED BY <1>4, <2>2, <3>2, <4>1
      <3> QED BY <1>10, <3>1, <3>2
    <2>4. StreamInv'
      <3>1. CASE srv.then.op = "reindex"
        BY <1>2, <1>10, <2>2, <2>3, <3>1, QueueKept
      <3>2. CASE srv.then.op # "reindex"
        BY <1>2, <1>10, <2>2, <2>3, <3>2, QueueKept
      <3> QED BY <3>1, <3>2
    <2> QED BY <2>2, <2>4 DEF PlaceInv
  <1>11. CASE WaitReceive
    <2>1. /\ srv.pc = "wait" /\ chan # <<>> /\ chan' = Tail(chan) /\ overtaken' = overtaken
          /\ srv' = CASE Head(chan).m \in {"reply", "closed"} -> AfterProgress(srv)
                     [] Head(chan).m = "tick" -> srv
                     [] OTHER -> [srv EXCEPT !.buffered = Append(@, Head(chan))]
      BY <1>11 DEF WaitReceive
    <2>2. PICK m : m = Head(chan)
      OBVIOUS
    <2>3. CASE m.m \in {"reply", "closed"}
      <3>1. srv' = AfterProgress(srv)
        BY <2>1, <2>2, <2>3
      <3> QED BY <1>10, <2>1, <2>2, <2>3, <3>1
    <2>4. CASE m.m = "tick"
      <3>1. srv' = srv
        BY <2>1, <2>2, <2>4
      <3>2. StreamInv'
        BY <1>7, <2>1, <2>2, <2>4, <3>1
      <3> QED BY <3>1, <3>2 DEF PlaceInv
    <2>5. CASE m.m \notin {"reply", "closed", "tick"}
      <3>1. srv' = [srv EXCEPT !.buffered = Append(@, m)]
        BY <2>1, <2>2, <2>5
      <3>2. Moved(srv', srv.at, srv.batch, Append(srv.buffered, m))
        BY <3>1, BufferStep
      <3>3. /\ srv'.at = srv.at /\ srv'.batch = srv.batch /\ srv'.buffered = Append(srv.buffered, m)
            /\ srv'.docs = srv.docs /\ srv'.pc = srv.pc /\ srv'.then = srv.then
            /\ srv'.shutdown = srv.shutdown /\ srv'.answers = srv.answers
        BY <3>2 DEF Moved
      <3>4. PICK b, c, e : b = srv.batch /\ c = srv.buffered /\ e = chan
        OBVIOUS
      <3>5. b \in Seq(Message) /\ c \in Seq(Message) /\ e \in Seq(Message) /\ e # <<>> /\ m = Head(e)
        BY <1>1, <2>1, <2>2, <3>4
      <3>6. Queue = (b \o c) \o e /\ Queue' = (b \o Append(c, m)) \o Tail(e)
        BY <2>1, <3>3, <3>4 DEF Queue, Waiting
      <3>7. b \o Append(c, m) = Append(b \o c, m)
        BY <3>5, QueueParts
      <3>8. Append(b \o c, m) \o Tail(e) = (b \o c) \o e
        <4>1. b \o c \in Seq(Message)
          BY <3>5
        <4> QED BY <3>5, <4>1, QueueParts
      <3>9. Queue' = Queue
        BY <3>6, <3>7, <3>8
      <3>10. StreamInv'
        BY <1>2, <2>1, <3>3, <3>9, QueueKept
      <3> QED BY <3>3, <3>10 DEF PlaceInv
    <2> QED BY <2>3, <2>4, <2>5
  <1>12. CASE WaitTimeout
    BY <1>10, <1>12 DEF WaitTimeout
  <1> QED BY <1>3, <1>6, <1>8, <1>9, <1>11, <1>12 DEF ServerStep


\* A message that enters the channel enters the queue.
LEMMA MessageSent ==
  ASSUME BaseInv, NEW m \in Message, chan' = Append(chan, m),
         srv'.batch = srv.batch, srv'.buffered = srv.buffered
  PROVE  Queue' = Append(Queue, m)
  <1>1. Waiting \in Seq(Message) /\ chan \in Seq(Message) /\ Queue = Waiting \o chan
    BY QueueTyped DEF BaseInv, Queue
  <1>2. Queue' = Waiting \o Append(chan, m)
    BY DEF Queue, Waiting
  <1>3. Waiting \o Append(chan, m) = Append(Waiting \o chan, m)
    BY <1>1, QueueParts
  <1> QED BY <1>1, <1>2, <1>3

\* What the client does.
LEMMA ClientStepStream ==
  ASSUME BaseInv, StreamInv, Client
  PROVE  StreamInv'
  <1>1. ClientInv /\ chan \in Seq(Message)
    BY DEF BaseInv
  <1>2. srv' = srv
    BY ClientStepBase
  <1>3. SameServer /\ overtaken' = overtaken
    <2>1. SameServer
      BY <1>2 DEF SameServer
    <2>2. overtaken' = overtaken
      BY DEF Client, ClientOpen, ClientChange, ClientClose, ClientSave, Edit, ClientRequest,
             ClientCancel, ClientSaveManifest, ClientShutdown, Other, ClientReply, WriteLock, WriteFile
    <2> QED BY <2>1, <2>2
  <1>4. Edited \subseteq Files /\ Requests \subseteq Methods /\ MaxRequests \in Nat
    BY ClientAssumption
  \* A message that is no request.
  <1>5. ASSUME NEW m \in Message, m.m # "request", chan' = Append(chan, m), sent' = sent,
               budget'.requests = budget.requests,
               \A f \in Files : client'[f] = IF DocMessage(m, f) THEN Carried(m) ELSE client[f]
        PROVE  StreamInv'
    <2>1. Queue' = Append(Queue, m)
      BY <1>2, <1>5, MessageSent
    <2> QED BY <1>3, <1>5, <2>1, OtherSent
  <1>6. ASSUME NEW f \in Files, NEW t, NEW m \in Message, Edit(f, t, m), Carried(m) = t,
               m.m \in {"didOpen", "didChange", "didClose", "didSave"}, m.f = f
        PROVE  StreamInv'
    <2>1. chan' = Append(chan, m) /\ sent' = sent /\ client' = [client EXCEPT ![f] = t]
      BY <1>6 DEF Edit, Send
    <2>2. budget' = [budget EXCEPT !.edits = @ - 1, !.total = @ - 1]
      BY <1>6 DEF Edit
    <2>3. budget'.requests = budget.requests
      BY <1>1, <2>2 DEF ClientInv
    <2>4. \A g \in Files : client'[g] = IF DocMessage(m, g) THEN Carried(m) ELSE client[g]
      BY <1>1, <1>6, <2>1 DEF DocMessage, ClientInv
    <2>5. m.m # "request"
      BY <1>6
    <2> QED BY <1>5, <2>1, <2>3, <2>4, <2>5
  <1>7. ASSUME NEW f \in Edited, ClientOpen(f) PROVE StreamInv'
    <2>1. PICK m, t : m = [m |-> "didOpen", f |-> f, text |-> t] /\ t = disk[f]
      OBVIOUS
    <2>2. f \in Files /\ t \in Texts[f]
      BY <1>1, <1>4, <2>1 DEF ClientInv
    <2>3. m \in Message
      BY <2>1, <2>2, MessageMade
    <2>4. Edit(f, t, m)
      BY <1>7, <2>1 DEF ClientOpen
    <2>5. Carried(m) = t /\ m.m = "didOpen" /\ m.f = f
      BY <2>1 DEF Carried
    <2> QED BY <1>6, <2>2, <2>3, <2>4, <2>5
  <1>8. ASSUME NEW f \in Edited, ClientChange(f) PROVE StreamInv'
    <2>1. PICK t \in Texts[f] : Edit(f, t, [m |-> "didChange", f |-> f, text |-> t])
      BY <1>8 DEF ClientChange
    <2>2. PICK m : m = [m |-> "didChange", f |-> f, text |-> t]
      OBVIOUS
    <2>3. m \in Message /\ f \in Files
      BY <1>4, <2>1, <2>2, MessageMade
    <2>4. Edit(f, t, m)
      BY <2>1, <2>2
    <2>5. Carried(m) = t /\ m.m = "didChange" /\ m.f = f
      BY <2>2 DEF Carried
    <2> QED BY <1>6, <2>3, <2>4, <2>5
  <1>9. ASSUME NEW f \in Edited, ClientClose(f) PROVE StreamInv'
    <2>1. PICK m : m = [m |-> "didClose", f |-> f]
      OBVIOUS
    <2>2. m \in Message /\ f \in Files
      BY <1>4, <2>1, MessageMade
    <2>3. Edit(f, None, m)
      BY <1>9, <2>1 DEF ClientClose
    <2>4. Carried(m) = None /\ m.m = "didClose" /\ m.f = f
      BY <2>1 DEF Carried
    <2> QED BY <1>6, <2>2, <2>3, <2>4
  <1>10. ASSUME NEW f \in Edited, ClientSave(f) PROVE StreamInv'
    <2>1. PICK m, t : m = [m |-> "didSave", f |-> f, text |-> t] /\ t = client[f]
      OBVIOUS
    <2>2. f \in Files /\ t \in Texts[f]
      BY <1>1, <1>4, <1>10, <2>1 DEF ClientInv, ClientSave
    <2>3. m \in Message
      BY <2>1, <2>2, MessageMade
    <2>4. Edit(f, t, m)
      BY <1>10, <2>1 DEF ClientSave
    <2>5. Carried(m) = t /\ m.m = "didSave" /\ m.f = f
      BY <2>1 DEF Carried
    <2> QED BY <1>6, <2>2, <2>3, <2>4, <2>5
  <1>11. ASSUME NEW f \in Edited, NEW w \in Requests, ClientRequest(w, f) PROVE StreamInv'
    <2>1. PICK k \in 0..MaxRequests : k = budget.requests
      BY <1>1 DEF ClientInv
    <2>2. PICK id : id = MaxRequests - budget.requests + 1
      OBVIOUS
    <2>3. PICK m, x : /\ m = [m |-> "request", id |-> id, method |-> w, f |-> f]
                      /\ x = [method |-> w, f |-> f,
                              text |-> IF client[f] = None THEN "" ELSE client[f].id]
      OBVIOUS
    <2>4. /\ budget.requests > 0 /\ chan' = Append(chan, m)
          /\ sent' = [sent EXCEPT ![id] = x]
          /\ budget' = [budget EXCEPT !.requests = @ - 1, !.total = @ - 1]
          /\ client' = client
      BY <1>11, <2>2, <2>3 DEF ClientRequest, Send
    <2>5. budget'.requests = k - 1 /\ k > 0
      BY <1>1, <2>1, <2>4 DEF ClientInv
    <2>6. id = (MaxRequests - k) + 1 /\ id \in Ids
      BY <1>4, <2>1, <2>2, <2>5 DEF Ids
    <2>7. id = Used + 1 /\ Used' = Used + 1
      <3>1. Used = MaxRequests - k /\ Used' = MaxRequests - (k - 1)
        BY <2>1, <2>5 DEF Used
      <3> QED BY <1>4, <2>1, <2>6, <3>1
    <2>8. m \in Message /\ f \in Files
      BY <1>4, <2>3, <2>6, MessageMade
    <2>9. m.m = "request" /\ m.id = id /\ m.method = w /\ m.f = f
      BY <2>3
    <2>10. x.f = f /\ x.method = w /\ x # None /\ x.text = IdOf(client[f])
      BY <2>3, NotNone DEF IdOf
    <2>11. Queue' = Append(Queue, m)
      BY <1>2, <2>4, <2>8, MessageSent
    <2> QED BY <1>3, <2>4, <2>7, <2>8, <2>9, <2>10, <2>11, RequestSent
  <1>12. ASSUME NEW m \in Message, Other(m), m.m \notin {"request", "didOpen", "didChange", "didClose", "didSave"}
         PROVE  StreamInv'
    <2>1. chan' = Append(chan, m) /\ UNCHANGED <<srv, client, disk, lock, sent>>
      BY <1>12 DEF Other, Send
    <2>2. budget' = [budget EXCEPT !.other = @ - 1, !.total = @ - 1, !.open = (m.m # "closed")]
      BY <1>12 DEF Other
    <2>3. budget'.requests = budget.requests
      BY <1>1, <2>2 DEF ClientInv
    <2>4. \A g \in Files : client'[g] = IF DocMessage(m, g) THEN Carried(m) ELSE client[g]
      BY <1>12, <2>1 DEF DocMessage
    <2> QED BY <1>5, <1>12, <2>1, <2>3, <2>4
  <1>13. ASSUME NEW id \in Ids, ClientCancel(id) PROVE StreamInv'
    <2>1. PICK m : m = [m |-> "cancel", id |-> id]
      OBVIOUS
    <2>2. m \in Message /\ Other(m) /\ m.m = "cancel"
      BY <1>13, <2>1, MessageMade DEF ClientCancel
    <2> QED BY <1>12, <2>2
  <1>14. CASE ClientSaveManifest
    <2>1. PICK m : m = [m |-> "saveManifest"]
      OBVIOUS
    <2>2. m \in Message /\ Other(m) /\ m.m = "saveManifest"
      BY <1>14, <2>1, MessageMade DEF ClientSaveManifest
    <2> QED BY <1>12, <2>2
  <1>15. CASE ClientShutdown
    <2>1. PICK x \in {"shutdown", "exit", "closed"} : Other([m |-> x])
      BY <1>15 DEF ClientShutdown
    <2>2. PICK m : m = [m |-> x]
      OBVIOUS
    <2>3. m \in Message /\ Other(m) /\ m.m = x
      BY <2>1, <2>2, MessageMade
    <2>4. m.m \notin {"request", "didOpen", "didChange", "didClose", "didSave"}
      BY <2>1, <2>3
    <2> QED BY <1>12, <2>3, <2>4
  <1>16. CASE ClientReply
    <2>1. PICK m : m = [m |-> "reply"]
      OBVIOUS
    <2>2. m \in Message /\ m.m = "reply"
      BY <2>1, MessageMade
    <2>3. chan' = Append(chan, m) /\ UNCHANGED <<srv, client, disk, lock, sent, budget>>
      BY <1>16, <2>1 DEF ClientReply, Send
    <2>4. \A g \in Files : ~DocMessage(m, g)
      BY <2>2 DEF DocMessage
    <2> QED BY <1>5, <2>2, <2>3, <2>4
  \* The file system changes nothing here.
  <1>17. ASSUME chan' = chan, client' = client, sent' = sent, budget'.requests = budget.requests
         PROVE  StreamInv'
    <2>1. Queue' = Queue /\ Used' = Used
      BY <1>2, <1>17 DEF Queue, Waiting, Used
    <2>2. RequestsOpen' /\ DocumentsFollow'
      BY <1>2, <1>3, <1>17, <2>1 DEF StreamInv, RequestsOpen, DocumentsFollow
    <2>3. AnswersFresh'
      BY <1>2, <1>3, <1>17 DEF StreamInv, AnswersFresh
    <2> QED BY <2>2, <2>3 DEF StreamInv
  <1>18. ASSUME budget' = [budget EXCEPT !.other = @ - 1, !.total = @ - 1]
         PROVE  budget'.requests = budget.requests
    BY <1>1, <1>18 DEF ClientInv
  <1>19. CASE WriteLock
    BY <1>17, <1>18, <1>19 DEF WriteLock
  <1>20. ASSUME NEW f \in Files, WriteFile(f) PROVE StreamInv'
    BY <1>17, <1>18, <1>20 DEF WriteFile
  <1> QED BY <1>7, <1>8, <1>9, <1>10, <1>11, <1>13, <1>14, <1>15, <1>16, <1>19, <1>20 DEF Client


\* The last of the positions at which something holds.
LEMMA LastPlace ==
  ASSUME NEW n \in Nat, NEW P, P \subseteq 1..n, P # {}
  PROVE  \E j \in P : \A k \in 1..n : k > j => k \notin P
  <1> DEFINE B == {b \in Nat : n - b \in P}
  <1>1. B \subseteq Nat /\ B # {}
    <2>1. PICK j \in P : TRUE
      OBVIOUS
    <2>2. n - j \in Nat /\ n - (n - j) = j
      BY <2>1
    <2> QED BY <2>1, <2>2
  <1> HIDE DEF B
  <1>2. PICK b : b \in B /\ \A y \in B : b <= y
    BY <1>1, LeastNat
  <1>3. b \in Nat /\ n - b \in P
    BY <1>2 DEF B
  <1>4. ASSUME NEW k \in 1..n, k > n - b PROVE k \notin P
    <2> SUFFICES ASSUME k \in P PROVE FALSE
      OBVIOUS
    <2>1. n - k \in Nat /\ n - (n - k) = k
      OBVIOUS
    <2>2. n - k \in B
      BY <2>1 DEF B
    <2>3. b <= n - k
      BY <1>2, <2>2
    <2> QED BY <1>3, <1>4, <2>1, <2>3
  <1> QED BY <1>3, <1>4

\* Two messages before the others.
LEMMA TwoBefore ==
  ASSUME NEW S, NEW h \in Seq(S), NEW c \in Seq(S), NEW k \in Nat, Len(h) = 2, Len(c) = k
  PROVE  /\ Len(h \o c) = 2 + k /\ DOMAIN (h \o c) = 1..(2 + k)
         /\ \A i \in 1..(2 + k) : (h \o c)[i] = IF i <= 2 THEN h[i] ELSE c[i - 2]
  <1>1. PICK m \in Nat : m = Len(h)
    OBVIOUS
  <1>2. /\ h \o c \in Seq(S) /\ Len(h \o c) = m + k
        /\ \A i \in 1..(m + k) : (h \o c)[i] = IF i <= m THEN h[i] ELSE c[i - m]
    BY <1>1, ConcatProperties
  <1>3. m = 2 /\ DOMAIN (h \o c) = 1..(m + k)
    BY <1>1, <1>2
  <1> QED BY <1>2, <1>3

\* The initial messages open what the editor shows.
LEMMA InitStream == Init => PlaceInv /\ StreamInv
  <1> SUFFICES ASSUME Init PROVE PlaceInv /\ StreamInv
    OBVIOUS
  <1>1. BaseInv
    BY InitBase
  <1>2. /\ srv.docs = [f \in Files |-> None] /\ srv.answers = [id \in Ids |-> <<>>] /\ srv.pc = "run"
        /\ srv.at = "top" /\ srv.batch = <<>> /\ srv.buffered = <<>>
    BY DEF Init, NewServer
  <1>3. chan \in Seq(Message) /\ Queue = chan
    <2>1. chan \in Seq(Message) /\ Queue = (<<>> \o <<>>) \o chan
      BY <1>1, <1>2 DEF BaseInv, Queue, Waiting
    <2> QED BY <2>1
  <1>4. /\ \A id \in Ids : sent[id] = None /\ srv.answers[id] = <<>>
        /\ \A f \in Files : srv.docs[f] = None
        /\ \A f \in Files : client[f] = IF f \in Range(Restored) THEN disk[f] ELSE None
    BY <1>2 DEF Init
  <1>5. PICK p, d :
           chan = <<[m |-> "initialize", progress |-> p, debounce |-> d[1], indexDebounce |-> d[2]],
                    [m |-> "initialized"]>>
                  \o [i \in DOMAIN Restored |->
                         [m |-> "didOpen", f |-> Restored[i], text |-> disk[Restored[i]]]]
    BY DEF Init
  <1>6. PICK a, b, c : /\ a = [m |-> "initialize", progress |-> p, debounce |-> d[1], indexDebounce |-> d[2]]
                       /\ b = [m |-> "initialized"]
                       /\ c = [i \in DOMAIN Restored |->
                                 [m |-> "didOpen", f |-> Restored[i], text |-> disk[Restored[i]]]]
    OBVIOUS
  <1>7. chan = <<a, b>> \o c /\ a.m = "initialize" /\ b.m = "initialized"
    BY <1>5, <1>6
  <1>8. PICK k \in Nat : DOMAIN Restored = 1..k
    BY ClientAssumption
  <1>9. c \in [1..k -> Message] /\ Len(c) = k
    <2>1. ASSUME NEW i \in 1..k PROVE c[i] \in Message
      <3>1. PICK g : g = Restored[i]
        OBVIOUS
      <3>2. g \in Files /\ disk[g] \in Texts[g]
        BY <1>1, <1>8, <3>1, ClientAssumption DEF BaseInv, ClientInv
      <3>3. [m |-> "didOpen", f |-> g, text |-> disk[g]] \in Message
        BY <3>2, MessageMade
      <3> QED BY <1>6, <1>8, <3>1, <3>3
    <2>2. c \in [1..k -> Message]
      BY <1>6, <1>8, <2>1
    <2> QED BY <2>2
  <1>10. /\ Len(chan) = k + 2 /\ DOMAIN chan = 1..(k + 2) /\ chan[1] = a /\ chan[2] = b
         /\ \A i \in 1..k : chan[i + 2] = c[i]
    <2>1. c \in Seq(Message)
      BY <1>9
    <2>2. PICK h : h = <<a, b>>
      OBVIOUS
    <2>3. h \in Seq({a, b}) /\ Len(h) = 2 /\ h[1] = a /\ h[2] = b
      BY <2>2
    <2>4. chan = h \o c
      BY <1>7, <2>2
    <2>5. h \in Seq({a, b} \cup Message) /\ c \in Seq({a, b} \cup Message) /\ Len(c) = k
      BY <1>9, <2>1, <2>3
    <2>6. /\ Len(h \o c) = 2 + k /\ DOMAIN (h \o c) = 1..(2 + k)
          /\ \A i \in 1..(2 + k) : (h \o c)[i] = IF i <= 2 THEN h[i] ELSE c[i - 2]
      BY <2>3, <2>5, TwoBefore
    <2>7. \A i \in 1..k : i + 2 \in 1..(2 + k) /\ ~(i + 2 <= 2) /\ (i + 2) - 2 = i
      OBVIOUS
    <2>8. 1 \in 1..(2 + k) /\ 2 \in 1..(2 + k) /\ 2 + k = k + 2
      OBVIOUS
    <2>9. chan[1] = a /\ chan[2] = b
      BY <2>3, <2>4, <2>6, <2>8
    <2>10. \A i \in 1..k : chan[i + 2] = c[i]
      BY <2>4, <2>6, <2>7
    <2> QED BY <2>4, <2>6, <2>8, <2>9, <2>10
  <1>11. \A i \in 1..k : c[i].m = "didOpen" /\ c[i].f = Restored[i] /\ c[i].text = disk[Restored[i]]
    BY <1>6, <1>8
  <1>12. \A i \in 1..(k + 2) : i = 1 \/ i = 2 \/ (i - 2 \in 1..k /\ (i - 2) + 2 = i)
    OBVIOUS
  <1>13. \A i \in 1..(k + 2) :
            /\ chan[i].m \in {"initialize", "initialized", "didOpen"}
            /\ chan[i].m = "initialized" => i = 2
            /\ chan[i].m = "didOpen" => /\ i - 2 \in 1..k /\ chan[i].f = Restored[i - 2]
                                        /\ chan[i].text = disk[Restored[i - 2]]
    BY <1>7, <1>10, <1>11, <1>12
  <1>14. PlaceInv
    BY <1>2 DEF PlaceInv
  <1>15. \A i \in 1..Len(Queue) : Queue[i].m # "request"
    BY <1>3, <1>10, <1>13
  <1>16. RequestsOpen
    <2>1. Asked(Queue, srv.answers, sent, Used)
      BY <1>15 DEF Asked
    <2>2. Unused(srv.answers, sent, Used) /\ Waits(srv, Queue, Used)
      BY <1>2, <1>4 DEF Unused, Waits
    <2> QED BY <2>1, <2>2 DEF RequestsOpen
  <1>17. ASSUME NEW f \in Files PROVE TextAfter(chan, k + 2, f, None, client[f])
    <2> DEFINE P == {i \in 1..(k + 2) : DocMessage(chan[i], f)}
    <2>1. P \subseteq 1..(k + 2)
      OBVIOUS
    <2>2. CASE P = {}
      <3>1. f \notin Range(Restored)
        <4> SUFFICES ASSUME f \in Range(Restored) PROVE FALSE
          OBVIOUS
        <4>1. PICK i \in 1..k : Restored[i] = f
          BY <1>8 DEF Range
        <4>2. i + 2 \in 1..(k + 2) /\ chan[i + 2].m = "didOpen" /\ chan[i + 2].f = f
          BY <1>10, <1>11, <4>1
        <4>3. i + 2 \in P
          BY <4>2 DEF DocMessage
        <4> QED BY <2>2, <4>3
      <3>2. client[f] = None /\ Shown(None) = None
        BY <1>4, <3>1 DEF Shown
      <3> QED BY <2>2, <3>2 DEF TextAfter
    <2>3. CASE P # {}
      <3>1. PICK j \in P : \A i \in 1..(k + 2) : i > j => i \notin P
        <4>1. PICK Q, n : Q = P /\ n = k + 2
          OBVIOUS
        <4>2. n \in Nat /\ Q \subseteq 1..n /\ Q # {}
          BY <2>3, <4>1
        <4>3. \E j \in Q : \A i \in 1..n : i > j => i \notin Q
          BY <4>2, LastPlace
        <4> QED BY <4>1, <4>3
      <3>2. j \in 1..(k + 2) /\ DocMessage(chan[j], f) /\ \A i \in 1..(k + 2) : i > j => ~DocMessage(chan[i], f)
        BY <3>1
      <3>3. chan[j].m = "didOpen" /\ chan[j].f = f
        BY <1>13, <3>2 DEF DocMessage
      <3>4. j - 2 \in 1..k /\ Restored[j - 2] = f /\ chan[j].text = disk[f]
        BY <1>13, <3>2, <3>3
      <3>5. f \in Range(Restored)
        BY <1>8, <3>4 DEF Range
      <3>6. Carried(chan[j]) = client[f]
        BY <1>4, <3>3, <3>4, <3>5 DEF Carried
      <3> QED BY <3>2, <3>6 DEF TextAfter
    <2> QED BY <2>2, <2>3
  <1>18. DocumentsFollow
    <2>1. Follows(Queue, srv.docs, client, overtaken)
      BY <1>3, <1>4, <1>10, <1>17 DEF Follows
    <2>2. Finds(Queue, srv.docs, sent, overtaken)
      BY <1>15 DEF Finds
    <2> QED BY <2>1, <2>2 DEF DocumentsFollow
  <1>19. AnswersFresh
    <2>1. \A id \in Ids : DOMAIN srv.answers[id] = {}
      BY <1>4
    <2> QED BY <2>1 DEF AnswersFresh
  <1> QED BY <1>14, <1>16, <1>18, <1>19 DEF StreamInv

\* Every step keeps the invariant.
LEMMA NextStream == IInv /\ [Next]_vars => IInv'
  <1> SUFFICES ASSUME IInv, [Next]_vars PROVE IInv'
    OBVIOUS
  <1>1. BaseInv /\ PlaceInv /\ StreamInv
    BY DEF IInv
  <1>2. BaseInv'
    BY <1>1, NextBase
  <1>3. CASE ServerStep
    BY <1>1, <1>2, <1>3, ServerStepStream DEF IInv
  <1>4. CASE Timer
    <2>1. PICK m : m = [m |-> "tick"]
      OBVIOUS
    <2>2. m \in Message /\ m.m = "tick"
      BY <2>1, MessageMade
    <2>3. chan' = Append(chan, m) /\ UNCHANGED <<client, disk, lock, sent, budget, overtaken>>
      BY <1>4, <2>1 DEF Timer
    <2>4. Moved(srv', srv.at, srv.batch, srv.buffered)
      BY <1>1, <1>4, TimerStep
    <2>5. SameServer /\ srv'.at = srv.at /\ srv'.batch = srv.batch /\ srv'.buffered = srv.buffered
      BY <2>4 DEF Moved, SameServer
    <2>6. m.m # "request" /\ \A f \in Files : ~DocMessage(m, f)
      BY <2>2 DEF DocMessage
    <2>7. Queue' = Append(Queue, m)
      BY <1>1, <2>2, <2>3, <2>5, MessageSent
    <2>8. StreamInv'
      BY <1>1, <2>2, <2>3, <2>5, <2>6, <2>7, OtherSent
    <2> QED BY <1>1, <1>2, <2>5, <2>8 DEF IInv, PlaceInv
  <1>5. CASE Client
    <2>1. StreamInv' /\ srv' = srv
      BY <1>1, <1>5, ClientStepStream, ClientStepBase
    <2> QED BY <1>1, <1>2, <2>1 DEF IInv, PlaceInv
  <1>6. CASE UNCHANGED vars
    <2>1. PlaceInv'
      BY <1>1, <1>6 DEF PlaceInv, vars
    <2>2. Queue' = Queue /\ Used' = Used
      BY <1>6 DEF Queue, Waiting, Used, vars
    <2>3. RequestsOpen' /\ DocumentsFollow'
      BY <1>1, <1>6, <2>2 DEF StreamInv, RequestsOpen, DocumentsFollow, vars
    <2>4. AnswersFresh'
      BY <1>1, <1>6 DEF StreamInv, AnswersFresh, vars
    <2> QED BY <1>2, <2>1, <2>3, <2>4 DEF IInv, StreamInv
  <1> QED BY <1>3, <1>4, <1>5, <1>6 DEF Next

\* Whatever the client does, no request is answered twice, and the answer to a
\* request about a document none of whose messages were handled out of order is
\* computed from the text the editor showed when it sent the request, also when
\* the request waits in the buffer of progress_begin.
THEOREM AnswersHold == Spec => []AnswersFresh
  <1>1. Init => IInv
    BY InitBase, InitStream DEF IInv
  <1>2. IInv /\ [Next]_vars => IInv'
    BY NextStream
  <1>3. IInv => AnswersFresh
    BY DEF IInv, StreamInv
  <1> QED BY <1>1, <1>2, <1>3, PTL DEF Spec
=============================================================================
