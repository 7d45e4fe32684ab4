---------------------------- MODULE LspAnalysis ----------------------------
(***************************************************************************)
(* What the language server computes from a document: lsp/analysis.rs (the *)
(* cache of parsed .def files, the transitive loading of imports and their *)
(* topological sort) and lsp/index.rs (the workspace index and its queries)*)
(*                                                                         *)
(* A text is a record                                                      *)
(*   [id, st, own, imports, refs, defs, calls]                             *)
(* st is "ok", "parse" (syntax error) or "lex" (the lexer rejects it);     *)
(* own holds the .def of an implementation module, imports the sequence of *)
(* imports [mod, from] in source order; refs and defs are sets of identity *)
(* keys, calls is the set of call edges <<caller key, callee key>>, all    *)
(* empty unless st is "ok".  Positions in a text are represented by the    *)
(* text itself: an edit or a location carries the text it was computed     *)
(* from.                                                                   *)
(***************************************************************************)
EXTENDS Integers, Sequences, FiniteSets, SequencesExt

CONSTANTS Files,    \* the files of the workspace, named by their module
          Stdlib    \* modules of the standard library, never loaded from disk

ASSUME FilesAssumption == IsFiniteSet(Files)

None == [none |-> TRUE]

Parses(t) == t.st = "ok"

----------------------------------------------------------------------------
(* DefCache: a parsed .def and the mtime it was parsed at.  Every write    *)
(* gives a file a new mtime, so the text stands for it.                    *)

\* The cache after a lookup.  A file that lexes but does not parse keeps the
\* entry of its older text.
GetOrParse(cache, disk, f) ==
    IF (cache[f] = None \/ cache[f] # disk[f]) /\ Parses(disk[f])
    THEN [cache EXCEPT ![f] = disk[f]] ELSE cache

\* What the lookup returns: nothing when the file must be parsed again and
\* the lexer fails, the cached module otherwise.
ParsedDef(cache, disk, f) ==
    IF cache[f] # disk[f] /\ disk[f].st = "lex" THEN None ELSE GetOrParse(cache, disk, f)[f]

Imported(t) == [i \in DOMAIN t.imports |-> t.imports[i].mod]

\* One name of the queue.  l holds the queue, the paths loaded, the modules
\* collected and the cache.
LoadModule(l, f, disk) ==
    LET d == ParsedDef(l.cache, disk, f)
    IN  IF f \in Stdlib \/ f \notin Files \/ f \in l.loaded \/ d = None THEN l
        ELSE [queue |-> l.queue \o Imported(d), loaded |-> l.loaded \cup {f},
              mods |-> Append(l.mods, [name |-> f, text |-> d]),
              cache |-> GetOrParse(l.cache, disk, f)]

\* The names in the queue in turn; what they import is queued behind them and
\* is the next level.
LoadLevel(l, disk) ==
    FoldLeft(LAMBDA m, f : LoadModule(m, f, disk), [l EXCEPT !.queue = <<>>], l.queue)

\* Every level but the last loads a file that was not loaded before.
LoadQueue(l, disk) ==
    LET level[n \in 0..Cardinality(Files) + 1] ==
            IF n = 0 THEN l ELSE LoadLevel(level[n - 1], disk)
    IN  level[Cardinality(Files) + 1]

\* A source that does not parse loads nothing.  The .def of an implementation
\* module comes first; its own imports are not followed.
CollectDefModules(src, cache, disk) ==
    LET own == SelectSeq(src.own, LAMBDA f : ParsedDef(cache, disk, f) # None)
        c0 == FoldLeft(LAMBDA c, f : GetOrParse(c, disk, f), cache, own)
        first == [i \in DOMAIN own |-> [name |-> own[i], text |-> c0[own[i]]]]
    IN  IF Parses(src)
        THEN LoadQueue([queue |-> Imported(src), loaded |-> Range(own), mods |-> first,
                        cache |-> c0], disk)
        ELSE [mods |-> <<>>, cache |-> cache]

\* Only FROM imports of modules in the list are edges.
DepIndices(mods, i) ==
    LET froms == SelectSeq(mods[i].text.imports, LAMBDA p : p.from)
        idx(m) == {j \in DOMAIN mods : mods[j].name = m}
    IN  [k \in 1..Len(SelectSeq(froms, LAMBDA p : idx(p.mod) # {})) |->
            CHOOSE j \in idx(SelectSeq(froms, LAMBDA p : idx(p.mod) # {})[k].mod) : TRUE]

\* Depth first; a module on the stack (a cycle) is skipped.
TopoOrder(mods) ==
    LET N == DOMAIN mods
        dfs[node \in N, stack \in SUBSET N, order \in Seq(N)] ==
            IF node \in Range(order) \cup stack THEN order
            ELSE Append(FoldLeft(LAMBDA acc, j : dfs[j, stack \cup {node}, acc],
                                 order, DepIndices(mods, node)), node)
    IN  FoldLeft(LAMBDA acc, i : dfs[i, {}, acc], <<>>, [i \in N |-> i])

TopoSortDefModules(mods) == [k \in DOMAIN TopoOrder(mods) |-> mods[TopoOrder(mods)[k]]]

\* The result keeps the text and the definition modules it was analysed with.
AnalysisOf(src, mods) ==
    [text |-> src, defs |-> {mods[i].text.id : i \in DOMAIN mods}]

Analyzed(src, c) == [res |-> AnalysisOf(src, TopoSortDefModules(c.mods)), cache |-> c.cache]

Analyze(src, cache, disk) == Analyzed(src, CollectDefModules(src, cache, disk))

----------------------------------------------------------------------------
(* WorkspaceIndex.  view is what the inverted maps were last built from:   *)
(* every map is a function of it.                                          *)

NewIndex == [files |-> [f \in Files |-> None], view |-> [f \in Files |-> None], dirty |-> FALSE]

\* A stamp of in-memory content has the epoch for its mtime, so it equals no
\* stamp of a file on disk.
DiskStamp(t) == [mem |-> FALSE, id |-> t.id]
MemStamp(t) == [mem |-> TRUE, id |-> t.id]

Entry(stamp, res) == [stamp |-> stamp, res |-> res]

Insert(ix, f, stamp, a) ==
    [ix |-> [ix EXCEPT !.files[f] = Entry(stamp, a.res), !.dirty = TRUE], cache |-> a.cache]

\* index_file: skipped when the stamp is unchanged.
IndexFile(ix, f, cache, disk) ==
    IF ix.files[f] # None /\ ix.files[f].stamp = DiskStamp(disk[f])
    THEN [ix |-> ix, cache |-> cache]
    ELSE Insert(ix, f, DiskStamp(disk[f]), Analyze(disk[f], cache, disk))

IndexDirectories(ix, cache, disk) ==
    LET q == SetToSeq(Files)
        done[n \in 0..Len(q)] ==
            IF n = 0 THEN [ix |-> ix, cache |-> cache]
            ELSE IndexFile(done[n - 1].ix, q[n], done[n - 1].cache, disk)
    IN  done[Len(q)]

\* docs holds the content and the analysis of documents in memory.
IndexFromAnalysis(ix, docs) ==
    [ix EXCEPT !.files = [f \in Files |-> IF f \in DOMAIN docs
                                          THEN Entry(MemStamp(docs[f].text), docs[f].res)
                                          ELSE @[f]],
               !.dirty = @ \/ DOMAIN docs # {}]

ForceClear(ix) == NewIndex

\* The rebuild sees the files whose analysis has an AST.
RebuildIfDirty(ix) ==
    IF ~ix.dirty THEN ix
    ELSE [ix EXCEPT !.dirty = FALSE,
                    !.view = [f \in Files |->
                        IF ix.files[f] # None /\ Parses(ix.files[f].res.text)
                        THEN ix.files[f].res ELSE None]]

Viewed(ix) == {f \in Files : ix.view[f] # None}

FindRefsByIdentity(ix, key) ==
    {[uri |-> f, text |-> ix.view[f].text.id] :
        f \in {g \in Viewed(ix) : key \in ix.view[g].text.refs}}

\* A definition found in several files: which one is kept depends on the
\* iteration order of a hash map; the caller gets the set of candidates.
FindDefByIdentity(ix, key) ==
    {f \in Viewed(ix) : key \in ix.view[f].text.defs}

\* The symbols a file contributes: its module and what it declares.
FileSymbols(ix, f) == {[name |-> k, uri |-> f] : k \in ix.view[f].text.defs \cup {f}}

Search(ix) == UNION {FileSymbols(ix, f) : f \in Viewed(ix)}

\* One entry per caller, with the files its call sites are in.
IncomingCallsFor(ix, key) ==
    LET edges == UNION {{[caller |-> e[1], uri |-> f] :
                            e \in {c \in ix.view[f].text.calls : c[2] = key}} : f \in Viewed(ix)}
    IN  {[other |-> k, sites |-> {e.uri : e \in {x \in edges : x.caller = k}},
          def |-> FindDefByIdentity(ix, k)] : k \in {e.caller : e \in edges}}

OutgoingCallsFor(ix, key) ==
    LET edges == UNION {{[callee |-> e[2], uri |-> f] :
                            e \in {c \in ix.view[f].text.calls : c[1] = key}} : f \in Viewed(ix)}
    IN  {[other |-> k, sites |-> {e.uri : e \in {x \in edges : x.callee = k}},
          def |-> FindDefByIdentity(ix, k)] : k \in {e.callee : e \in edges}}

\* The workspace graph when it knows the procedure, the document's own calls
\* otherwise.
IncomingCallsWs(ix, key, res, uri) ==
    LET ws == IncomingCallsFor(ix, key)
    IN  IF ws # {} \/ res = None THEN ws
        ELSE {[other |-> c[1], sites |-> {uri}, def |-> {uri}] :
                 c \in {e \in res.text.calls : e[2] = key}}

OutgoingCallsWs(ix, key, res, uri) ==
    LET ws == OutgoingCallsFor(ix, key)
    IN  IF ws # {} \/ res = None THEN ws
        ELSE {[other |-> c[2], sites |-> {uri}, def |-> {uri}] :
                 c \in {e \in res.text.calls : e[1] = key}}
=============================================================================
