------------------------------- MODULE Driver -------------------------------
(***************************************************************************)
(* driver.rs: what one compilation does.  FrontEnd loads the modules a     *)
(* program needs and registers them with the semantic analyser in an order *)
(* of the driver's making; Effects lists what a backend does to the file   *)
(* system, in order.                                                       *)
(*                                                                         *)
(* The world of module Project is extended by                              *)
(*   src   <<directory, module, "def" or "mod">> -> text, for the source   *)
(*         files that exist; a text is [id, kind, ok, foreign, imports]    *)
(*         with kind "def", "impl" or "program" and ok when it compiles    *)
(*   libs  the directories of ~/.mx/lib searched last, in listing order    *)
(* The spellings of a file name (.def, .DEF, lower case) are one file.     *)
(***************************************************************************)
EXTENDS Project

CONSTANT Builtin    \* standard modules the backends provide

Text(w, path) == w.src[path]

SearchPath(w, own, includes) == <<own>> \o includes \o w.libs

Candidates(w, m, ext, own, includes) ==
    LET at == SearchPath(w, own, includes)
    IN  SelectSeq([i \in DOMAIN at |-> <<at[i], m, ext>>], LAMBDA p : p \in DOMAIN w.src)

FindDefFile(w, m, own, includes) ==
    LET c == Candidates(w, m, "def", own, includes)
    IN  IF c = <<>> THEN NoFile ELSE c[1]

\* Every candidate once, in priority order.
FindModFileCandidates(w, m, own, includes) ==
    FoldLeft(AppendNew, <<>>, Candidates(w, m, "mod", own, includes))

----------------------------------------------------------------------------
(* The state of a compilation: ok, the files read, the .def modules parsed *)
(* (name -> text), the defs registered, the modules loaded, and the log of *)
(* calls to the analyser.                                                  *)

Start(own, includes) ==
    [ok |-> TRUE, own |-> own, includes |-> includes, reads |-> {}, parsed |-> <<>>,
     registered |-> {}, loaded |-> {}, log |-> <<>>]

Log(c, op, m) == [c EXCEPT !.log = Append(@, [op |-> op, m |-> m])]

\* parse_file: a file that does not parse ends the compilation.
ParseFile(w, c, path) == [c EXCEPT !.reads = @ \cup {path}, !.ok = Text(w, path).ok]

ParsedNames(c) == {e.m : e \in Range(c.parsed)}
ParsedText(c, m) == (CHOOSE e \in Range(c.parsed) : e.m = m).text

AddParsed(c, m, t) == [c EXCEPT !.parsed = Append(@, [m |-> m, text |-> t])]

\* Phase 1: the queue is a stack; imports known already are not queued again.
RECURSIVE ParseDefs(_, _, _)
ParseDefs(w, c, queue) ==
    IF queue = <<>> \/ ~c.ok THEN c
    ELSE LET m == Last(queue)
             rest == Front(queue)
             path == FindDefFile(w, m, c.own, c.includes)
         IN  IF m \in Builtin \/ m \in ParsedNames(c) \/ path = NoFile
             THEN ParseDefs(w, c, rest)
             ELSE LET read == ParseFile(w, c, path)
                      t == Text(w, path)
                      new == SelectSeq(t.imports, LAMBDA n : n \notin ParsedNames(c))
                  IN  IF ~read.ok \/ t.kind # "def" THEN ParseDefs(w, read, rest)
                      ELSE ParseDefs(w, AddParsed(read, m, t), rest \o new)

\* Mutant: definitions in the order of the hash map.
TopoUnsorted(c, acc, m) == [visited |-> acc.visited \cup {m}, sorted |-> Append(acc.sorted, m)]

\* Phase 2: depth first over the imports of the parsed defs.
RECURSIVE TopoVisit(_, _, _)
TopoVisit(c, acc, m) ==
    IF m \in acc.visited THEN acc
    ELSE LET in == [acc EXCEPT !.visited = @ \cup {m}]
             out == IF m \in ParsedNames(c)
                    THEN FoldLeft(LAMBDA a, n : TopoVisit(c, a, n), in, ParsedText(c, m).imports)
                    ELSE in
         IN  [out EXCEPT !.sorted = Append(@, m)]

\* order is the iteration order of the hash map of parsed defs.
SortedDefs(c, order) ==
    LET r == FoldLeft(LAMBDA a, m : TopoVisit(c, a, m), [visited |-> {}, sorted |-> <<>>],
                      SelectSeq(order, LAMBDA m : m \in ParsedNames(c)))
    IN  SelectSeq(r.sorted, LAMBDA m : m \in ParsedNames(c))

RegisterDef(c, m) == [Log(c, "def", m) EXCEPT !.registered = @ \cup {m}]

\* Every type name is pre-registered before the first full registration.
RegisterSorted(c, sorted) ==
    FoldLeft(RegisterDef, FoldLeft(LAMBDA a, m : Log(a, "pre", m), c, sorted), sorted)

\* Phase 3: a def met only now is registered after the defs it imports.
RECURSIVE RegisterDefRecursive(_, _, _, _)
RegisterDefRecursive(w, c, m, inProgress) ==
    LET path == FindDefFile(w, m, c.own, c.includes)
        known == m \in c.registered \/ m \in inProgress \/ m \in Builtin
    IN  IF ~c.ok \/ known \/ path = NoFile THEN c
        ELSE LET read == ParseFile(w, c, path)
                 visit(a, n) == RegisterDefRecursive(w, a, n, inProgress \cup {m})
                 deps == FoldLeft(visit, read, Text(w, path).imports)
             IN  IF ~read.ok \/ Text(w, path).kind # "def" THEN read
                 ELSE IF ~deps.ok THEN deps
                 ELSE RegisterDef(Log(deps, "pre", m), m)

\* The first candidate that holds an implementation; the others are read
\* and passed over.
RECURSIVE FindImpl(_, _, _)
FindImpl(w, c, candidates) ==
    IF candidates = <<>> \/ ~c.ok THEN [c |-> c, path |-> NoFile]
    ELSE LET read == ParseFile(w, c, candidates[1])
         IN  IF read.ok /\ Text(w, candidates[1]).kind = "impl"
             THEN [c |-> read, path |-> candidates[1]]
             ELSE FindImpl(w, read, Tail(candidates))

Foreign(w, c, m) ==
    m \in c.registered /\ Text(w, FindDefFile(w, m, c.own, c.includes)).foreign

\* An implementation: its imports' defs are registered and the imports
\* queued, then the module itself is analysed.
LoadImpl(w, c, m, path) ==
    LET new == SelectSeq(Text(w, path).imports, LAMBDA n : n \notin c.loaded)
        regs == FoldLeft(LAMBDA a, n : RegisterDefRecursive(w, a, n, {}), c, new)
    IN  [c |-> IF regs.ok THEN [Log(regs, "impl", m) EXCEPT !.loaded = @ \cup {m}] ELSE regs,
         new |-> new]

RECURSIVE LoadMods(_, _, _)
LoadMods(w, c, queue) ==
    IF queue = <<>> \/ ~c.ok THEN c
    ELSE LET m == Last(queue)
             rest == Front(queue)
             found == FindImpl(w, c, FindModFileCandidates(w, m, c.own, c.includes))
         IN  IF m \in Builtin \cup c.loaded THEN LoadMods(w, c, rest)
             ELSE IF Foreign(w, c, m) THEN LoadMods(w, [c EXCEPT !.loaded = @ \cup {m}], rest)
             ELSE IF found.path = NoFile THEN LoadMods(w, found.c, rest)
             ELSE LET r == LoadImpl(w, found.c, m, found.path)
                  IN  LoadMods(w, r.c, rest \o r.new)

\* The .def of an implementation module; its imports are loaded as well.
OwnDef(w, c, input) ==
    IF Text(w, input).kind # "impl" THEN NoFile
    ELSE FindDefFile(w, input[2], c.own, c.includes)

Phases(w, c, imports, order) ==
    LET defs == ParseDefs(w, c, imports)
        regs == RegisterSorted(defs, SortedDefs(defs, order))
    IN  IF ~defs.ok THEN defs ELSE LoadMods(w, regs, imports)

WithOwnDef(w, c, input, own, order) ==
    LET read == ParseFile(w, c, own)
        t == Text(w, own)
    IN  IF ~read.ok THEN read
        ELSE IF t.kind # "def" THEN Phases(w, read, Text(w, input).imports, order)
        ELSE Phases(w, AddParsed(read, input[2], t), Text(w, input).imports \o t.imports, order)

\* The front end on the file input: the compilation state at its end.
FrontEnd(w, input, includes, order) ==
    LET c == ParseFile(w, Start(input[1], includes), input)
        own == OwnDef(w, c, input)
    IN  IF ~c.ok THEN c
        ELSE IF own = NoFile THEN Phases(w, c, Text(w, input).imports, order)
        ELSE WithOwnDef(w, c, input, own, order)

----------------------------------------------------------------------------
(* Backends.  An effect writes generated code, runs the C compiler on some *)
(* files, or removes a file; x is a file beside the input, exe the output. *)

Write(x) == [op |-> "write", in |-> {}, out |-> x]
Cc(in, x) == [op |-> "cc", in |-> in, out |-> x]
Delete(x) == [op |-> "remove", in |-> {}, out |-> x]

\* With debug information the compiler and the linker run one after the
\* other and the intermediate files stay.
LinkDebug(c, obj) == <<Write(c), Cc({c}, obj), Cc({obj, "extra"}, "exe")>>
LinkRelease(c) == <<Write(c), Cc({c, "extra"}, "exe"), Delete(c)>>
CompileOnly(debug) ==
    <<Write("c"), Cc({"c"}, "exe")>> \o (IF debug THEN <<>> ELSE <<Delete("c")>>)

LlvmDebug ==
    <<Write("ll"), Write("rt"), Cc({"ll"}, "obj"), Cc({"rt"}, "rtobj"),
      Cc({"obj", "rtobj", "extra"}, "exe"), Delete("rtobj"), Delete("rt")>>
LlvmRelease ==
    <<Write("ll"), Write("rt"), Cc({"ll", "rt", "extra"}, "exe"), Delete("ll"), Delete("rt")>>

\* One header with all declarations, a file per module, the main program and
\* the list of files.
WritePerModuleFiles == <<Write("common.h"), Write("modules"), Write("main"), Write("manifest")>>

\* The order of the tests is the order of the returns in compile().
Effects(o) ==
    CASE o.emitCfg -> <<Write("exe")>>
      [] ~o.emitCfg /\ o.emitLlvm ->
            IF ~o.useLlvm THEN <<Write("exe")>>
            ELSE IF o.debug THEN LlvmDebug ELSE LlvmRelease
      [] ~o.emitCfg /\ ~o.emitLlvm ->
            IF o.perModule THEN WritePerModuleFiles
            ELSE IF o.emitC THEN <<Write("exe")>>
            ELSE IF o.compileOnly THEN CompileOnly(o.debug)
            ELSE IF o.debug THEN LinkDebug("c", "obj") ELSE LinkRelease("c")

DefaultOptions ==
    [emitCfg |-> FALSE, emitLlvm |-> FALSE, useLlvm |-> FALSE, emitC |-> FALSE,
     perModule |-> FALSE, compileOnly |-> FALSE, debug |-> FALSE, release |-> FALSE, features |-> <<>>,
     sanitize |-> FALSE, cc |-> "cc", target |-> ""]
=============================================================================
