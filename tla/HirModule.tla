------------------------------ MODULE HirModule ------------------------------
(***************************************************************************)
(* The high-level representation of a module (hir_build/mod.rs): the       *)
(* declarations and procedures of the main module, of its local modules    *)
(* and of the implementation modules embedded in it, with their bodies     *)
(* lowered by module HirBuild and the variables that nested procedures     *)
(* capture.  A body is <<>> or <<statements>>; a builder that has entered  *)
(* no procedure stands for the module that it builds for.                  *)
(***************************************************************************)
EXTENDS HirBuild

\* FROM M counts as an import of M.
ImportedModules(unit) ==
    {i.c[1].v : i \in Range(Of(unit, {"from"}))} \cup UNION {{n.v : n \in Range(i.c)} : i \in Range(Of(unit, {"import"}))}

ImportAliases(unit) ==
    LET renamed == {n \in UNION {Range(i.c) : i \in Range(Of(unit, {"from"}))} : n.k = "as"}
    IN  [a \in {n.c[2].v : n \in renamed} |-> (CHOOSE n \in renamed : n.c[2].v = a).c[1].v]

First(scopes) == IF scopes = {} THEN 0 ELSE CHOOSE s \in scopes : \A other \in scopes : s <= other

\* A scope so named in that of the builder, in one within it, or anywhere but a module.
EnterProcedureNamed(hb, name) ==
    LET sa == hb.sa
        named == {s \in DOMAIN sa.scopes : sa.scopes[s].name = name}
        in(sc) == {s \in named : sa.scopes[s].parent = sc}
        mids == {mid \in DOMAIN sa.scopes : sa.scopes[mid].parent = hb.scope /\ in(mid) # {}}
        scope == IF hb.scope # 0 /\ in(hb.scope) # {} THEN First(in(hb.scope))
                 ELSE IF hb.scope # 0 /\ mids # {} THEN First(in(First(mids)))
                 ELSE First(named \ {LookupModuleScope(sa, name)})
    IN  [hb EXCEPT !.inProc = TRUE, !.scope = scope]

InProcedure(hb, chain) == Through(EnterProcedureNamed, hb, chain)

OpenParams(h) == UNION {{n.v : n \in Range(The(p, "names").c)} : p \in {p \in Range(Of(h, {"param"})) : Last(p.c).k = "open"}}

WithHighs(hb, h) == [hb EXCEPT !.highs = OpenParams(h)]

Lowered(hb, parts) == [i \in DOMAIN parts |-> LowerStmts(Empty(hb), parts[i].c[1]).out]

----------------------------------------------------------------------------
(* Declarations.                                                           *)

\* A symbol found in some scope, or one of the default type.
SymOr(sa, sc, name, ty) == IF sc = 0 THEN Symbol("None", ty) ELSE Sym(sa, sc, name)

ConstValue(sym) == IF sym.kind = "Constant" THEN sym.val ELSE NoVal

\* The procedure's scope, by its name, below the module's.
LocalsScope(sa, m, name) ==
    LET parent(s) == sa.scopes[s].parent
        named == {s \in DOMAIN sa.scopes : sa.scopes[s].name = name /\ parent(s) # 0}
        direct == {s \in named : parent(s) = m}
        inner == {s \in named : parent(parent(s)) = m}
    IN  IF m = 0 THEN 0
        ELSE IF direct # {} THEN First(direct) ELSE IF inner # {} THEN First(inner) ELSE LookupModuleScope(sa, name)

FindLocal(sa, sc, name) ==
    IF sc # 0 /\ FindFrom(sa, sc, name) # 0 THEN FindFrom(sa, sc, name) ELSE IF Here(sa, 1, name) THEN 1 ELSE 0

\* A variable has the type of the first of its declaration.
LocalsOf(sa, sc, d) ==
    LET sym(n, ty) == SymOr(sa, FindLocal(sa, sc, n), n, ty)
        names == d.c[1].c
        first == sym(names[1].v, TY.VOID)
    IN  CASE d.k = "var" -> IF first.kind # "Variable" THEN <<>>
                            ELSE [i \in DOMAIN names |-> [k |-> "var", n |-> names[i].v, t |-> first.typ]]
          [] d.k = "typedecl" -> <<[k |-> "type", n |-> d.c[1].v, t |-> sym(d.c[1].v, TY.VOID).typ]>>
          [] d.k = "const" -> LET s == sym(d.c[1].v, TY.INTEGER)
                              IN  <<[k |-> "const", n |-> d.c[1].v, t |-> s.typ, val |-> ConstValue(s)]>>
          [] d.k = "exception" -> <<[k |-> "exception", n |-> d.c[1].v, t |-> 0]>>
          [] OTHER -> <<>>

ParamNames(h) == FlattenSeq([i \in DOMAIN Of(h, {"param"}) |-> The(Of(h, {"param"})[i], "names").c])
SectionOf(h, name) == CHOOSE p \in Range(Of(h, {"param"})) : \E n \in Range(The(p, "names").c) : n.v = name

ProcDecl(sa, module, p, owner, sym, sc) ==
    LET h == p.c[1]
        name == h.c[1].v
        ns == ParamNames(h)
        type(i) == IF sym.kind = "Procedure" /\ i \in DOMAIN sym.params THEN sym.params[i].t ELSE TY.INTEGER
        decls == p.c[2].c[1].c
    IN  [name |-> name, mangled |-> <<module, name>>, owner |-> owner, exported |-> sym.exported,
         params |-> [i \in DOMAIN ns |-> [n |-> ns[i].v, t |-> type(i), var |-> Has(SectionOf(h, ns[i].v), "VAR"),
                                          open |-> ns[i].v \in OpenParams(h)]],
         ret |-> IF ~Has(h, "result") THEN 0
                 ELSE IF sym.kind = "Procedure" THEN sym.ret
                 ELSE IF sa.types[sym.typ].k = "ProcedureType" THEN sa.types[sym.typ].ret ELSE 0,
         locals |-> FlattenSeq([i \in DOMAIN decls |-> LocalsOf(sa, sc, decls[i])]),
         body |-> <<>>, except |-> <<>>, procs |-> <<>>, captures |-> <<>>]

\* The signature is that of the symbol the module's scope has for the name.
ProcSym(sa, home, name) ==
    LET own == IF home = 0 THEN 0 ELSE FindFrom(sa, home, name)
    IN  SymOr(sa, IF own # 0 THEN own ELSE LookupAny(sa, name), name, TY.VOID)
ProcDeclIn(hb, p, owner, home) ==
    ProcDecl(hb.sa, hb.module, p, owner, ProcSym(hb.sa, home, p.c[1].c[1].v), LocalsScope(hb.sa, home, p.c[1].c[1].v))
BuildProcDecl(hb, p, owner) == ProcDeclIn(hb, p, owner, LookupModuleScope(hb.sa, hb.module))

----------------------------------------------------------------------------
(* Procedures.                                                             *)

\* The names of variables in what the search goes into, in order: not the target
\* of an assignment, not what is passed by address, not CASE, TRY and LOCK.
Searched ==
    {"Direct", "Indirect", "assign", "pcall", "if", "elsif", "else", "while", "repeat", "for", "loop", "return", "stmts"}
RECURSIVE CollectHirVarRefs(_)
CollectHirVarRefs(x) ==
    LET all(c) == FlattenSeq([i \in DOMAIN c |-> CollectHirVarRefs(c[i])])
        indices == SelectSeq(x.p.proj, LAMBDA j : j.k = "Index")
        root == IF x.p.base.k \in {"Local", "Global"} THEN <<[n |-> x.p.base.id.name, high |-> x.p.base.id.high]>> ELSE <<>>
    IN  CASE x.k = "Place" -> root \o all([i \in DOMAIN indices |-> indices[i].e])
          [] x.k = "Op"    -> IF x.op \in {"transfer", "^", "set", "range"} THEN <<>> ELSE all(x.c)
          [] x.k \in Searched -> all(x.c)
          [] OTHER -> <<>>

\* Neither a parameter nor a variable of the procedure, nor listed already.
Captures(pd, v) ==
    /\ v.high \/ v.n \notin {x.n : x \in Range(pd.params)} \cup {l.n : l \in {y \in Range(pd.locals) : y.k = "var"}}
    /\ \A i \in DOMAIN pd.captures : pd.captures[i].n # v.n \/ pd.captures[i].high # v.high
Capture(pd, v) == IF Captures(pd, v) THEN [pd EXCEPT !.captures = Append(@, v)] ELSE pd
CapturedVar(sa, v) ==
    [n |-> v.n, high |-> v.high,
     ty |-> IF v.high THEN TY.INTEGER ELSE SymOr(sa, LookupAny(sa, v.n), v.n, TY.INTEGER).typ]
CaptureRefs(sa, pd) ==
    LET refs == IF pd.body = <<>> THEN <<>> ELSE CollectHirVarRefs([k |-> "stmts", c |-> pd.body[1]])
    IN  Through(Capture, pd, [i \in DOMAIN refs |-> CapturedVar(sa, refs[i])])

\* A procedure with the names of those around it, outermost first.  EXCEPT is
\* lowered for outer procedures only, and without the companions.
ProcBodies(hb, p, chain) ==
    LET in == InProcedure(hb, Append(chain, p.c[1].c[1].v))
        body(k) == Lowered(IF k = "begin" THEN WithHighs(in, p.c[1]) ELSE in, Of(p.c[2], {k}))
    IN  [k \in {"begin", "except"} |-> IF k = "except" /\ chain # <<>> THEN <<>> ELSE body(k)]
WithBodies(pd, bodies) == [pd EXCEPT !.body = bodies.begin, !.except = bodies.except]
OwnProc(hb, p, chain) ==
    WithBodies(BuildProcDecl(hb, p, IF chain = <<>> THEN <<>> ELSE <<Last(chain)>>), ProcBodies(hb, p, chain))

\* Nested procedures of the main module get their full names and captures.
ChainName(hb, pd, chain) == [pd EXCEPT !.mangled = <<hb.module>> \o Append(chain, pd.name)]
Completed(hb, pd, chain, main) ==
    IF main /\ chain # <<>> THEN CaptureRefs(hb.sa, ChainName(hb, pd, chain)) ELSE pd

\* What a nested procedure captures is captured by its parent.
AddChild(parent, np) == [Through(Capture, parent, np.captures) EXCEPT !.procs = Append(@, np)]

\* Procedures nested in those of the main module, of any depth; in local and
\* embedded modules, of one level.
RECURSIVE BuildProc(_, _, _, _)
BuildProc(hb, p, chain, main) ==
    Through(LAMBDA pd, np : AddChild(pd, BuildProc(hb, np, Append(chain, p.c[1].c[1].v), main)),
            Completed(hb, OwnProc(hb, p, chain), chain, main),
            IF main \/ chain = <<>> THEN Of(p.c[2].c[1], {"proc"}) ELSE <<>>)

----------------------------------------------------------------------------
(* Modules.                                                                *)

\* One declaration: types, constants and variables, each a sequence of [n, t, ...];
\* found has the scope of each name it declares.
NoDecls == [types |-> <<>>, consts |-> <<>>, globals |-> <<>>]
DeclOf(sa, found, d, ty) ==
    LET sym(n) == SymOr(sa, found[n], n, ty)
        name == d.c[1].v
        names == d.c[1].c
        const == SymOr(sa, found[name], name, TY.INTEGER)
    IN  CASE d.k = "typedecl" -> [NoDecls EXCEPT !.types = <<[n |-> name, t |-> sym(name).typ, exported |-> sym(name).exported]>>]
          [] d.k = "const"    -> [NoDecls EXCEPT !.consts = <<[n |-> name, t |-> const.typ, val |-> ConstValue(const),
                                                                exported |-> const.exported]>>]
          [] d.k = "var"      -> [NoDecls EXCEPT !.globals = [i \in DOMAIN names |->
                                    [n |-> names[i].v, t |-> sym(names[1].v).typ, exported |-> sym(names[i].v).exported]]]
          [] OTHER -> NoDecls

Joined(a, b) == [types |-> a.types \o b.types, consts |-> a.consts \o b.consts, globals |-> a.globals \o b.globals]

FindInModule(sa, m, name) ==
    LET sc == LookupModuleScope(sa, m)
    IN  IF sc # 0 /\ Here(sa, sc, name) THEN sc ELSE IF Here(sa, 1, name) THEN 1 ELSE LookupAny(sa, name)
FindFromModule(sa, m, name) ==
    LET sc == LookupModuleScope(sa, m) IN IF sc # 0 THEN FindFrom(sa, sc, name) ELSE LookupAny(sa, name)

DeclNames(d) == IF d.k = "var" THEN {n.v : n \in Range(d.c[1].c)} ELSE {d.c[1].v}

\* The names of a local module are looked for anywhere.
LocalDecls(sa, decls) ==
    Through(LAMBDA a, d : Joined(a, DeclOf(sa, [n \in DeclNames(d) |-> LookupAny(sa, n)], d, TY.INTEGER)), NoDecls, decls)
MainDecls(sa, m, decls) ==
    Through(LAMBDA a, d : Joined(a, IF d.k = "local" THEN LocalDecls(sa, The(d, "block").c[1].c)
                                    ELSE DeclOf(sa, [n \in DeclNames(d) |-> FindInModule(sa, m, n)], d, TY.INTEGER)), NoDecls, decls)

\* Those of an embedded module, from its scope outwards; its variables count as
\* not exported.
EmbeddedDecls(sa, m, decls) ==
    LET all == Through(LAMBDA a, d : Joined(a, DeclOf(sa, [n \in DeclNames(d) |-> FindFromModule(sa, m, n)], d, TY.VOID)), NoDecls, decls)
    IN  [all EXCEPT !.globals = [i \in DOMAIN @ |-> [@[i] EXCEPT !.exported = FALSE]]]

ExceptionDecl(sa, name) ==
    LET v == ConstValue(SymOr(sa, LookupAny(sa, name), name, TY.VOID)) IN [n |-> name, id |-> IF v.k = "Integer" THEN v.v ELSE 0]

\* The procedures of local modules stand among those of the main module.
ProcsOf(d) == IF d.k = "proc" THEN <<d>> ELSE IF d.k = "local" THEN Of(The(d, "block").c[1], {"proc"}) ELSE <<>>
BuildProcs(hb, d, main) ==
    LET procs == ProcsOf(d) IN [i \in DOMAIN procs |-> BuildProc(hb, procs[i], <<>>, main /\ d.k = "proc")]

EmbeddedModule(hb, imp) ==
    LET block == The(imp, "block")
        procs == Of(block.c[1], {"proc"})
    IN  [foreign |-> hb.module \in hb.sa.foreign, decls |-> EmbeddedDecls(hb.sa, hb.module, block.c[1].c),
         procs |-> FlattenSeq([i \in DOMAIN procs |-> BuildProcs(hb, procs[i], FALSE)]),
         init |-> Lowered(hb, Of(block, {"begin"}))]

\* Renamed imports of the main module are known in every embedded one.
EmbeddedBuilder(sa, unit, imp) ==
    LET own == ImportAliases(imp)  main == ImportAliases(unit)
    IN  Builder(sa, ModuleName(imp), ImportedModules(unit) \cup ImportedModules(imp),
                [a \in DOMAIN own \cup DOMAIN main |-> IF a \in DOMAIN own THEN own[a] ELSE main[a]])

BuildModule(sa, unit, impls) ==
    LET hb == Builder(sa, ModuleName(unit), ImportedModules(unit), ImportAliases(unit))
        block == The(unit, "block")
        decls == block.c[1].c
        local == SelectSeq(decls, LAMBDA d : d.k = "local")
        exceptions == SelectSeq(decls, LAMBDA d : d.k = "exception")
    IN  [decls |-> MainDecls(sa, hb.module, decls),
         exceptions |-> [i \in DOMAIN exceptions |-> ExceptionDecl(sa, exceptions[i].c[1].v)],
         procs |-> FlattenSeq([i \in DOMAIN decls |-> BuildProcs(hb, decls[i], TRUE)]),
         locals |-> FlattenSeq([i \in DOMAIN local |-> Lowered(hb, Of(The(local[i], "block"), {"begin"}))]),
         parts |-> [k \in {"begin", "except", "finally"} |-> Lowered(hb, Of(block, {k}))],
         embedded |-> [m \in DOMAIN impls |-> EmbeddedModule(EmbeddedBuilder(sa, unit, impls[m]), impls[m])]]
=============================================================================
