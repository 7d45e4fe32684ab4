------------------------------- MODULE Places -------------------------------
(***************************************************************************)
(* What the names of a program denote, from its declarations and the scope *)
(* rules of the language alone, compared with the high-level               *)
(* representation that hir_build makes of it.                              *)
(*                                                                         *)
(* Both are seen as one sequence of accesses, in the order of the text: an *)
(* access is [how, root, steps, ty].  The root is the name a procedure's   *)
(* own variable has, or the qualified name of anything else; the steps are *)
(* <<>> for a dereference, <<0>> for an index, the number of a field, and  *)
(* the numbers of its case and field in a variant.  In the source ty is    *)
(* <<type>> or <<>>: a type is [tree, m, scopes], a tree in its scopes.    *)
(***************************************************************************)
EXTENDS SemaSession

Access(how, root, steps, ty) == [how |-> how, root |-> root, steps |-> steps, ty |-> ty]

----------------------------------------------------------------------------
(* The accesses of the representation.                                     *)

RECURSIVE LoweredOne(_)
LoweredAll(xs) == FlattenSeq([i \in DOMAIN xs |-> LoweredOne(xs[i])])

StepOf(j) == CASE j.k = "Field" -> j.at [] j.k = "Index" -> <<0>> [] OTHER -> <<>>
LoweredPlace(how, p) ==
    LET indices == SelectSeq(p.proj, LAMBDA j : j.k = "Index")
        root == IF p.base.k \in {"Local", "Global", "Func"} THEN p.base.id.mangled ELSE <<>>
    IN  <<Access(how, root, [i \in DOMAIN p.proj |-> StepOf(p.proj[i])], p.ty)>>
          \o LoweredAll([i \in DOMAIN indices |-> indices[i].e])

LoweredOne(x) ==
    CASE x.k = "Place"    -> LoweredPlace("value", x.p)
      [] x.k = "AddrOf"   -> LoweredPlace("address", x.p)
      [] x.k = "assign"   -> LoweredPlace("target", x.p) \o LoweredAll(x.c)
      [] x.k = "Indirect" -> LoweredPlace("call", x.p) \o LoweredAll(x.c)
      [] x.k = "Direct"   -> <<Access("call", x.to.mangled, <<>>, x.to.ty)>> \o LoweredAll(x.c)
      [] x.k \in Range(LitKind) -> <<Access(x.k, <<>>, <<x.v>>, x.ty)>>
      [] x.k \in RawParts -> <<>>
      [] OTHER            -> LoweredAll(x.c)

RECURSIVE LoweredProc(_)
LoweredProc(pd) ==
    LET locals == SelectSeq(pd.locals, LAMBDA l : l.k = "var")
    IN  <<Access("procedure", pd.mangled, <<>>, 0)>>
          \o [i \in DOMAIN pd.params |-> Access(IF pd.params[i].var THEN "VAR" ELSE "parameter",
                                                <<pd.params[i].n>>, <<>>, pd.params[i].t)]
          \o [i \in DOMAIN locals |-> Access("local", <<locals[i].n>>, <<>>, locals[i].t)]
          \o LoweredAll(FlattenSeq(pd.body \o pd.except))
          \o FlattenSeq([i \in DOMAIN pd.procs |-> LoweredProc(pd.procs[i])])
LoweredProcs(pds) == FlattenSeq([i \in DOMAIN pds |-> LoweredProc(pds[i])])

\* The procedures and the bodies of the main module, or of an embedded one.
LoweredUnit(h, m) ==
    LET bodies == IF m = "Main" THEN h.locals \o h.parts.begin \o h.parts.except \o h.parts.finally
                  ELSE h.embedded[m].init
    IN  LoweredProcs(IF m = "Main" THEN h.procs ELSE h.embedded[m].procs) \o LoweredAll(FlattenSeq(bodies))

----------------------------------------------------------------------------
(* Names.  The scopes around a text are a sequence of [path, decls],       *)
(* innermost first: path is the module and the procedures around it.       *)

DeclaresName(d, name) ==
    CASE d.k \in {"var", "param"} -> \E n \in Range(The(d, "names").c) : n.v = name
      [] d.k = "proc"     -> d.c[1].c[1].v = name
      [] d.k = "typedecl" -> Last(d.c).k = "enum" /\ \E n \in Range(Last(d.c).c) : n.v = name
      [] d.k \in {"const", "heading", "exception"} -> d.c[1].v = name
      [] OTHER            -> FALSE
HasName(scope, name) == \E d \in Range(scope.decls) : DeclaresName(d, name)
DeclarationOf(scope, name) == CHOOSE d \in Range(scope.decls) : DeclaresName(d, name)

\* What a local module exports belongs to the scope around it.
ExportedBy(local) ==
    SelectSeq(The(local, "block").c[1].c, LAMBDA d : \E n \in Range(The(local, "export").c) : DeclaresName(d, n.v))
WithLocals(decls) == FlattenSeq([i \in DOMAIN decls |-> IF decls[i].k = "local" THEN ExportedBy(decls[i]) ELSE <<decls[i]>>])

ScopeOfModule(m) == [path |-> <<m>>, decls |-> WithLocals(TypeDecls(prog, m))]
ScopeOfProc(path, p) ==
    [path |-> Append(path, p.c[1].c[1].v), decls |-> Of(p.c[1], {"param"}) \o WithLocals(p.c[2].c[1].c)]

Units(m) == IF m = "Main" THEN {prog.main} ELSE {prog.defs[m]} \cup {prog.impls[x] : x \in {m} \cap DOMAIN prog.impls}

\* <<module, name>> that is imported as a name, and the modules imported whole.
ImportsAs(m, name) ==
    LET is(n) == IF n.k = "as" THEN n.c[2].v = name ELSE n.v = name
        original(n) == IF n.k = "as" THEN n.c[1].v ELSE n.v
    IN  SetToSeq(UNION {{<<i.c[1].v, original(n)>> : n \in {x \in Range(Tail(i.c)) : is(x)}} :
                            i \in UNION {Range(Of(u, {"from"})) : u \in Units(m)}})
WholeImports(m) == UNION {{n.v : n \in Range(i.c)} : i \in UNION {Range(Of(u, {"import"})) : u \in Units(m)}}

TypeIn(m, scopes, tree) == [tree |-> tree, m |-> m, scopes |-> [i \in DOMAIN scopes |-> scopes[i].decls]]
NamedIn(m, name) == TypeIn(m, <<ScopeOfModule(m)>>, NameTree(name))

\* Follow the names of a type to what it is made of.
RECURSIVE Structure(_)
Structure(t) ==
    LET in == Declaring(t.scopes, t.tree.v)
        home == ImportedFrom(prog, t.m, t.tree.v)
    IN  CASE t.tree.k = "qual" -> Structure(NamedIn(t.tree.c[1].v, t.tree.c[2].v))
          [] t.tree.k = "id"   -> IF in # <<>> THEN Structure([t EXCEPT !.tree = Declared(in[1], t.tree.v)[1].c[2], !.scopes = in])
                                  ELSE IF home # "" THEN Structure(NamedIn(home, t.tree.v)) ELSE t
          [] OTHER -> t
StructureOf(a) == Structure(a.ty[1])

\* The value of a constant expression, from the scope it stands in.
RECURSIVE ValueOf(_, _)
ValueOf(scope, e) ==
    CASE e.k = "desig" -> ValueOf(scope, DeclarationOf(scope, e.c[1].v).c[2])
      [] e.k = "bin"   -> ValueOf(scope, e.c[1]) + ValueOf(scope, e.c[2])
      [] OTHER         -> e.v

\* An exception is known by the number it is declared with.
NumberOf(exception) == (CHOOSE x \in Range(hir[1].exceptions) : x.n = exception).id

\* What a name means that the first of the scopes declares.
AccessTo(m, scopes, name, own, d) ==
    LET position == SelectInSeq(Last(d.c).c, LAMBDA n : n.v = name)
        root == CASE d.k \in {"var", "param"} -> IF own THEN <<name>> ELSE <<m, name>>
                  [] d.k = "proc"    -> Append(scopes[1].path, name)
                  [] d.k = "heading" -> <<m, name>>
        tree == IF d.k = "proc" THEN d.c[1] ELSE IF d.k = "heading" THEN d ELSE Last(d.c)
        number == CASE d.k = "const"     -> ValueOf(scopes[1], d.c[2])
                    [] d.k = "typedecl"  -> position - 1
                    [] d.k = "exception" -> NumberOf(name)
    IN  IF d.k \in {"const", "typedecl", "exception"} THEN Access("Int", <<>>, <<number>>, <<>>)
        ELSE Access("value", root, <<>>, <<TypeIn(m, scopes, tree)>>)
DeclaredAccess(m, scopes, name, own) == AccessTo(m, scopes, name, own, DeclarationOf(scopes[1], name))

\* Modules of the standard library have no text here.
ModuleAccess(m, name) ==
    IF m \in DOMAIN prog.defs THEN DeclaredAccess(m, <<ScopeOfModule(m)>>, name, FALSE)
    ELSE Access("value", <<m, name>>, <<>>, <<TypeIn("Main", <<>>, [k |-> "heading", v |-> "", c |-> <<>>])>>)

Predeclared ==
    [TRUE |-> Access("Bool", <<>>, <<1>>, <<>>), FALSE |-> Access("Bool", <<>>, <<0>>, <<>>), NIL |-> Access("Nil", <<>>, <<0>>, <<>>)]

----------------------------------------------------------------------------
(* Designators.  A context is [m, scopes, withs]: withs are the places     *)
(* that the WITH statements around have opened, the innermost last.        *)

FieldsListed(record) ==
    LET names(f) == CASE f.k = "field" -> [i \in DOMAIN f.c[1].c |-> <<f.c[1].c[i].v, f.c[2]>>]
                      [] f.k = "variants" /\ f.c[1].k = "tag" -> <<<<f.c[1].c[1].v, f.c[1].c[2]>>>>
                      [] OTHER -> <<>>
    IN  FlattenSeq([i \in DOMAIN record.c |-> names(record.c[i])])
CasesIn(record) ==
    LET parts == SelectSeq(record.c[1].c, LAMBDA f : f.k = "variants")
        cases == IF parts = <<>> THEN <<>> ELSE Of(parts[1], {"variant", "else"})
    IN  [i \in DOMAIN cases |-> FieldsListed(Last(cases[i].c))]

\* The <<step, type>> of each field so named: one, or none.
StepsTo(record, name) ==
    LET fixed == FieldsListed(record.c[1])
        cases == CasesIn(record)
    IN  {<<<<i>>, fixed[i][2]>> : i \in {j \in DOMAIN fixed : fixed[j][1] = name}}
          \cup UNION {{<<<<k, i>>, cases[k][i][2]>> : i \in {j \in DOMAIN cases[k] : cases[k][j][1] = name}} : k \in DOMAIN cases}

Stepped(a, step, tree) ==
    [a EXCEPT !.steps = Append(@, step), !.ty = <<[StructureOf(a) EXCEPT !.tree = tree]>>]
ToField(a, name) == LET to == CHOOSE x \in StepsTo(StructureOf(a).tree, name) : TRUE IN Stepped(a, to[1], to[2])
Dereferenced(a) == Stepped(a, <<>>, StructureOf(a).tree.c[1])

\* An array of several indices is an array of arrays.
Indexed(a) ==
    LET t == StructureOf(a).tree
        elem == CASE t.k = "open" -> t.c[1]
                  [] t.k = "array" /\ Len(t.c[1].c) > 1 -> [t EXCEPT !.c[1].c = Tail(@)]
                  [] OTHER -> t.c[2]
    IN  Stepped(a, <<0>>, elem)

Selected(a, s) ==
    CASE s.k = "sel"   -> ToField(a, s.c[1].v)
      [] s.k = "deref" -> Dereferenced(a)
      [] s.k = "index" -> Through(LAMBDA b, e : Indexed(b), a, s.c)

\* The innermost WITH that has such a field, the innermost declaration, an
\* import, what every module knows.  w and i are the numbers of that WITH and
\* of the scope.
NameAccess(ctx, name, w, i, from) ==
    CASE w # 0 -> ToField(ctx.withs[w], name)
      [] w = 0 /\ i # 0 -> DeclaredAccess(ctx.m, SubSeq(ctx.scopes, i, Len(ctx.scopes)), name, i = 1 /\ Len(ctx.scopes[1].path) > 1)
      [] w = 0 /\ i = 0 /\ from # <<>> -> ModuleAccess(from[1][1], from[1][2])
      [] OTHER -> Predeclared[name]
WithOf(ctx, name) == SelectLastInSeq(ctx.withs, LAMBDA a : StepsTo(StructureOf(a).tree, name) # {})
OwnAccess(ctx, name) ==
    NameAccess(ctx, name, WithOf(ctx, name),
               SelectInSeq(ctx.scopes, LAMBDA s : HasName(s, name)), ImportsAs(ctx.m, name))

DesignatorAccess(ctx, d) ==
    LET whole == d.c[1].v \in WholeImports(ctx.m)
    IN  Through(Selected, IF whole THEN ModuleAccess(d.c[1].v, d.c[2].c[1].v) ELSE OwnAccess(ctx, d.c[1].v),
                SubSeq(d.c, IF whole THEN 3 ELSE 2, Len(d.c)))

Opened(a) == IF StructureOf(a).tree.k = "pointer" THEN Dereferenced(a) ELSE a
Entered(ctx, a) == [ctx EXCEPT !.withs = Append(@, Opened(a))]

----------------------------------------------------------------------------
(* The accesses of the source.                                             *)

\* What a tree denotes (the designator alone), or accesses.
RECURSIVE Reading(_, _, _)
Denoted(ctx, d) == Reading("place", ctx, d)
Accesses(ctx, x) == Reading("tree", ctx, x)
AccessesOf(ctx, xs) == FlattenSeq([i \in DOMAIN xs |-> Accesses(ctx, xs[i])])

\* A place, then what its indices access.
PlaceAccesses(ctx, how, d) ==
    <<[Denoted(ctx, d) EXCEPT !.how = IF @ = "value" THEN how ELSE @]>>
      \o AccessesOf(ctx, FlattenSeq([i \in DOMAIN Of(d, {"index"}) |-> Of(d, {"index"})[i].c]))

\* The length of an argument: of a string, of an array, or what came with the
\* open array that is passed on.
HighOf(ctx, e) ==
    LET t == StructureOf(Denoted(ctx, e)).tree
    IN  CASE e.k = "string" -> Access("Int", <<>>, <<e.v>>, <<>>)
          [] e.k = "desig" /\ t.k = "array" -> Access("Int", <<>>, <<t.c[1].c[1].c[2].v>>, <<>>)
          [] e.k = "desig" /\ t.k = "open" -> Access("value", <<e.c[1].v, "high">>, <<>>, <<TypeIn("Main", <<>>, NameTree("INTEGER"))>>)

FormalsOf(heading) ==
    LET params == Of(heading, {"param"})
        many(p) == IF Has(p, "names") THEN [i \in DOMAIN The(p, "names").c |-> p] ELSE <<p>>
    IN  FlattenSeq([i \in DOMAIN params |-> many(params[i])])

\* VAR: its address, which is what an array is passed by in any case.
ArgumentAccesses(ctx, formals, args, i) ==
    LET var == i \in DOMAIN formals /\ Has(formals[i], "VAR")
        open == i \in DOMAIN formals /\ Last(formals[i].c).k = "open"
    IN  (IF var /\ ~open THEN PlaceAccesses(ctx, "address", args[i]) ELSE Accesses(ctx, args[i]))
          \o (IF open THEN <<HighOf(ctx, args[i])>> ELSE <<>>)
ArgumentsAccesses(ctx, formals, args) == FlattenSeq([i \in DOMAIN args |-> ArgumentAccesses(ctx, formals, args, i)])

CallAccesses(ctx, d, args) ==
    LET name == d.c[1].v
    IN  CASE name = "VAL" -> Accesses(ctx, args[2])
          [] name = "HIGH" -> <<HighOf(ctx, args[1])>>
          [] name \in DOMAIN Transfers \ {"VAL"} -> AccessesOf(ctx, args)
          [] name \notin DOMAIN Transfers \cup {"HIGH"} /\ IsBuiltinProc(name) ->
                <<Access("call", <<name>>, <<>>, <<>>)>> \o AccessesOf(ctx, args)
          [] OTHER -> PlaceAccesses(ctx, "call", d) \o ArgumentsAccesses(ctx, FormalsOf(StructureOf(Denoted(ctx, d)).tree), args)

\* The names of sections of variables or parameters, with their types.
DeclaredNames(ctx, ds) ==
    LET names(d) == The(d, "names").c
        how(d) == IF d.k = "var" THEN "local" ELSE IF Has(d, "VAR") THEN "VAR" ELSE "parameter"
    IN  FlattenSeq([i \in DOMAIN ds |-> [j \in DOMAIN names(ds[i]) |->
                        Access(how(ds[i]), <<names(ds[i])[j].v>>, <<>>, <<TypeIn(ctx.m, ctx.scopes, Last(ds[i].c))>>)]])

\* A procedure stands for its name, parameters and variables.
TreeAccesses(ctx, x) ==
    CASE x.k = "desig"  -> PlaceAccesses(ctx, "value", x)
      [] x.k = "assign" -> PlaceAccesses(ctx, "target", x.c[1]) \o Accesses(ctx, x.c[2])
      [] x.k \in {"pcall", "call"} -> CallAccesses(ctx, x.c[1], IF Len(x.c) = 2 THEN x.c[2].c ELSE <<>>)
      [] x.k = "with"   -> Accesses(Entered(ctx, Denoted(ctx, x.c[1])), x.c[2])
      [] x.k = "proc"   -> <<Access("procedure", ctx.scopes[1].path, <<>>, <<>>)>>
                             \o DeclaredNames(ctx, Of(x.c[1], {"param"}) \o Of(x.c[2].c[1], {"var"}))
      [] x.k \in RawParts -> <<>>
      [] x.k \in {"int", "real", "string", "char"} ->
            <<Access([int |-> "Int", real |-> "Real", string |-> "String", char |-> "Char"][x.k], <<>>, <<x.v>>, <<>>)>>
      [] OTHER          -> AccessesOf(ctx, x.c)

Reading(what, ctx, x) == IF what = "place" THEN DesignatorAccess(ctx, x) ELSE TreeAccesses(ctx, x)

----------------------------------------------------------------------------
(* The texts of a module, each with its context: [ctx, x].                 *)

Context(m, scopes) == [m |-> m, scopes |-> scopes, withs |-> <<>>]
Text(m, scopes, x) == [ctx |-> Context(m, scopes), x |-> x]
PartTexts(m, scopes, block) ==
    LET parts == Of(block, {"begin"}) \o Of(block, {"except"}) \o Of(block, {"finally"})
    IN  [i \in DOMAIN parts |-> Text(m, scopes, parts[i])]

RECURSIVE ProcTexts(_, _, _)
ProcTexts(m, outer, p) ==
    LET scopes == <<ScopeOfProc(outer[1].path, p)>> \o outer
        nested == Of(p.c[2].c[1], {"proc"})
    IN  <<Text(m, scopes, p)>> \o PartTexts(m, scopes, p.c[2])
          \o FlattenSeq([i \in DOMAIN nested |-> ProcTexts(m, scopes, nested[i])])

\* A local module stands within the scope around it.
ScopesIn(m, d) ==
    IF d.k = "local" THEN <<[path |-> <<m>>, decls |-> The(d, "block").c[1].c], ScopeOfModule(m)>> ELSE <<ScopeOfModule(m)>>
DeclTexts(m, d) ==
    LET procs == ProcsOf(d) IN FlattenSeq([i \in DOMAIN procs |-> ProcTexts(m, ScopesIn(m, d), procs[i])])

ModuleTexts(m, block) ==
    LET decls == block.c[1].c
        locals == SelectSeq(decls, LAMBDA d : d.k = "local")
    IN  FlattenSeq([i \in DOMAIN decls |-> DeclTexts(m, decls[i])])
          \o FlattenSeq([i \in DOMAIN locals |-> PartTexts(m, ScopesIn(m, locals[i]), The(locals[i], "block"))])
          \o PartTexts(m, <<ScopeOfModule(m)>>, block)

TextAccesses(texts) == FlattenSeq([i \in DOMAIN texts |-> Accesses(texts[i].ctx, texts[i].x)])
ModuleAccesses(m) == TextAccesses(ModuleTexts(m, The(IF m = "Main" THEN prog.main ELSE prog.impls[m], "block")))

----------------------------------------------------------------------------
SameAccess(a, b) ==
    /\ a.how = b.how /\ a.root = b.root /\ a.steps = b.steps
    /\ b.ty # <<>> => Denotes(sa, a.ty, prog, b.ty[1].m, b.ty[1].scopes, b.ty[1].tree, Depth)

SameAccesses(lowered, source) ==
    Len(lowered) = Len(source) /\ \A i \in DOMAIN lowered : SameAccess(lowered[i], source[i])

----------------------------------------------------------------------------
(* The forms whose places lower.rs does not find.                          *)

\* WITH looks at the first name of its designator only, gives a procedure's own
\* record a global base and forgets to dereference a pointer that is a field.
WithMisread(ctx, d) ==
    \/ \E s \in Range(Tail(d.c)) : s.k # "deref"
    \/ Len(Denoted(ctx, d).root) = 1
    \/ WithOf(ctx, d.c[1].v) # 0 /\ Len(d.c) = 1 /\ StructureOf(Denoted(ctx, d)).tree.k = "pointer"

\* Of several indices of a field that a WITH opens, only the first is kept.
IndexLost(ctx, d) == WithOf(ctx, d.c[1].v) # 0 /\ \E s \in Range(Of(d, {"index"})) : Len(s.c) > 1

\* The length of a field that a WITH opens, or of an outer procedure's open array.
HighLost(ctx, e) ==
    /\ e.k = "desig"
    /\ \/ WithOf(ctx, e.c[1].v) # 0
       \/ StructureOf(Denoted(ctx, e)).tree.k = "open" /\ ~HasName(ctx.scopes[1], e.c[1].v)

\* A nested procedure is called under the name it is defined by only from the
\* procedure around it.
MisnamedCall(ctx, to) == Len(to.root) > 2 /\ Front(to.root) # ctx.scopes[1].path

\* A procedure in a field is called with the parameters of the procedure in
\* scope that has the name of the field.
ForeignHeading(ctx, d) ==
    Last(d.c).k = "sel" /\ \E s \in Range(ctx.scopes) : \E p \in Range(s.decls) : p.k = "proc" /\ p.c[1].c[1].v = Last(d.c).c[1].v

OpenArguments(formals, args) == {args[i] : i \in {j \in DOMAIN args \cap DOMAIN formals : Last(formals[j].c).k = "open"}}
CallMisread(ctx, d, args) ==
    IF d.c[1].v = "HIGH" THEN HighLost(ctx, args[1])
    ELSE /\ ~IsBuiltinProc(d.c[1].v)
         /\ \/ MisnamedCall(ctx, Denoted(ctx, d)) \/ ForeignHeading(ctx, d)
            \/ \E e \in OpenArguments(FormalsOf(StructureOf(Denoted(ctx, d)).tree), args) : HighLost(ctx, e)

RECURSIVE Misread(_, _)
Misread(ctx, x) ==
    \/ x.k = "with" /\ (WithMisread(ctx, x.c[1]) \/ Misread(Entered(ctx, Denoted(ctx, x.c[1])), x.c[2]))
    \/ x.k = "desig" /\ IndexLost(ctx, x)
    \/ x.k \in {"pcall", "call"} /\ CallMisread(ctx, x.c[1], IF Len(x.c) = 2 THEN x.c[2].c ELSE <<>>)
    \/ x.k # "with" /\ \E i \in DOMAIN x.c : Misread(ctx, x.c[i])

UnitMisread(m) ==
    LET texts == ModuleTexts(m, The(IF m = "Main" THEN prog.main ELSE prog.impls[m], "block"))
    IN  \E i \in DOMAIN texts : texts[i].x.k # "proc" /\ Misread(texts[i].ctx, texts[i].x)

\* The representation of every body, of the main module, its procedures, nested
\* procedures and local modules and of the embedded implementations, accesses
\* in the order of the text exactly what the source denotes, unless the module has
\* one of the forms of Misread, which lower.rs gets wrong and then does not
\* (README 6 lists further ones that no program of the run has): a field of the
\* innermost WITH that has it before a variable of that name, the innermost of
\* several declarations, the original of a renamed import, M.x of module M; every
\* argument by value, by address or with its length as the parameter asks; every
\* call under the name its procedure is defined by; all with the type their
\* declaration denotes.
PlacesDenote ==
    phase = "built" => \A m \in {"Main"} \cup loaded :
        SameAccesses(LoweredUnit(hir[1], m), ModuleAccesses(m)) <=> ~UnitMisread(m)
=============================================================================
