---------------------------- MODULE SemaSession ----------------------------
(***************************************************************************)
(* One compilation as the analyser sees it: the driver registers the       *)
(* definition modules in an order that its hash map decides (imported ones *)
(* first), then the implementation modules from a stack of names, analyses *)
(* the main module, repairs the record fields and builds the high-level    *)
(* representation.  The language server (Editor) registers the same        *)
(* definitions, no implementations, and analyses the main module.          *)
(*                                                                         *)
(* A program is [defs, impls, main, legal]: trees by the name of the       *)
(* module, the tree of the main module, and whether it is legal by the way *)
(* it was made.                                                            *)
(***************************************************************************)
EXTENDS HirModule, Lowering, FiniteSets

CONSTANTS Picks,         \* descriptions of programs
          ProgramOf(_)   \* the program that is described

VARIABLES prog,    \* the program
          phase,   \* "defs", "impls", "fixup", "done", "built"
          todo,    \* definition modules not registered yet
          queue,   \* mod_queue: the last is loaded next
          loaded,  \* loaded_modules
          sa,      \* the analyser
          hir      \* the high-level representation, as <<>> or <<module>>

vars == <<prog, phase, todo, queue, loaded, sa, hir>>

\* The modules a unit imports, in order.
Imports(unit) ==
    LET names(i) == IF i.k = "from" THEN <<i.c[1].v>> ELSE [j \in DOMAIN i.c |-> i.c[j].v]
        imports == Of(unit, {"from", "import"})
    IN  FlattenSeq([i \in DOMAIN imports |-> names(imports[i])])

PreRegistered(pr) ==
    Through(LAMBDA a, m : PreRegisterTypeNames(a, pr.defs[m]), NewAnalyzer, SetToSeq(DOMAIN pr.defs))

Init ==
    /\ \E pick \in Picks : prog = ProgramOf(pick)
    /\ phase = "defs"
    /\ todo = DOMAIN prog.defs
    /\ queue = Imports(prog.main)
    /\ loaded = {}
    /\ sa = PreRegistered(prog)
    /\ hir = <<>>

\* Any module whose imports are registered may be the next.
RegisterDef(m) ==
    /\ phase = "defs"
    /\ Range(Imports(prog.defs[m])) \cap todo = {}
    /\ sa' = RegisterDefModule(sa, prog.defs[m])
    /\ todo' = todo \ {m}
    /\ UNCHANGED <<prog, phase, queue, loaded, hir>>

DefsRegistered ==
    /\ phase = "defs" /\ todo = {}
    /\ phase' = "impls"
    /\ UNCHANGED <<prog, todo, queue, loaded, sa, hir>>

\* A name that was loaded before, or has no implementation, is passed over.
LoadImpl ==
    /\ phase = "impls" /\ queue # <<>>
    /\ LET m == Last(queue)
       IN  IF m \in loaded \/ m \notin DOMAIN prog.impls
           THEN queue' = Front(queue) /\ UNCHANGED <<sa, loaded>>
           ELSE /\ queue' = Front(queue) \o SelectSeq(Imports(prog.impls[m]), LAMBDA x : x \notin loaded)
                /\ sa' = RegisterImplModule(sa, prog.impls[m])
                /\ loaded' = loaded \cup {m}
    /\ UNCHANGED <<prog, phase, todo, hir>>

\* A report of a lint is a warning, any other an error.
Warnings == {"W01", "W02", "W03", "W04", "W05", "W06", "W07", "W08", "W09"}
Faults(errs) == SelectSeq(errs, LAMBDA code : code \notin Warnings)

AnalyzeMain ==
    /\ phase = "impls" /\ queue = <<>>
    /\ sa' = Analyze(sa, prog.main)
    /\ phase' = "fixup"
    /\ UNCHANGED <<prog, todo, queue, loaded, hir>>

\* Only for a program without errors: the driver stops at any, but prints
\* warnings and goes on.
Fixup ==
    /\ phase = "fixup" /\ Faults(sa.errs) = <<>>
    /\ sa' = FixupRecordFieldTypes(sa)
    /\ phase' = "done"
    /\ UNCHANGED <<prog, todo, queue, loaded, hir>>

\* build_module reads the analyser's tables, with the implementations loaded.
BuildHir ==
    /\ phase = "done"
    /\ hir' = <<BuildModule(sa, prog.main, [m \in loaded |-> prog.impls[m]])>>
    /\ phase' = "built"
    /\ UNCHANGED <<prog, todo, queue, loaded, sa>>

Next ==
    \/ \E m \in todo : RegisterDef(m)
    \/ DefsRegistered
    \/ LoadImpl
    \/ AnalyzeMain
    \/ Fixup
    \/ BuildHir

Spec == Init /\ [][Next]_vars

Analysed == phase \in {"fixup", "done", "built"}

\* analyze.rs: the definitions in the order of its own walk, then the unit.
RECURSIVE Registered(_, _, _)
Registered(a, pr, left) ==
    IF left = {} THEN a
    ELSE LET m == CHOOSE x \in left : Range(Imports(pr.defs[x])) \cap left = {}
         IN  Registered(RegisterDefModule(a, pr.defs[m]), pr, left \ {m})

Editor(pr) == Analyze(Registered(PreRegistered(pr), pr, DOMAIN pr.defs), pr.main)

----------------------------------------------------------------------------
(* What types denote, from the declarations alone.                         *)

NameTree(name) == [k |-> "id", v |-> name, c |-> <<>>]
QualTree(m, name) == [k |-> "qual", v |-> "", c |-> <<NameTree(m), NameTree(name)>>]

\* The declaration of a type in a list of declarations, <<>> if none.
Declared(decls, name) == SelectSeq(decls, LAMBDA d : d.k = "typedecl" /\ d.c[1].v = name)

\* A module's declarations of types and its imports; a full declaration in the
\* implementation takes the place of an opaque one.
TypeDecls(pr, m) ==
    IF m = "Main" THEN The(pr.main, "block").c[1].c
    ELSE LET impl == IF m \in DOMAIN pr.impls THEN The(pr.impls[m], "block").c[1].c ELSE <<>>
         IN  impl \o Definitions(pr.defs[m])

UnitOf(pr, m) == IF m = "Main" THEN pr.main ELSE pr.defs[m]

\* The module a name is imported from, "" if it is not.
ImportedFrom(pr, m, name) ==
    LET from == SelectSeq(Of(UnitOf(pr, m), {"from"}),
                          LAMBDA i : \E j \in 2..Len(i.c) : i.c[j].v = name)
    IN  IF from = <<>> THEN "" ELSE from[1].c[1].v

\* The scopes from the one that declares a type, <<>> if none does.
RECURSIVE Declaring(_, _)
Declaring(scopes, name) ==
    IF scopes = <<>> \/ Declared(scopes[1], name) # <<>> THEN scopes ELSE Declaring(Tail(scopes), name)

FieldsOf(record) ==
    LET fields(f) == [i \in DOMAIN f.c[1].c |-> <<f.c[1].c[i].v, f.c[2]>>]
    IN  FlattenSeq([i \in DOMAIN record.c[1].c |-> fields(record.c[1].c[i])])

\* The types the reference goes into: literal bounds, records without variants.
Bounded(range) == range.c[1].k = "int" /\ range.c[2].k = "int"
Fixed(record) == \A i \in DOMAIN record.c[1].c : record.c[1].c[i].k = "field"

IsOpaque(pr, m, name) == \E d \in Range(Definitions(pr.defs[m])) : Len(d.c) = 1 /\ d.c[1].v = name

RECURSIVE Denotes(_, _, _, _, _, _, _)

\* A name means its innermost declaration, else what is imported, else a
\* built-in type.
NameDenotes(a, id, pr, m, scopes, name, n) ==
    LET t == Resolved(a, id)
        in == Declaring(scopes, name)
        home == ImportedFrom(pr, m, name)
    IN  CASE in # <<>> -> LET d == Declared(in[1], name)[1]
                          IN  IF Len(d.c) = 1 THEN t.k = "Opaque" ELSE Denotes(a, id, pr, m, in, d.c[2], n)
          [] in = <<>> /\ home # "" -> Denotes(a, id, pr, m, scopes, QualTree(home, name), n)
          [] OTHER -> t.k = BuiltinTypes[TY[name]]

\* The type id of the analyser a is what the tree means in module m, with the
\* declarations of the scopes around it, innermost first; to depth n.
Denotes(a, id, pr, m, scopes, tree, n) ==
    LET t == Resolved(a, id)
        sub(x, y) == Denotes(a, x, pr, m, scopes, y, n - 1)
        home == tree.c[1].v
        name == tree.c[2].v
        fs == FieldsOf(tree)
        range(x) == <<x.c[1].v, x.c[2].v>>
    IN  \/ n = 0
        \/ CASE tree.k = "id"       -> NameDenotes(a, id, pr, m, scopes, tree.v, n)
             [] tree.k = "qual"     ->
                    \/ t.k = "Opaque" /\ t.n = name /\ t.md = home /\ IsOpaque(pr, home, name)
                    \/ NameDenotes(a, id, pr, home, <<TypeDecls(pr, home)>>, name, n)
             [] tree.k = "pointer"  -> t.k = "Pointer" /\ sub(t.base, tree.c[1])
             [] tree.k = "setof"    -> t.k = "Set" /\ sub(t.base, tree.c[1])
             [] tree.k = "array" /\ Bounded(tree.c[1].c[1]) /\ Len(tree.c[1].c) = 1 ->
                                       /\ t.k = "Array" /\ sub(t.base, tree.c[2])
                                       /\ <<t.lo, t.hi>> = range(tree.c[1].c[1])
             [] tree.k = "subrange" /\ Bounded(tree) -> t.k = "Subrange" /\ <<t.lo, t.hi>> = range(tree)
             [] tree.k = "enum"     -> t.k = "Enumeration" /\ t.ns = [i \in DOMAIN tree.c |-> tree.c[i].v]
             [] tree.k = "record" /\ Fixed(tree) -> /\ t.k = "Record" /\ Len(t.fs) = Len(fs)
                                       /\ \A i \in DOMAIN fs : t.fs[i].n = fs[i][1] /\ sub(t.fs[i].t, fs[i][2])
             [] OTHER -> TRUE

Depth == 5

\* The variables among the declarations have the types written there.
VarsDenote(a, pr, m, sc, own, scopes) ==
    \A v \in Range(SelectSeq(own, LAMBDA d : d.k = "var")) :
        \A i \in DOMAIN v.c[1].c :
            Denotes(a, Sym(a, sc, v.c[1].c[i].v).typ, pr, m, scopes, v.c[2], Depth)

ScopesNamed(a, name) == {sc \in DOMAIN a.scopes : a.scopes[sc].name = name}

ProgramDenotes(a, pr, main) ==
    /\ VarsDenote(a, pr, "Main", LookupModuleScope(a, "Main"), main, <<main>>)
    /\ \A p \in Range(SelectSeq(main, LAMBDA d : d.k = "proc")) : \A sc \in ScopesNamed(a, p.c[1].c[1].v) :
          VarsDenote(a, pr, "Main", sc, p.c[2].c[1].c, <<p.c[2].c[1].c, main>>)
    /\ \A m \in DOMAIN pr.defs :
          VarsDenote(a, pr, m, LookupModuleScope(a, m), Definitions(pr.defs[m]), <<TypeDecls(pr, m)>>)

\* After the analysis of an accepted program every variable, of a module, of a
\* procedure or of a library, has the type that its declaration denotes by
\* the scope rules: in whatever order types are declared and definition modules
\* registered, across aliases of aliases, pointers to types declared later,
\* local types that hide outer ones, and both forms of import.  A type opaque
\* in its definition module may be seen as opaque or as what it stands for.
TypesDenote == (Analysed /\ Faults(sa.errs) = <<>>) => ProgramDenotes(sa, prog, The(prog.main, "block").c[1].c)

----------------------------------------------------------------------------
(* Which statements are wrong, from the declarations around them.          *)

\* Follow names to a declaration that is not a name: [m, n] is where and under
\* which name it was found ("" for none, or a built-in one), tree what it says.
RECURSIVE Meaning(_, _, _, _)
Meaning(pr, m, decls, tree) ==
    LET own == Declared(decls, tree.v)
        home == ImportedFrom(pr, m, tree.v)
        here == [m |-> m, n |-> tree.v, tree |-> IF own = <<>> THEN tree ELSE Last(own[1].c)]
    IN  CASE tree.k # "id"    -> [m |-> m, n |-> "", tree |-> tree]
          [] tree.k = "id" /\ own # <<>> ->
                IF Len(own[1].c) = 2 /\ own[1].c[2].k = "id" THEN Meaning(pr, m, decls, own[1].c[2]) ELSE here
          [] tree.k = "id" /\ own = <<>> /\ home # "" -> Meaning(pr, home, Definitions(pr.defs[home]), tree)
          [] OTHER -> [here EXCEPT !.m = ""]

\* A built-in name, the kind of a constructed type, or "opaque".
KindOf(t) == IF t.tree.k = "id" THEN IF t.n = t.tree.v /\ t.n \in DOMAIN TY THEN t.n ELSE "opaque" ELSE t.tree.k

Wrong == [m |-> "", n |-> "", tree |-> NameTree("?")]
Literal(k) == [m |-> "", n |-> "", tree |-> [k |-> k, v |-> 0, c |-> <<>>]]

\* The declared type of a variable, parameters included.
VarMeaning(pr, decls, name) ==
    LET vars1 == SelectSeq(decls, LAMBDA d : d.k \in {"var", "param"}
                                   /\ \E i \in DOMAIN The(d, "names").c : The(d, "names").c[i].v = name)
    IN  IF vars1 = <<>> THEN Wrong ELSE Meaning(pr, "Main", decls, Last(vars1[1].c))

ExprMeaning(pr, decls, e) ==
    CASE e.k = "int"    -> Meaning(pr, "Main", <<>>, NameTree("INTEGER"))
      [] e.k = "string" -> Literal(IF e.v = 1 THEN "char" ELSE "string")
      [] e.k = "bin"    -> Meaning(pr, "Main", <<>>, NameTree("BOOLEAN"))
      [] e.k = "desig" /\ e.c[1].v = "NIL" -> Literal("nil")
      [] OTHER          -> VarMeaning(pr, decls, e.c[1].v)

Same(a, b) == a.m = b.m /\ a.n = b.n /\ a.tree.k = b.tree.k

\* The kind of the values: the one of its bounds for a subrange.
HostOf(t) == IF t.tree.k = "subrange" THEN IF t.tree.c[1].k = "int" THEN "INTEGER" ELSE "CHAR" ELSE KindOf(t)
WholeNumbers == {"INTEGER", "CARDINAL", "LONGINT", "LONGCARD"}

\* Modula-2: the same type, whole numbers, a character, NIL.
Allowed(dst, src) ==
    \/ Same(dst, src)
    \/ HostOf(dst) = "CHAR" /\ HostOf(src) \in {"CHAR", "char"}
    \/ HostOf(dst) \in WholeNumbers /\ HostOf(src) \in WholeNumbers
    \/ KindOf(dst) \in {"pointer", "opaque"} /\ KindOf(src) = "nil"

\* What the analyser lets pass on top of it: types of one class are not told
\* apart (docs/PIM4_CONFORMANCE_AUDIT.md:18, F07).
Classes == {WholeNumbers \cup {"CHAR", "BOOLEAN", "enum"}, {"record"}, {"array"}, {"setof"}, {"pointer"}}
Tolerated(dst, src) ==
    \/ \E class \in Classes : HostOf(dst) \in class /\ HostOf(src) \in class
    \/ {KindOf(dst), KindOf(src)} = {"pointer", "opaque"}
    \/ KindOf(dst) \in {"REAL", "LONGREAL"} /\ HostOf(src) \in WholeNumbers \cup {"REAL", "LONGREAL"}

When(bad, code) == IF bad THEN <<code>> ELSE <<>>

\* Wrong, and of a form that the analyser passes or not.
Wrongs(bad, passed, code) == When(bad, IF passed THEN "passed" ELSE code)
AssignErrors(dst, src, code) == Wrongs(~Allowed(dst, src), Tolerated(dst, src), code)

\* The parameters of a procedure imported from a library.
Heading(pr, name) ==
    LET home == ImportedFrom(pr, "Main", name)
    IN  The([c |-> SelectSeq(pr.defs[home].c, LAMBDA d : d.k = "heading" /\ d.c[1].v = name)], "heading")

\* VAR: the very type, but arrays of the same elements pass; by value: what
\* could be assigned.
ElementOf(pr, decls, t) ==
    Meaning(pr, t.m, IF t.m = "Main" THEN decls ELSE Definitions(pr.defs[t.m]), Last(t.tree.c))
SameElements(pr, decls, a, b) ==
    KindOf(a) = "array" /\ KindOf(b) = "array" /\ Same(ElementOf(pr, decls, a), ElementOf(pr, decls, b))
FormalMeaning(pr, home, p) == Meaning(pr, home, Definitions(pr.defs[home]), Last(p.c))
PassErrors(pr, decls, var, formal, actual) ==
    IF var THEN Wrongs(~Same(formal, actual), SameElements(pr, decls, formal, actual), "VAR argument")
    ELSE AssignErrors(formal, actual, "argument")
ArgErrors(pr, decls, p, e) ==
    PassErrors(pr, decls, Has(p, "VAR"), FormalMeaning(pr, ImportedFrom(pr, "Main", "P"), p), ExprMeaning(pr, decls, e))

\* ctx: [loops, the kinds of the loops around; proc, inside a procedure; ret, its result type
\* as a tree or <<>>; decls, all declarations in scope, innermost first].
CondErrors(type, code) == When(KindOf(type) # "BOOLEAN", code)

ReturnErrors(pr, ctx, value) ==
    CASE value = <<>>                     -> When(ctx.ret # <<>>, "RETURN needs a value")
      [] value # <<>> /\ ctx.ret = <<>>  -> When(ctx.proc, "RETURN of a value")
      [] OTHER -> AssignErrors(Meaning(pr, "Main", ctx.decls, ctx.ret[1]), ExprMeaning(pr, ctx.decls, value[1]),
                               "RETURN type")

CallErrors(pr, ctx, params, args) ==
    FlattenSeq([i \in DOMAIN args |-> ArgErrors(pr, ctx.decls, params[i], args[i])])

\* The conditions of a statement, in front of the bodies or behind them.
CondCode == [if |-> "IF", while |-> "WHILE", repeat |-> "UNTIL"]
Loops == {"while", "repeat", "for", "loop"}

\* All statement lists of a statement, in order.
Bodies(s) ==
    LET clauses == SelectSeq(s.c, LAMBDA x : x.k \in {"stmts", "else", "except", "branch"})
    IN  [i \in DOMAIN clauses |-> IF clauses[i].k = "stmts" THEN clauses[i] ELSE Last(clauses[i].c)]

RECURSIVE Errors(_, _, _)
BodyErrors(pr, ctx, bodies) ==
    FlattenSeq([i \in DOMAIN bodies |-> FlattenSeq([j \in DOMAIN bodies[i].c |-> Errors(pr, ctx, bodies[i].c[j])])])

Errors(pr, ctx, s) ==
    CASE s.k = "assign" -> AssignErrors(ExprMeaning(pr, ctx.decls, s.c[1]), ExprMeaning(pr, ctx.decls, s.c[2]), "assignment")
      [] s.k = "exit"   -> Wrongs("loop" \notin ctx.loops, ctx.loops # {}, "EXIT")
      [] s.k = "return" -> ReturnErrors(pr, ctx, s.c)
      [] s.k = "pcall"  -> CallErrors(pr, ctx, Of(Heading(pr, s.c[1].c[1].v), {"param"}), s.c[2].c)
      [] OTHER -> LET cond == IF s.k \in DOMAIN CondCode
                              THEN CondErrors(ExprMeaning(pr, ctx.decls, (Of(s, {"desig", "bin"}))[1]), CondCode[s.k]) ELSE <<>>
                      body == BodyErrors(pr, [ctx EXCEPT !.loops = @ \cup ({s.k} \cap Loops)], Bodies(s))
                  IN  IF s.k = "repeat" THEN body \o cond ELSE cond \o body

\* The errors of a block: of its procedures, as they are declared, then of
\* its statements.
RECURSIVE BlockErrors(_, _, _)
Inside(ctx, h) ==
    [ctx EXCEPT !.proc = TRUE, !.decls = Of(h, {"param"}) \o @,
                !.ret = IF Has(h, "result") THEN The(h, "result").c ELSE <<>>]
PartsErrors(pr, in, procs, begin) ==
    FlattenSeq([i \in DOMAIN procs |-> BlockErrors(pr, Inside(in, procs[i].c[1]), procs[i].c[2])])
      \o FlattenSeq([i \in DOMAIN begin |-> BodyErrors(pr, in, begin[i].c)])
BlockErrors(pr, ctx, block) ==
    PartsErrors(pr, [ctx EXCEPT !.decls = block.c[1].c \o @], Of(block.c[1], {"proc"}), Of(block, {"begin"}))

ModuleContext == [loops |-> {}, proc |-> FALSE, ret |-> <<>>, decls |-> <<>>]

MainErrors(pr) == IF pr.legal THEN <<>> ELSE BlockErrors(pr, ModuleContext, The(pr.main, "block"))

\* The analyser accepts the legal programs, with every kind of declaration and
\* statement, warnings apart, and of the others reports exactly the errors of the
\* statements where they stand, in order, but for the mistakes it passes: an EXIT
\* inside no LOOP but another loop, which docs/lang/keywords/EXIT.md:4 excludes, and
\* values of another type of the same class (Tolerated, SameElements), which types.rs
\* does not tell apart.  Neither a procedure, a nested procedure nor a statement that
\* was analysed before, of this module or of a library, changes what is
\* accepted after it, and a name means the innermost declaration around it.
ErrorsExact ==
    Analysed => Faults(sa.errs) = SelectSeq(MainErrors(prog), LAMBDA code : code # "passed")

\* The compiler, which also analyses the implementations of the imported
\* modules, and the language server, which does not, report the same errors
\* for the main module.
EditorAgrees == Analysed => sa.errs = Editor(prog).errs

----------------------------------------------------------------------------
\* Types whose size the analyser and the code generator should agree on:
\* those made of built-in types, pointers, sets, enumerations and subranges by
\* arrays from 0 and records without variants.
RECURSIVE Storable(_, _)
Storable(reg, id) ==
    LET t == reg[id]
    IN  CASE t.k \in {"Pointer", "Ref", "ProcedureType", "Opaque", "Set", "Enumeration", "Subrange"} -> TRUE
          [] t.k = "Array"  -> t.lo = 0 /\ Storable(reg, t.base)
          [] t.k = "Record" -> t.vs = <<>> /\ t.fs # <<>> /\ \A i \in DOMAIN t.fs : Storable(reg, t.fs[i].t)
          [] t.k = "Alias"  -> Storable(reg, t.base)
          [] OTHER          -> t.k \notin {"Void", "Nil", "Error", "StringLit", "OpenArray", "Object", "Exception"}

SameStorage(reg, id, lowered) ==
    /\ TypeSize(reg, id) = StorageOf(lowered).size
    /\ TypeAlign(reg, id) = StorageOf(lowered).al
    /\ reg[id].k = "Record" => ComputeRecordLayout(reg, reg[id]).at = StructElements(lowered.of).at

\* Whatever order the modules were registered in, and after the fields that
\* had no type got one: the size that TSIZE and ALLOCATE use, the alignment,
\* and the offsets of the fields are those of the LLVM type the values are
\* stored in.
StorageAgrees ==
    Analysed => \A id \in DOMAIN sa.types :
        Storable(sa.types, id) => SameStorage(sa.types, id, LowerType(sa.types, id))
=============================================================================
