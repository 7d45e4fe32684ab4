------------------------------ MODULE HirBuild ------------------------------
(***************************************************************************)
(* The builder of the high-level intermediate representation (hir_build):  *)
(* it turns the trees of a checked program into places, calls and          *)
(* statements, resolving every name once more in the tables of the         *)
(* analyser, and eliminates WITH.                                          *)
(*                                                                         *)
(* A builder is [sa, module, imported, aliases, vars, highs, withs,        *)
(* inProc, scope]: the analyser, the module, the imported modules, the     *)
(* original names of renamed imports, the types of the TYPECASE bindings,  *)
(* the open array parameters with a companion for HIGH, the stack of WITH  *)
(* statements, and the scope (0 for none).                                 *)
(*                                                                         *)
(* A place is [base, proj, ty].  A base is a constant, or a local, global  *)
(* or procedure with its symbol id, whose mangled name is a sequence of    *)
(* names.  An expression or statement is [k, c, ...] with its parts c.     *)
(* C names of standard procedures, the pool of strings, and the older      *)
(* copies of procedures and initialisations beside the ones used here      *)
(* are left out, as are names that contain underscores.                    *)
(***************************************************************************)
EXTENDS Sema

NoVars == [n \in {} |-> 0]

Builder(sa, module, imported, aliases) ==
    [sa |-> sa, module |-> module, imported |-> imported, aliases |-> aliases, vars |-> NoVars, highs |-> {},
     withs |-> <<>>, inProc |-> FALSE, scope |-> LookupModuleScope(sa, module)]

SymbolId(mangled, name, module, ty) ==
    [mangled |-> mangled, name |-> name, module |-> module, ty |-> ty, high |-> FALSE, var |-> FALSE, open |-> FALSE]

BarePlace(base, ty) == [base |-> base, proj |-> <<>>, ty |-> ty]
Rooted(k, id) == BarePlace([k |-> k, id |-> id], id.ty)
NoPlace == BarePlace([k |-> "None"], TY.ERROR)
Resolves(p) == p.base.k # "None"

\* Expressions.
Lit(k, v, ty) == [k |-> k, v |-> v, c |-> <<>>, ty |-> ty]
PlaceExpr(k, p, ty) == [k |-> k, p |-> p, c |-> <<>>, ty |-> ty]
Op(op, c, ty) == [k |-> "Op", op |-> op, c |-> c, ty |-> ty]
Direct(id, c, ty) == [k |-> "Direct", to |-> id, c |-> c, ty |-> ty]
Indirect(p, c, ty) == [k |-> "Indirect", p |-> p, c |-> c, ty |-> ty]

----------------------------------------------------------------------------
(* The functions that call each other.                                     *)

RECURSIVE Lower(_, _, _)

ResolveDesignator(hb, d) == Lower("place", hb, d)
LowerExpr(hb, e) == Lower("expr", hb, e)
LowerStmts(acc, stmts) == Lower("stmts", acc, stmts)
LowerClause(acc, x) == Lower("clause", acc, x)

LowerAll(hb, es) == [i \in DOMAIN es |-> LowerExpr(hb, es[i])]

----------------------------------------------------------------------------
(* Names.                                                                  *)

\* Mutant: the first symbol of that name, in whatever scope.
AnyScope(hb, name) == LookupAny(hb.sa, name)

\* The scope that has the symbol a name means, or 0.
ScopeLookup(hb, name) ==
    IF hb.scope # 0 THEN FindFrom(hb.sa, hb.scope, name) ELSE LookupAny(hb.sa, name)

OwnSym(hb, name, kind) ==
    hb.scope # 0 /\ Here(hb.sa, hb.scope, name) /\ Sym(hb.sa, hb.scope, name).kind = kind

\* A variable of the procedure itself.
IsLocal(hb, name) == hb.inProc /\ OwnSym(hb, name, "Variable") /\ Sym(hb.sa, hb.scope, name).module = ""

Original(hb, name) == IF name \in DOMAIN hb.aliases THEN hb.aliases[name] ELSE name

\* A procedure nested in this one has the name of this one in its own, but only
\* of this one.
MangledName(hb, name, sym) ==
    LET orig == Original(hb, name)
        from == IF sym.module # "" THEN sym.module ELSE hb.module
    IN  IF IsLocal(hb, name) THEN <<name>>
        ELSE IF from \in hb.sa.foreign THEN <<orig>>
        ELSE IF sym.module = "" /\ sym.kind = "Procedure" /\ hb.inProc /\ OwnSym(hb, orig, "Procedure")
             THEN <<hb.module, hb.sa.scopes[hb.scope].name, orig>>
        ELSE <<from, orig>>

ConstBase(sym) == BarePlace([k |-> "Const", val |-> sym.val], sym.typ)

SymbolToBase(hb, name, sym) ==
    LET from == IF sym.module # "" THEN sym.module ELSE hb.module
        id == [SymbolId(MangledName(hb, name, sym), name, IF IsLocal(hb, name) THEN "" ELSE from, sym.typ)
                   EXCEPT !.var = sym.var, !.open = sym.open]
    IN  CASE sym.kind \in {"Constant", "EnumVariant"} -> ConstBase(sym)
          [] sym.kind = "Procedure" -> Rooted("Func", id)
          [] OTHER -> Rooted(IF IsLocal(hb, name) THEN "Local" ELSE "Global", id)

\* What a builder was told of: it is local to a procedure.
RegisteredBase(hb, name, ty) ==
    IF hb.inProc THEN Rooted("Local", SymbolId(<<name>>, name, "", ty))
    ELSE Rooted("Global", SymbolId(<<hb.module, name>>, name, hb.module, ty))

ResolveBase(hb, name) ==
    LET sc == ScopeLookup(hb, name)
    IN  IF sc # 0 THEN SymbolToBase(hb, name, Sym(hb.sa, sc, name))
        ELSE IF name \in DOMAIN hb.vars THEN RegisteredBase(hb, name, hb.vars[name])
        ELSE NoPlace

\* The companion of an open array parameter.
HighPlace(hb, name) ==
    IF name \in hb.highs
    THEN Rooted("Local", [SymbolId(<<name, "high">>, name, "", TY.INTEGER) EXCEPT !.high = TRUE]) ELSE NoPlace

\* M.name, which a global of type INTEGER stands for when M has no such name.
MemberBase(sa, m, name, sc) ==
    LET sym == IF sc = 0 THEN Symbol("None", TY.INTEGER) ELSE Sym(sa, sc, name)
        id == SymbolId(<<m, name>>, name, m, sym.typ)
    IN  CASE sym.kind \in {"Constant", "EnumVariant"} -> ConstBase(sym)
          [] sym.kind = "Procedure" -> Rooted("Func", id)
          [] OTHER -> Rooted("Global", id)
ResolveModuleQualified(hb, m, name) == MemberBase(hb.sa, m, name, LookupQualified(hb.sa, m, name))

----------------------------------------------------------------------------
(* Selectors.                                                              *)

NoProj == [k |-> "None"]
FieldProj(at, ty) == [k |-> "Field", at |-> at, ty |-> ty]

\* The number of the first field so named, or 0.
FieldNumber(fs, name) == SelectInSeq(fs, LAMBDA f : f.n = name)

\* <<case, field>> of the first field so named in the cases, or <<0, 0>>.
CaseNumber(cases, name) ==
    LET in == {i \in DOMAIN cases : FieldNumber(cases[i], name) # 0}
    IN  IF in = {} THEN <<0, 0>>
        ELSE LET i == CHOOSE x \in in : \A y \in in : x <= y IN <<i, FieldNumber(cases[i], name)>>

\* A fixed field, else one of the cases; through pointers.
RECURSIVE FieldProjection(_, _, _)
FieldProjection(sa, id, name) ==
    LET t == Resolved(sa, id)
        i == FieldNumber(t.fs, name)
        at == CaseNumber(t.vs[1].cases, name)
    IN  CASE t.k = "Pointer" -> FieldProjection(sa, t.base, name)
          [] t.k = "Record" /\ i # 0 -> FieldProj(<<i>>, t.fs[i].t)
          [] t.k = "Record" /\ i = 0 ->
                IF t.vs = <<>> \/ at[1] = 0 THEN NoProj ELSE FieldProj(at, t.vs[1].cases[at[1]][at[2]].t)
          [] OTHER -> NoProj

\* Only the first expression of an index selector is looked at.
Selection(hb, ty, s) ==
    LET t == Resolved(hb.sa, ty)
        index(elem) == [k |-> "Index", e |-> LowerExpr(hb, s.c[1]), ty |-> elem]
        deref(to) == [k |-> "Deref", ty |-> to]
    IN  CASE s.k = "sel"   -> FieldProjection(hb.sa, ty, s.c[1].v)
          [] s.k = "index" -> CASE t.k \in {"Array", "OpenArray"} -> index(t.base)
                                [] t.k \in {"StringLit", "Char"}  -> index(TY.CHAR)
                                [] OTHER -> NoProj
          [] s.k = "deref" -> CASE t.k \in {"Pointer", "Ref"} -> deref(ResolveAlias(hb.sa.types, t.base))
                                [] t.k = "Address" -> deref(TY.CHAR)
                                [] OTHER -> deref(TY.ADDRESS)
          [] s.k = "args"  -> [k |-> "Transfer", ty |-> ResolveAlias(hb.sa.types, ty),
                               e |-> IF s.c = <<>> THEN Lit("Int", 0, TY.INTEGER) ELSE LowerExpr(hb, s.c[1])]

Project(p, j) == IF j.k = "None" THEN NoPlace ELSE [p EXCEPT !.proj = Append(@, j), !.ty = j.ty]

SelectFrom(hb, place, sels) ==
    Through(LAMBDA p, s : IF Resolves(p) THEN Project(p, Selection(hb, p.ty, s)) ELSE p, place, sels)

\* One projection for each index of A[i, j].
ApplySelectors(hb, place, sels) ==
    LET single(s) == IF s.k = "index" THEN [i \in DOMAIN s.c |-> [s EXCEPT !.c = <<s.c[i]>>]] ELSE <<s>>
    IN  SelectFrom(hb, place, FlattenSeq([i \in DOMAIN sels |-> single(sels[i])]))

----------------------------------------------------------------------------
(* WITH.                                                                   *)

FixedField(sa, record, name) ==
    sa.types[record].k = "Record" /\ FieldNumber(sa.types[record].fs, name) # 0

FieldNames(t) ==
    IF t.k # "Record" THEN {}
    ELSE {f.n : f \in Range(t.fs)} \cup (IF t.vs = <<>> THEN {} ELSE {f.n : f \in Range(FlattenSeq(t.vs[1].cases))})

\* The record that a WITH opens; one nested in another has its place.
WithBase(hb, ws) ==
    LET ty == IF ws.var \in DOMAIN hb.vars THEN hb.vars[ws.var] ELSE ws.record
        top == IF ws.var \in DOMAIN hb.vars THEN Rooted("Local", SymbolId(<<ws.var>>, ws.var, "", ty))
               ELSE Rooted("Global", SymbolId(<<hb.module, ws.var>>, ws.var, hb.module, ty))
    IN  IF ws.parent # <<>> THEN ws.parent[1]
        ELSE IF ws.deref THEN Project(top, [k |-> "Deref", ty |-> ws.record]) ELSE top

\* A WITH that opens a field of an outer one, the innermost that has it: <<place>>; <<>> otherwise.
BuildWithParentBase(hb, name) ==
    LET i == SelectLastInSeq(hb.withs, LAMBDA ws : FixedField(hb.sa, ws.record, name))
    IN  IF i = 0 THEN <<>>
        ELSE <<Project(WithBase(hb, hb.withs[i]), FieldProjection(hb.sa, hb.withs[i].record, name))>>

PushWith(hb, name, id) ==
    LET t == Resolved(hb.sa, id)
        record == ResolveAlias(hb.sa.types, IF t.k = "Pointer" THEN t.base ELSE id)
    IN  [hb EXCEPT !.withs = Append(@, [var |-> name, record |-> record, fields |-> FieldNames(hb.sa.types[record]),
                                        deref |-> t.k = "Pointer", parent |-> BuildWithParentBase(hb, name)])]
PopWith(hb) == [hb EXCEPT !.withs = Front(@)]

ResolveWithField(hb, name, sels) ==
    LET i == SelectLastInSeq(hb.withs, LAMBDA ws : name \in ws.fields)
        ws == hb.withs[i]
    IN  IF i = 0 THEN NoPlace
        ELSE SelectFrom(hb, Project(WithBase(hb, ws), FieldProjection(hb.sa, ws.record, name)), sels)

\* The type of the first name of a WITH, whatever follows it; fields of outer
\* records come last.
WithType(hb, name) ==
    LET sc == IF ScopeLookup(hb, name) # 0 THEN ScopeLookup(hb, name) ELSE LookupAny(hb.sa, name)
        i == SelectLastInSeq(hb.withs, LAMBDA ws : FixedField(hb.sa, ws.record, name))
    IN  CASE name \in DOMAIN hb.vars -> hb.vars[name]
          [] name \notin DOMAIN hb.vars /\ sc # 0 -> Sym(hb.sa, sc, name).typ
          [] name \notin DOMAIN hb.vars /\ sc = 0 /\ i # 0 -> FieldProjection(hb.sa, hb.withs[i].record, name).ty
          [] OTHER -> TY.ERROR

----------------------------------------------------------------------------
\* M.x, a field of an open record, or a name of the scope.
OwnPlace(hb, d, field) ==
    IF Resolves(field) THEN field ELSE ApplySelectors(hb, ResolveBase(hb, d.c[1].v), Tail(d.c))
PlaceOf(hb, d) ==
    LET name == d.c[1].v
        sels == Tail(d.c)
    IN  IF sels # <<>> /\ name \in hb.imported /\ sels[1].k = "sel"
        THEN ApplySelectors(hb, ResolveModuleQualified(hb, name, sels[1].c[1].v), Tail(sels))
        ELSE OwnPlace(hb, d, ResolveWithField(hb, name, sels))

----------------------------------------------------------------------------
(* Calls.                                                                  *)

\* For each parameter, whether it is VAR and whether it takes any length.
ParamInfo(sa, ps) ==
    [i \in DOMAIN ps |-> [var |-> ps[i].var, open |-> Resolved(sa, ps[i].t).k \in {"OpenArray", "StringLit"}]]

\* The symbol a call names: f of m.f is looked for in m, then as if it stood alone.
CalleeScope(hb, name, sels) ==
    IF sels # <<>> /\ sels[1].k = "sel"
    THEN LET f == sels[1].c[1].v
             sc == LookupQualified(hb.sa, name, f)
         IN  <<IF sc # 0 THEN sc ELSE ScopeLookup(hb, f), f>>
    ELSE <<ScopeLookup(hb, name), name>>

\* The signature of a procedure, of a procedure variable, else of the place.
ParamsFrom(sa, sym, type, place) ==
    ParamInfo(sa, IF sym.kind = "Procedure" THEN sym.params
                  ELSE IF type.k = "ProcedureType" THEN type.fs
                  ELSE IF place.k = "ProcedureType" THEN place.fs ELSE <<>>)
ParamsOfSym(hb, d, sym) ==
    ParamsFrom(hb.sa, sym, Resolved(hb.sa, sym.typ), Resolved(hb.sa, ResolveDesignator(hb, d).ty))
SymOfCallee(sa, callee) == IF callee[1] = 0 THEN Symbol("None", TY.ERROR) ELSE Sym(sa, callee[1], callee[2])
LookupProcParams(hb, d) == ParamsOfSym(hb, d, SymOfCallee(hb.sa, CalleeScope(hb, d.c[1].v, Tail(d.c))))

\* HIGH of an argument; 0 where it is not known.
ComputeHighForArg(hb, e) ==
    LET int(n) == Lit("Int", n, TY.INTEGER)
        name == e.c[1].v
        sc == ScopeLookup(hb, name)
        sym == Sym(hb.sa, sc, name)
        t == Resolved(hb.sa, sym.typ)
        place == Resolved(hb.sa, ResolveDesignator(hb, e).ty)
        high == HighPlace(hb, name)
    IN  IF e.k = "string" THEN int(e.v)
        ELSE IF e.k # "desig" THEN int(0)
        ELSE IF Len(e.c) > 1 THEN int(IF place.k = "Array" THEN place.hi ELSE 0)
        ELSE IF sc = 0 THEN int(0)
        ELSE CASE t.k \in {"Array", "StringLit"} -> int(t.hi)
               [] t.k = "OpenArray" -> IF Resolves(high) THEN PlaceExpr("Place", high, TY.INTEGER) ELSE int(0)
               [] OTHER -> int(IF sym.kind = "Constant" /\ sym.val.k = "String" THEN sym.val.v ELSE 0)

\* A literal of one character is a string where an open array is expected.
Promoted(x) == IF x.k = "String" THEN [x EXCEPT !.ty = TY.STRING] ELSE x

\* Arrays, parameters passed by address and addresses are passed as they are.
AlreadyPointer(sa, p) ==
    \/ p.base.k \in {"Local", "Global"} /\ (p.base.id.open \/ p.base.id.var)
    \/ p.ty = TY.ADDRESS \/ Resolved(sa, p.ty).k \in {"Array", "OpenArray"}

ExpandArg(hb, e, param) ==
    LET p == ResolveDesignator(hb, e)
        addressed == e.k = "desig" /\ param.var /\ Resolves(p)
        value == IF addressed THEN PlaceExpr(IF param.open /\ AlreadyPointer(hb.sa, p) THEN "Place" ELSE "AddrOf", p, TY.ADDRESS)
                 ELSE IF param.open THEN Promoted(LowerExpr(hb, e)) ELSE LowerExpr(hb, e)
    IN  IF param.open THEN <<value, ComputeHighForArg(hb, e)>> ELSE <<value>>

ExpandCallArgs(hb, args, params) ==
    LET param(i) == IF i \in DOMAIN params THEN params[i] ELSE [var |-> FALSE, open |-> FALSE]
    IN  FlattenSeq([i \in DOMAIN args |-> ExpandArg(hb, args[i], param(i))])

----------------------------------------------------------------------------
(* Expressions.                                                            *)

Transfers ==
    [INTEGER |-> TY.INTEGER, INT |-> TY.INTEGER, TRUNC |-> TY.INTEGER, SHORT |-> TY.INTEGER, ORD |-> TY.INTEGER,
     VAL |-> TY.INTEGER, CARDINAL |-> TY.CARDINAL, REAL |-> TY.REAL, FLOAT |-> TY.REAL, LONGREAL |-> TY.LONGREAL,
     LFLOAT |-> TY.LONGREAL, LONGINT |-> TY.LONGINT, LONG |-> TY.LONGINT, LONGCARD |-> TY.LONGCARD,
     BOOLEAN |-> TY.BOOLEAN, CHAR |-> TY.CHAR, CHR |-> TY.CHAR, WORD |-> TY.WORD, BYTE |-> TY.BYTE,
     ADDRESS |-> TY.ADDRESS]

\* A type, in whatever scope its name is found first.
IsTypeAnywhere(sa, name) == LookupAny(sa, name) # 0 /\ Sym(sa, LookupAny(sa, name), name).kind = "Type"

ResolveTypeTransferTarget(sa, name) ==
    IF name \in DOMAIN Transfers THEN Transfers[name]
    ELSE IF IsTypeAnywhere(sa, name) THEN Sym(sa, LookupAny(sa, name), name).typ ELSE TY.INTEGER

LowerTransfer(hb, name, args) ==
    LET target(e) == IF e.k = "desig" THEN ResolveTypeTransferTarget(hb.sa, e.c[1].v) ELSE TY.INTEGER
    IN  CASE args = <<>> -> Op("transfer", <<Lit("Int", 0, TY.INTEGER)>>, ResolveTypeTransferTarget(hb.sa, name))
          [] name = "VAL" /\ Len(args) >= 2 -> Op("transfer", <<LowerExpr(hb, args[2])>>, target(args[1]))
          [] OTHER -> Op("transfer", <<LowerExpr(hb, args[1])>>, ResolveTypeTransferTarget(hb.sa, name))

BuiltinId(name, ty) == SymbolId(<<name>>, name, "", ty)

LowerBuiltin(hb, name, args) ==
    IF name = "HIGH" /\ Len(args) = 1 THEN ComputeHighForArg(hb, args[1])
    ELSE Direct(BuiltinId(name, BuiltinReturnType(name)), LowerAll(hb, args), BuiltinReturnType(name))

\* By the name alone, then in the module.
InferReturnType(sa, id) ==
    LET any == LookupAny(sa, id.name)
        own == LookupQualified(sa, id.module, id.name)
        ret(sc) == sc # 0 /\ Sym(sa, sc, id.name).kind = "Procedure" /\ Sym(sa, sc, id.name).ret # 0
    IN  IF ret(any) THEN Sym(sa, any, id.name).ret
        ELSE IF id.module # "" /\ ret(own) THEN Sym(sa, own, id.name).ret ELSE TY.INTEGER

\* The result type of a call through a variable is not looked up.
LowerCallOf(hb, p, args) ==
    CASE p.base.k = "None" -> Lit("Int", 0, TY.ERROR)
      [] p.base.k = "Func" -> Direct(p.base.id, args, InferReturnType(hb.sa, p.base.id))
      [] OTHER -> Indirect(p, args, TY.INTEGER)

LowerCall(hb, d, args) ==
    LET name == d.c[1].v
        plain == Len(d.c) = 1
    IN  IF plain /\ (name \in DOMAIN Transfers \/ IsTypeAnywhere(hb.sa, name)) THEN LowerTransfer(hb, name, args)
        ELSE IF plain /\ IsBuiltinProc(name) THEN LowerBuiltin(hb, name, args)
        ELSE LowerCallOf(hb, ResolveDesignator(hb, d), ExpandCallArgs(hb, args, LookupProcParams(hb, d)))

LitKind == [Integer |-> "Int", Real |-> "Real", Boolean |-> "Bool", Char |-> "Char", String |-> "String", Nil |-> "Nil"]

\* A constant without selectors is a literal, an unknown name 0.
LowerDesignator(p) ==
    CASE p.base.k = "None" -> Lit("Int", 0, TY.ERROR)
      [] p.base.k = "Const" /\ p.proj = <<>> -> Lit(LitKind[p.base.val.k], p.base.val.v, p.ty)
      [] OTHER -> PlaceExpr("Place", p, p.ty)

BinaryResultType(sa, op, left, right) ==
    LET two == {ResolveAlias(sa.types, left), ResolveAlias(sa.types, right)}
    IN  CASE op \in {"+", "-", "*"} ->
                IF TY.LONGREAL \in two THEN TY.LONGREAL ELSE IF TY.REAL \in two THEN TY.REAL
                ELSE IF TY.LONGINT \in two THEN TY.LONGINT ELSE left
          [] op = "/" -> IF TY.LONGREAL \in two THEN TY.LONGREAL ELSE TY.REAL
          [] op \in {"DIV", "MOD"} -> left
          [] OTHER -> TY.BOOLEAN

DerefExpr(sa, x) ==
    LET t == Resolved(sa, x.ty)
    IN  Op("^", <<x>>, IF t.k = "Pointer" THEN ResolveAlias(sa.types, t.base) ELSE TY.ADDRESS)

BinaryExpr(sa, op, c) == Op(op, c, BinaryResultType(sa, op, c[1].ty, c[2].ty))
UnaryExpr(op, x) == Op(op, <<x>>, IF op = "NOT" THEN TY.BOOLEAN ELSE x.ty)

LowerExprTree(hb, e) ==
    CASE e.k = "int"    -> Lit("Int", e.v, TY.INTEGER)
      [] e.k = "real"   -> Lit("Real", e.v, TY.REAL)
      [] e.k = "string" -> Lit("String", e.v, IF e.v <= 1 THEN TY.CHAR ELSE TY.STRING)
      [] e.k = "char"   -> Lit("Char", e.v, TY.CHAR)
      [] e.k = "desig"  -> LowerDesignator(ResolveDesignator(hb, e))
      [] e.k = "call"   -> LowerCall(hb, e.c[1], e.c[2].c)
      [] e.k = "un"     -> UnaryExpr(e.v, LowerExpr(hb, e.c[1]))
      [] e.k = "bin"    -> BinaryExpr(hb.sa, e.v, LowerAll(hb, e.c))
      [] e.k = "set"    -> Op("set", LowerAll(hb, SelectSeq(e.c, LAMBDA x : x.k \notin {"id", "qual"})), TY.BITSET)
      [] e.k = "range"  -> Op("range", LowerAll(hb, e.c), TY.INTEGER)
      [] e.k = "deref"  -> DerefExpr(hb.sa, LowerExpr(hb, e.c[1]))

----------------------------------------------------------------------------
(* Statements.  Accumulators [hb, out]: what was lowered so far.           *)

Empty(hb) == [hb |-> hb, out |-> <<>>]
Emit(acc, x) == [acc EXCEPT !.out = Append(@, x)]

\* The value of a constant expression: <<v>>, or <<>>.
RECURSIVE TryEvalConstInt(_, _)
TryEvalConstInt(sa, e) ==
    LET one(x) == TryEvalConstInt(sa, x)
        sc == LookupAny(sa, e.c[1].v)
        sym == Sym(sa, sc, e.c[1].v)
        name == e.c[1].c[1].v
        args == e.c[2].c
    IN  CASE e.k \in {"int", "char"} -> <<e.v>>
          [] e.k = "un" /\ e.v = "-" -> IF one(e.c[1]) = <<>> THEN <<>> ELSE <<-(one(e.c[1])[1])>>
          [] e.k = "bin" /\ e.v \in {"+", "-", "*", "DIV", "MOD"} ->
                IF <<>> \in {one(e.c[1]), one(e.c[2])} THEN <<>> ELSE <<Fold(e.v, one(e.c[1])[1], one(e.c[2])[1])>>
          [] e.k = "desig" /\ Len(e.c) = 1 ->
                IF /\ sc # 0 /\ sym.kind \in {"Constant", "EnumVariant"}
                   /\ sym.val.k \in {"Integer", "Boolean", "Char"} THEN <<sym.val.v>> ELSE <<>>
          [] e.k = "call" /\ Len(e.c[1].c) = 1 ->
                CASE name \in {"CHR", "CHAR", "ORD", "INTEGER", "INT", "CARDINAL", "LONGINT", "LONGCARD"} /\ Len(args) = 1 -> one(args[1])
                  [] name = "VAL" /\ Len(args) >= 2 -> one(args[2])
                  [] OTHER -> <<>>
          [] OTHER -> <<>>

IsNegativeExpr(sa, e) ==
    LET v == TryEvalConstInt(sa, e) IN IF v # <<>> THEN v[1] < 0 ELSE e.k = "un" /\ e.v = "-"
ForDown(sa, s) == Has(s, "by") /\ IsNegativeExpr(sa, The(s, "by").c[1])

FallbackPlace(hb, d) ==
    Rooted("Global", SymbolId(<<hb.module, d.c[1].v>>, d.c[1].v, hb.module, TY.INTEGER))

LowerAssign(hb, s) ==
    LET p == ResolveDesignator(hb, s.c[1])
    IN  [k |-> "assign", p |-> IF Resolves(p) THEN p ELSE FallbackPlace(hb, s.c[1]), c |-> <<LowerExpr(hb, s.c[2])>>]

CallOfPlace(hb, d, p, args) ==
    CASE p.base.k = "None" -> Direct([FallbackPlace(hb, d).base.id EXCEPT !.ty = TY.VOID], args, TY.VOID)
      [] p.base.k = "Func" -> Direct(p.base.id, args, TY.VOID)
      [] OTHER -> Indirect(p, args, TY.VOID)

\* As for expressions, but nothing is a type transfer and HIGH is not special.
LowerProcCall(hb, s) ==
    LET d == s.c[1]
        args == IF Len(s.c) = 2 THEN s.c[2].c ELSE <<>>
        call == IF Len(d.c) = 1 /\ IsBuiltinProc(d.c[1].v)
                THEN Direct(BuiltinId(d.c[1].v, TY.VOID), LowerAll(hb, args), TY.VOID)
                ELSE CallOfPlace(hb, d, ResolveDesignator(hb, d), ExpandCallArgs(hb, args, LookupProcParams(hb, d)))
    IN  [k |-> "pcall", c |-> <<call>>]

\* The variable of a TYPECASE branch has the first of its types.
RegisterBinding(hb, b) ==
    LET name == TypeName(The(b, "types").c[1])
        sc == ScopeLookup(hb, name)
        id == IF sc # 0 THEN Sym(hb.sa, sc, name).typ ELSE TY.ADDRESS
        var == The(b, "bind").c[1].v
    IN  IF Has(b, "bind") THEN [hb EXCEPT !.vars = [n \in DOMAIN @ \cup {var} |-> IF n = var THEN id ELSE @[n]]] ELSE hb

Clauses == {"elsif", "else", "branch", "except", "finally", "labels", "by"}
RawParts == {"id", "qual", "types", "bind"}

\* A part of a statement: a body, a clause, a name, or an expression.
PutBody(acc, body) == Emit([acc EXCEPT !.hb = body.hb], [k |-> "stmts", c |-> body.out])
PutClause(acc, k, parts) == Emit([acc EXCEPT !.hb = parts.hb], [k |-> k, c |-> parts.out])
LowerPart(acc, x) ==
    CASE x.k = "stmts"     -> PutBody(acc, LowerStmts(Empty(acc.hb), x))
      [] x.k \in Clauses   -> PutClause(acc, x.k, LowerClause(Empty(acc.hb), x))
      [] x.k \in RawParts    -> Emit(acc, x)
      [] OTHER             -> Emit(acc, LowerExpr(acc.hb, x))

LowerParts(acc, x) == Through(LowerPart, acc, x.c)
LowerBranch(acc, x) == LowerParts(IF x.k = "branch" THEN [acc EXCEPT !.hb = RegisterBinding(@, x)] ELSE acc, x)

\* The type of the variable of a FOR is known only for a TYPECASE binding.
ForStatement(hb, s, stmt) ==
    [k |-> "for", c |-> stmt.c, down |-> ForDown(hb.sa, s),
     ty |-> IF s.c[1].v \in DOMAIN hb.vars THEN hb.vars[s.c[1].v] ELSE TY.INTEGER]

LowerStmt(acc, s) ==
    CASE s.k = "assign" -> Emit(acc, LowerAssign(acc.hb, s))
      [] s.k = "pcall"  -> Emit(acc, LowerProcCall(acc.hb, s))
      [] s.k = "for"    -> LET all == LowerClause(Empty(acc.hb), s)
                           IN  Emit([acc EXCEPT !.hb = all.hb], ForStatement(acc.hb, s, [c |-> all.out]))
      [] OTHER          -> PutClause(acc, s.k, LowerClause(Empty(acc.hb), s))

\* WITH goes: its body stands in its place.
LowerWith(acc, s) ==
    LET name == s.c[1].c[1].v
        body == LowerStmts([acc EXCEPT !.hb = PushWith(@, name, WithType(@, name))], s.c[2])
    IN  [body EXCEPT !.hb = PopWith(@)]

LowerList(acc, stmts) ==
    Through(LAMBDA a, s : IF s.k = "with" THEN LowerWith(a, s) ELSE LowerStmt(a, s), acc, stmts.c)

Lower(what, x, tree) ==
    CASE what = "place"  -> PlaceOf(x, tree)
      [] what = "expr"   -> LowerExprTree(x, tree)
      [] what = "stmts"  -> LowerList(x, tree)
      [] what = "clause" -> LowerBranch(x, tree)

=============================================================================
