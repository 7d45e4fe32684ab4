-------------------------------- MODULE Sema --------------------------------
(***************************************************************************)
(* The semantic analyser (sema.rs) on the trees of module Parser.          *)
(*                                                                         *)
(* An analyser is a record: the registry types, the symbol table (scopes,  *)
(* stack), and the state of a walk: walk, the analyser's own stack of open *)
(* scopes, inLoop, ret (the result type of the procedure, 0 for none),     *)
(* inProc; the errors and warnings errs, each a code, in order; foreign,   *)
(* the foreign modules; and t, the type the last function called returned. *)
(* A function of the analyser maps analysers to analysers.                 *)
(*                                                                         *)
(* The value v of an int, string or char literal is its number, length or  *)
(* code.  Positions, the reference index, the case-insensitive import from *)
(* native library modules and the m2plus rules for ADDRESS are left out.   *)
(***************************************************************************)
EXTENDS SymTab

\* A loop: FoldLeft, with the value before a step computed before the step.
Through(step(_, _), start, s) ==
    LET at[i \in 0..Len(s)] ==
            IF i = 0 THEN start ELSE CHOOSE r \in {step(a, s[i]) : a \in {at[i - 1]}} : TRUE
    IN  at[Len(s)]

Cur(sa) == Last(sa.walk)

Error(sa, code) == [sa EXCEPT !.errs = Append(@, code)]
ErrorIf(sa, bad, code) == IF bad THEN Error(sa, code) ELSE sa
Give(sa, id) == [sa EXCEPT !.t = id]
Register(sa, type) == [sa EXCEPT !.types = Append(@, type), !.t = Len(sa.types) + 1]

Known(id) == id \notin {TY.ERROR, TY.VOID}
Resolved(sa, id) == sa.types[ResolveAlias(sa.types, id)]

\* The children of a tree of the given kinds, in order.
Of(tree, kinds) == SelectSeq(tree.c, LAMBDA x : x.k \in kinds)
Has(tree, k) == Of(tree, {k}) # <<>>
The(tree, k) == Of(tree, {k})[1]

ResetWalkState(sa) == [sa EXCEPT !.walk = <<1>>, !.inLoop = 0, !.ret = 0, !.inProc = FALSE]

EnterScope(sa, name) ==
    LET in == PushScope(sa, name) IN [in EXCEPT !.walk = Append(@, Len(in.scopes))]
Reenter(sa, sc) == [ReenterScope(sa, sc) EXCEPT !.walk = Append(@, sc)]
LeaveScope(sa) == [PopScope(sa) EXCEPT !.walk = Front(@)]

\* Define in the scope of the walk, quietly or with an error.
Quietly(sa, name, sym) == Define(sa, Cur(sa), name, sym)
DefineSym(sa, name, sym) ==
    ErrorIf(Define(sa, Cur(sa), name, sym), ~Definable(sa, Cur(sa), name), "already defined")

----------------------------------------------------------------------------
(* The functions that call each other, by the kind of tree they walk.      *)

RECURSIVE Walk(_, _, _)

ResolveTypeNode(sa, tn) == Walk("type", sa, tn)
AnalyzeExpr(sa, e) == Walk("expr", sa, e)
AnalyzeStatement(sa, s) == Walk("statement", sa, s)
AnalyzeBlock(sa, b) == Walk("block", sa, b)
AnalyzeProgramModule(sa, m) == Walk("module", sa, m)
AnalyzeDefinitionModule(sa, m) == Walk("def", sa, m)
AnalyzeImplementationModule(sa, m) == Walk("impl", sa, m)

----------------------------------------------------------------------------
(* Built-in names.                                                         *)

P(ty, var) == [t |-> ty, var |-> var]
V(ty) == P(ty, FALSE)
Proc(params, ret) == [Symbol("Procedure", TY.VOID) EXCEPT !.params = params, !.ret = ret, !.exported = TRUE]

\* The parameters of built-in procedures are never looked at.
BuiltinReturnType(name) ==
    CASE name \in {"ABS", "MAX", "MIN", "TRUNC", "SHORT", "VAL"} -> TY.INTEGER
      [] name \in {"CAP", "CHR"}         -> TY.CHAR
      [] name \in {"FLOAT", "RE", "IM"}  -> TY.REAL
      [] name = "LFLOAT"                 -> TY.LONGREAL
      [] name = "ODD"                    -> TY.BOOLEAN
      [] name = "LONG"                   -> TY.LONGINT
      [] name = "CMPLX"                  -> TY.COMPLEX
      [] name \in {"HIGH", "ORD", "SIZE", "SHL", "SHR", "BAND", "BOR", "BXOR", "BNOT", "SHIFT",
                   "ROTATE"}             -> TY.CARDINAL
      [] OTHER                           -> TY.VOID

RegisteredProcs ==
    {"ABS", "CAP", "CHR", "DEC", "EXCL", "FLOAT", "HALT", "HIGH", "INC", "INCL", "LONG", "SHORT",
     "MAX", "MIN", "ODD", "ORD", "SIZE", "TRUNC", "VAL", "NEW", "DISPOSE", "LFLOAT", "NEWPROCESS",
     "TRANSFER", "IOTRANSFER", "RE", "IM", "CMPLX", "SHL", "SHR", "BAND", "BOR", "BXOR", "BNOT",
     "SHIFT", "ROTATE"}

IsBuiltinProc(name) == name \in RegisteredProcs \cup {"TSIZE", "ADR"}

TypeNames ==
    {"INTEGER", "CARDINAL", "REAL", "LONGREAL", "BOOLEAN", "CHAR", "BITSET", "LONGINT", "LONGCARD",
     "COMPLEX", "LONGCOMPLEX", "PROC"}

Exported(sym) == [sym EXCEPT !.exported = TRUE]

GlobalScope ==
    [n \in TypeNames \cup {"TRUE", "FALSE", "NIL"} \cup RegisteredProcs |->
        CASE n \in TypeNames -> Exported(Symbol("Type", TY[n]))
          [] n = "NIL"       -> Exported([Symbol("Constant", TY.NIL) EXCEPT !.val = [k |-> "Nil", v |-> 0]])
          [] n \in {"TRUE", "FALSE"} ->
                Exported([Symbol("Constant", TY.BOOLEAN) EXCEPT !.val =
                            [k |-> "Boolean", v |-> IF n = "TRUE" THEN 1 ELSE 0]])
          [] OTHER           -> Proc(<<>>, BuiltinReturnType(n))]

NewAnalyzer ==
    [types |-> NewRegistry, scopes |-> <<[Scope("<global>", 0) EXCEPT !.syms = GlobalScope]>>,
     stack |-> <<1>>, walk |-> <<1>>, inLoop |-> 0, ret |-> 0, inProc |-> FALSE,
     errs |-> <<>>, foreign |-> {}, t |-> 0]

\* stdlib.rs: the stubs of a standard module; others have none.
InOut ==
    [Read |-> Proc(<<P(TY.CHAR, TRUE)>>, 0), ReadInt |-> Proc(<<P(TY.INTEGER, TRUE)>>, 0),
     ReadCard |-> Proc(<<P(TY.CARDINAL, TRUE)>>, 0), Write |-> Proc(<<V(TY.CHAR)>>, 0),
     WriteString |-> Proc(<<V(TY.STRING)>>, 0),
     WriteInt |-> Proc(<<V(TY.INTEGER), V(TY.INTEGER)>>, 0), WriteLn |-> Proc(<<>>, 0),
     Done |-> Exported(Symbol("Variable", TY.BOOLEAN))]

RegisterModule(sa, sc, name) ==
    IF name = "InOut" THEN [sa EXCEPT !.scopes[sc].syms = InOut] ELSE sa

----------------------------------------------------------------------------
(* Constants.                                                              *)

Const(k, v) == [k |-> k, v |-> v]

Magnitude(a) == IF a < 0 THEN -a ELSE a

\* Division and remainder toward zero, as in Rust; 0 for a zero divisor.
Quot(a, b) ==
    LET q == Magnitude(a) \div Magnitude(b)
    IN  IF b = 0 THEN 0 ELSE IF (a < 0) = (b < 0) THEN q ELSE -q
Rem(a, b) == IF b = 0 THEN 0 ELSE a - b * Quot(a, b)

Fold(op, a, b) ==
    CASE op = "+"   -> a + b
      [] op = "-"   -> a - b
      [] op = "*"   -> a * b
      [] op = "DIV" -> Quot(a, b)
      [] op = "MOD" -> Rem(a, b)
      [] OTHER      -> 0

\* find_type looks in every scope; the names below are of no scope's type.
SizeOfName(sa, name) ==
    LET id == FindType(sa, name)
    IN  CASE id # 0 -> TypeSize(sa.types, id)
          [] id = 0 /\ name = "WORD"    -> 4
          [] id = 0 /\ name = "ADDRESS" -> 8
          [] id = 0 /\ name = "BYTE"    -> 1
          [] OTHER  -> 0

RECURSIVE EvalConstExpr(_, _)

\* CHR, ORD, VAL, the type transfers and the sizes; any other call is 0.
EvalConstCall(sa, e) ==
    LET name == e.c[1].c[1].v
        args == e.c[2].c
        arg == EvalConstExpr(sa, args[1])
        one == Len(args) = 1
    IN  CASE Len(e.c[1].c) > 1 -> NoVal
          [] name \in {"CHR", "CHAR"} /\ one ->
                IF arg.k \in {"Integer", "Char"} THEN Const("Char", arg.v % 256) ELSE NoVal
          [] name = "ORD" /\ one -> IF arg.k \in {"Integer", "Char"} THEN Const("Integer", arg.v) ELSE NoVal
          [] name = "VAL" /\ Len(args) >= 2 -> EvalConstExpr(sa, args[2])
          [] name \in {"INTEGER", "INT", "CARDINAL", "LONGINT", "LONGCARD"} /\ one ->
                IF arg.k = "Char" THEN Const("Integer", arg.v) ELSE arg
          [] name \in {"TSIZE", "SIZE"} /\ one /\ args[1].k = "desig" ->
                Const("Integer", SizeOfName(sa, args[1].c[1].v))
          [] OTHER -> NoVal

\* The value of the first name of a designator, selectors or not.
EvalConstName(sa, name) ==
    LET sc == FindFrom(sa, CurrentScope(sa), name)
    IN  IF sc # 0 /\ Sym(sa, sc, name).kind \in {"Constant", "EnumVariant"}
        THEN Sym(sa, sc, name).val ELSE NoVal

EvalConstExpr(sa, e) ==
    CASE e.k = "int"    -> Const("Integer", e.v)
      [] e.k = "real"   -> Const("Real", 0)
      [] e.k = "string" -> Const("String", e.v)
      [] e.k = "char"   -> Const("Char", e.v)
      [] e.k = "un" /\ e.v = "-" ->
            LET x == EvalConstExpr(sa, e.c[1]) IN IF x.k = "Integer" THEN Const("Integer", -x.v) ELSE x
      [] e.k = "bin"    ->
            LET l == EvalConstExpr(sa, e.c[1])  r == EvalConstExpr(sa, e.c[2])
            IN  IF l.k = "Integer" /\ r.k = "Integer" THEN Const("Integer", Fold(e.v, l.v, r.v)) ELSE NoVal
      [] e.k = "desig"  -> EvalConstName(sa, e.c[1].v)
      [] e.k = "id"     -> EvalConstName(sa, e.v)
      [] e.k = "call"   -> EvalConstCall(sa, e)
      [] OTHER          -> NoVal

\* unwrap_or(0): neither an integer nor a character, not even a string of one.
EvalConstInt(sa, e) ==
    LET x == EvalConstExpr(sa, e) IN IF x.k \in {"Integer", "Char"} THEN x.v ELSE 0

----------------------------------------------------------------------------
(* Types.                                                                  *)

Field(n, id, tn) == [n |-> n, t |-> id, tn |-> tn]

\* A name that is no type is an error, a name nobody knows a built-in one.
NamedType(sa, sc, name) ==
    CASE sc # 0 /\ Sym(sa, sc, name).kind \in {"Type", "EnumVariant"} -> Give(sa, Sym(sa, sc, name).typ)
      [] sc = 0 /\ name \in (TypeNames \cup {"WORD", "BYTE", "ADDRESS"}) \ {"COMPLEX", "LONGCOMPLEX"} ->
            Give(sa, TY[name])
      [] OTHER -> Give(Error(sa, "undefined type"), TY.ERROR)

ResolveNamedType(sa, qi) ==
    IF qi.k = "qual" THEN NamedType(sa, LookupQualified(sa, qi.c[1].v, qi.c[2].v), qi.c[2].v)
    ELSE NamedType(sa, FindFrom(sa, Cur(sa), qi.v), qi.v)

\* Accumulators [sa, fs]: fields added in order, r having resolved their type.
WithFields(acc, r, names, tn) ==
    [acc EXCEPT !.sa = r, !.fs = @ \o [i \in DOMAIN names |-> Field(names[i].v, r.t, tn)]]

AddFields(acc, f, tn) == WithFields(acc, ResolveTypeNode(acc.sa, f.c[2]), f.c[1].c, tn)

\* The tag of a variant part is a field when it has a name.
AddTag(acc, tag) ==
    IF tag.k = "tag" THEN WithFields(acc, ResolveNamedType(acc.sa, tag.c[2]), <<tag.c[1]>>, "")
    ELSE WithFields(acc, ResolveNamedType(acc.sa, tag), <<>>, "")

AddAll(acc, fields) == Through(LAMBDA a, f : AddFields(a, f, ""), acc, Of(fields, {"field"}))

\* The fields of one case; those of a part nested in it, of one more level.
AddNested(acc, part) ==
    Through(LAMBDA b, v : AddAll(b, v.c[2]), IF part.c[1].k = "tag" THEN AddTag(acc, part.c[1]) ELSE acc,
             Of(part, {"variant"}))
AddCase(acc, fields) ==
    Through(LAMBDA a, f : IF f.k = "field" THEN AddFields(a, f, "") ELSE AddNested(a, f), acc, fields.c)

\* Accumulators [sa, cs]: the cases, each a sequence of fields.
AppendCase(cs, c) == [sa |-> c.sa, cs |-> Append(cs, c.fs)]
AddCases(sa, vp) ==
    Through(LAMBDA a, v : AppendCase(a.cs, AddCase([sa |-> a.sa, fs |-> <<>>], v.c[2])),
             [sa |-> sa, cs |-> <<>>], Of(vp, {"variant"}))
AddElse(all, rest) == IF rest.fs = <<>> THEN [sa |-> rest.sa, cs |-> all.cs] ELSE AppendCase(all.cs, rest)
AddCasesElse(all, vp) ==
    AddElse(all, Through(LAMBDA a, e : AddAll(a, e.c[1]), [sa |-> all.sa, fs |-> <<>>], Of(vp, {"else"})))

\* tag is the type of the tag, union the type registered for the cases cs.
WithVariants(fs, tag, cs, union) ==
    [sa |-> union, fs |-> Append(fs, Field("variant", union.t, "")), vs |-> <<[tag |-> tag, cases |-> cs]>>]
Variants(tagged, all) ==
    WithVariants(tagged.fs, tagged.sa.t, all.cs, Register(all.sa, [k |-> "Record", fs |-> <<>>, vs |-> <<>>]))
VariantsOf(tagged, vp) == Variants(tagged, AddCasesElse(AddCases(tagged.sa, vp), vp))
AddVariantPart(acc, vp) == VariantsOf(AddTag(acc, vp.c[1]), vp)

TypeName(tn) == IF tn.k = "id" THEN tn.v ELSE IF tn.k = "qual" THEN tn.c[2].v ELSE ""

RegisterRecord(acc) == Register(acc.sa, [k |-> "Record", fs |-> acc.fs, vs |-> acc.vs])
ResolveRecord(sa, fields) ==
    RegisterRecord(Through(LAMBDA a, f : IF f.k = "field" THEN AddFields(a, f, TypeName(f.c[2])) ELSE AddVariantPart(a, f),
                            [sa |-> sa, fs |-> <<>>, vs |-> <<>>], fields.c))

\* ARRAY I, J OF T is ARRAY I OF ARRAY J OF T; i has resolved the index type.
RegisterArray(i, base, range) == Register(i, [k |-> "Array", base |-> base, lo |-> range[1], hi |-> range[2]])
ArrayBy(i, base) == RegisterArray(i, base, GetOrdinalRange(i.types, i.t))
ResolveArray(sa, tn) ==
    FoldRight(LAMBDA idx, a : ArrayBy(ResolveTypeNode(a, idx), a.t), tn.c[1].c, ResolveTypeNode(sa, tn.c[2]))

\* The variants become constants of the current scope.
DefineVariants(sa, id, names) ==
    Through(LAMBDA a, i :
        Quietly(a, names[i].v, [Symbol("EnumVariant", id) EXCEPT !.val = Const("Integer", i - 1)]),
        sa, [i \in DOMAIN names |-> i])
ResolveEnumeration(sa, names) ==
    DefineVariants(Register(sa, [k |-> "Enumeration", ns |-> [i \in DOMAIN names |-> names[i].v]]),
                   Len(sa.types) + 1, names)

IsCharConst(x) == x.k = "Char" \/ (x.k = "String" /\ x.v = 1)
ResolveSubrange(sa, lo, hi) ==
    Register(sa, [k |-> "Subrange",
                  base |-> IF IsCharConst(EvalConstExpr(sa, lo)) \/ IsCharConst(EvalConstExpr(sa, hi))
                           THEN TY.CHAR ELSE TY.INTEGER,
                  lo |-> EvalConstInt(sa, lo), hi |-> EvalConstInt(sa, hi)])

\* A parameter section of a heading or a procedure type: [names, type, var].
WithParams(acc, r, names, var) ==
    [acc EXCEPT !.sa = r, !.fs = @ \o [i \in DOMAIN names |-> [n |-> names[i].v, t |-> r.t, var |-> var]]]
AddParams(acc, p) ==
    WithParams(acc, ResolveTypeNode(acc.sa, Last(p.c)),
               IF Has(p, "names") THEN The(p, "names").c ELSE <<Last(p.c)>>, Has(p, "VAR"))

\* The signature of a heading, procedure type or method: [sa, fs, ret].
Signature(fs, r) == [sa |-> r, fs |-> fs, ret |-> r.t]
WithResult(acc, h) ==
    Signature(acc.fs, IF Has(h, "result") THEN ResolveTypeNode(acc.sa, The(h, "result").c[1]) ELSE Give(acc.sa, 0))
AnalyzeProcHeading(sa, h) ==
    WithResult(Through(AddParams, [sa |-> sa, fs |-> <<>>], Of(h, {"param"})), h)

RegisterProcedureType(h) == Register(h.sa, [k |-> "ProcedureType", fs |-> h.fs, ret |-> h.ret])
ResolveProcedureType(sa, tn) == RegisterProcedureType(AnalyzeProcHeading(sa, tn))

\* Parent, fields, and the signatures of the methods; overrides are ignored.
AddMethods(sa, tn) == Through(LAMBDA a, h : AnalyzeProcHeading(a, h).sa, sa, Of(tn, {"method"}))
RegisterObject(acc, parent, tn) == Register(AddMethods(acc.sa, tn), [k |-> "Object", base |-> parent, fs |-> acc.fs])
ObjectOf(parent, tn) == RegisterObject(AddAll([sa |-> parent, fs |-> <<>>], tn), parent.t, tn)
ResolveObject(sa, tn) == ObjectOf(Through(ResolveNamedType, Give(sa, 0), Of(tn, {"id", "qual"})), tn)

Based(k, b) == Register(b, [k |-> k, base |-> b.t])

KindOfNode == [open |-> "OpenArray", pointer |-> "Pointer", setof |-> "Set", ref |-> "Ref", branded |-> "Ref"]

TypeNode(sa, tn) ==
    CASE tn.k \in {"id", "qual"} -> ResolveNamedType(sa, tn)
      [] tn.k = "array"    -> ResolveArray(sa, tn)
      [] tn.k \in DOMAIN KindOfNode -> Based(KindOfNode[tn.k], ResolveTypeNode(sa, Last(tn.c)))
      [] tn.k = "record"   -> ResolveRecord(sa, tn.c[1])
      [] tn.k = "enum"     -> ResolveEnumeration(sa, tn.c)
      [] tn.k = "subrange" -> ResolveSubrange(sa, tn.c[1], tn.c[2])
      [] tn.k = "proctype" -> ResolveProcedureType(sa, tn)
      [] tn.k = "refany"   -> Give(sa, TY.REFANY)
      [] tn.k = "object"   -> ResolveObject(sa, tn)

----------------------------------------------------------------------------
(* Expressions.                                                            *)

AnalyzeAll(sa, es) == Through(AnalyzeExpr, sa, es)

\* The parameters of a procedure by its name; <<>> for anything else.
ParamsOf(sa, name) ==
    LET sc == FindFrom(sa, CurrentScope(sa), name)
    IN  IF sc # 0 /\ Sym(sa, sc, name).kind = "Procedure" THEN Sym(sa, sc, name).params ELSE <<>>

\* The names of the instances that begin with v: taken for variant access.
StartsWithV == {"variant", "v", "v0", "v1"}

\* The first field of that name in the cases of a variant part, or <<>>.
CaseField(vs, name) ==
    IF vs = <<>> THEN <<>> ELSE SelectSeq(FlattenSeq(vs[1].cases), LAMBDA f : f.n = name)

SelectField(sa, base, name) ==
    LET t == sa.types[sa.t]
        fixed == SelectSeq(t.fs, LAMBDA f : f.n = name)
        in == CaseField(t.vs, name)
        sc == LookupQualified(sa, base, name)
    IN  CASE ~Known(sa.t)    -> sa
          [] Known(sa.t) /\ t.k = "Record" ->
                CASE fixed # <<>>          -> Give(sa, fixed[1].t)
                  [] fixed = <<>> /\ name \in StartsWithV -> Give(sa, TY.ERROR)
                  [] fixed = <<>> /\ name \notin StartsWithV /\ in # <<>> -> Give(sa, in[1].t)
                  [] OTHER                 -> Give(Error(sa, "no field"), TY.ERROR)
          [] Known(sa.t) /\ t.k = "Opaque" -> Give(sa, TY.ERROR)
          [] OTHER -> IF sc # 0 THEN Give(sa, Sym(sa, sc, name).typ)
                      ELSE Give(Error(sa, "field of non-record"), TY.ERROR)

\* One dimension per index; the type is not unaliased between them.
SelectIndex(sa, e) ==
    LET i == Give(AnalyzeExpr(sa, e), sa.t)
        t == i.types[i.t]
    IN  CASE ~Known(i.t)  -> i
          [] Known(i.t) /\ t.k \in {"Array", "OpenArray"} -> Give(i, t.base)
          [] Known(i.t) /\ t.k = "StringLit" -> Give(i, TY.CHAR)
          [] OTHER -> Give(Error(i, "indexing non-array"), TY.ERROR)

SelectDeref(sa, kinds) ==
    LET t == sa.types[sa.t]
    IN  CASE ~Known(sa.t) -> sa
          [] Known(sa.t) /\ t.k \in kinds -> Give(sa, t.base)
          [] OTHER -> Give(Error(sa, "deref of non-pointer"), TY.ERROR)

\* T(x) before a selector is a type transfer.
SelectCall(sa, base, args) ==
    LET id == FindType(sa, base)
    IN  Give(AnalyzeAll(sa, args), IF id # 0 THEN id ELSE TY.ADDRESS)

\* A name that is not visible has no type and is no error here.
AnalyzeDesignator(sa, d) ==
    LET base == d.c[1].v
        sc == FindFrom(sa, Cur(sa), base)
        select(a, s) ==
            LET u == Give(a, ResolveAlias(a.types, a.t))
            IN  CASE s.k = "sel"   -> SelectField(u, base, s.c[1].v)
                  [] s.k = "index" -> Through(SelectIndex, u, s.c)
                  [] s.k = "deref" -> SelectDeref(u, {"Pointer", "Ref"})
                  [] s.k = "args"  -> SelectCall(u, base, s.c)
    IN  Through(select, Give(sa, IF sc = 0 THEN TY.ERROR ELSE Sym(sa, sc, base).typ), Tail(d.c))

\* A call of a name that is not visible.
Undeclared(sa, name) == ErrorIf(sa, ~Known(sa.t) /\ sa.t = TY.ERROR /\ ~Visible(sa, Cur(sa), name),
    LET sc == LookupAny(sa, name)
    IN  IF sc # 0 /\ Sym(sa, sc, name).module # "" THEN "not imported" ELSE "not declared")

ArrayOf(reg, t, elem) == t.k \in {"Array", "OpenArray"} /\ TypesEquivalent(reg, t.base, elem)
ArrayOfChar(reg, t) == t.k \in {"Array", "OpenArray"} /\ ResolveAlias(reg, t.base) = TY.CHAR

\* A VAR argument has the formal's type, up to aliases.
VarArgOk(reg, pt, at, same) ==
    \/ same
    \/ pt.k = "Array" /\ at.k = "Array" /\ ResolveAlias(reg, pt.base) = ResolveAlias(reg, at.base)
    \/ pt.k = "Address" \/ at.k = "Address"

Signs == {<<"Integer", "Cardinal">>, <<"Cardinal", "Integer">>, <<"LongInt", "LongCard">>,
          <<"LongCard", "LongInt">>}

\* The argument's type is in sa.t.
CheckArg(sa, p) ==
    LET reg == sa.types
        rp == ResolveAlias(reg, p.t)
        ra == ResolveAlias(reg, sa.t)
        pt == reg[rp]
        at == reg[ra]
    IN  CASE pt.k = "StringLit" -> ErrorIf(sa, ~(ArrayOfChar(reg, at) \/ at.k = "StringLit"), "argument")
          [] pt.k = "OpenArray" ->
                ErrorIf(sa, ~(\/ ArrayOf(reg, at, pt.base) \/ at.k = "Address"
                              \/ at.k = "StringLit" /\ pt.base = TY.CHAR), "argument")
          [] pt.k \notin {"StringLit", "OpenArray"} /\ p.var ->
                ErrorIf(sa, ~VarArgOk(reg, pt, at, rp = ra),
                        IF <<pt.k, at.k>> \in Signs THEN "W08" ELSE "VAR argument")
          [] OTHER -> ErrorIf(sa, ~AssignmentCompatible(reg, rp, ra), "argument")

CheckCallArgTypes(sa, name, args) ==
    LET ps == ParamsOf(sa, name)
        check(a, i) == LET x == AnalyzeExpr(a, args[i])
                       IN  IF ~Known(x.t) \/ i > Len(ps) \/ ~Known(ps[i].t) THEN x ELSE CheckArg(x, ps[i])
    IN  Through(check, ErrorIf(sa, ps # <<>> /\ Len(args) > Len(ps), "too many arguments"),
                 [i \in DOMAIN args |-> i])

\* A function call: built-in functions look at nothing.
AnalyzeCall(sa, e) ==
    LET d == AnalyzeDesignator(sa, e.c[1])
        name == e.c[1].c[1].v
        args == e.c[2].c
        sc == FindFrom(sa, CurrentScope(sa), name)
        sym == Sym(sa, sc, name)
        proc == sc # 0 /\ sym.kind = "Procedure"
        counted == ErrorIf(Undeclared(d, name),
                           proc /\ sym.params # <<>> /\ Len(args) # Len(sym.params), "arguments")
    IN  IF IsBuiltinProc(name) THEN Give(AnalyzeAll(d, args), BuiltinReturnType(name))
        ELSE Give(CheckCallArgTypes(counted, name, args),
                  IF ~proc THEN TY.ERROR ELSE IF sym.ret = 0 THEN TY.VOID ELSE sym.ret)

\* analyze_expr_type_only: names and integers are looked up, the rest analysed again.
TypeOnly(sa, e) ==
    CASE e.k = "int" -> Give(sa, TY.INTEGER)
      [] e.k = "desig" /\ Len(e.c) = 1 ->
            LET sc == FindFrom(sa, CurrentScope(sa), e.c[1].v)
            IN  Give(sa, IF sc = 0 THEN TY.ERROR ELSE Sym(sa, sc, e.c[1].v).typ)
      [] OTHER -> AnalyzeExpr(sa, e)

IsZero(e) == e.k = "int" /\ e.v = 0
Unsigned(sa, id) == id # TY.ERROR /\ IsUnsignedType(sa.types, ResolveAlias(sa.types, id))

\* W01: a comparison with 0 that an unsigned type decides.
LintComparisonZero(sa, e) ==
    LET l == TypeOnly(sa, e.c[1])
        first == ErrorIf(l, Unsigned(l, l.t) /\ e.v \in {">=", "<"} /\ IsZero(e.c[2]), "W01")
        r == TypeOnly(first, e.c[2])
    IN  ErrorIf(r, Unsigned(r, r.t) /\ e.v \in {"<=", ">"} /\ IsZero(e.c[1]), "W01")

IsNil(e) == e.k = "desig" /\ Len(e.c) = 1 /\ e.c[1].v = "NIL"
IsNilComparison(e) == e.k = "bin" /\ e.v \in {"=", "#"} /\ (IsNil(e.c[1]) \/ IsNil(e.c[2]))

RECURSIVE HasDerefOrIndex(_)
HasDerefOrIndex(e) ==
    CASE e.k = "desig" -> \E i \in DOMAIN e.c : e.c[i].k \in {"deref", "index"}
      [] e.k = "deref" -> TRUE
      [] e.k \in {"bin", "un"} -> \E i \in DOMAIN e.c : HasDerefOrIndex(e.c[i])
      [] e.k = "call"  -> \E i \in DOMAIN e.c[2].c : HasDerefOrIndex(e.c[2].c[i])
      [] OTHER         -> FALSE

\* W08: signed with unsigned, unless one is a literal.
LintMixedSignedness(sa, e, lt, rt) ==
    LET signed(id) == Resolved(sa, id).k \in {"Integer", "LongInt"}
    IN  ErrorIf(sa, /\ e.c[1].k # "int" /\ e.c[2].k # "int"
                    /\ \/ Unsigned(sa, lt) /\ signed(rt)
                       \/ signed(lt) /\ Unsigned(sa, rt), "W08")

Wider(lt, rt) ==
    CASE TY.LONGREAL \in {lt, rt} -> TY.LONGREAL
      [] TY.LONGREAL \notin {lt, rt} /\ TY.REAL \in {lt, rt} -> TY.REAL
      [] OTHER -> lt

\* Both operands have been analysed; the type of the right one is in sa.t.
AnalyzeBinary(sa, e, lt) ==
    LET rt == sa.t
        known == Known(lt) /\ Known(rt)
        sets == known /\ IsSet(sa.types[lt]) /\ IsSet(sa.types[rt])
        compat == LintMixedSignedness(ErrorIf(sa, ~ExpressionCompatible(sa.types, lt, rt), "arithmetic"), e, lt, rt)
        l == Resolved(sa, lt)
        bool == lt = TY.BOOLEAN
        op == e.v
    IN  CASE op \in {"+", "-", "*"} ->
                IF sets THEN Give(sa, lt) ELSE Give(IF known THEN compat ELSE sa, Wider(lt, rt))
          [] op = "/" -> IF sets THEN Give(sa, lt)
                         ELSE Give(ErrorIf(sa, known /\ ~IsNumeric(sa.types[lt]), "/"), TY.REAL)
          [] op \in {"DIV", "MOD"} ->
                Give(ErrorIf(sa, Known(lt) /\ ~IsIntegerType(l) /\ l.k # "Address", "DIV/MOD"),
                     IF TY.ADDRESS \in {lt, rt} THEN TY.ADDRESS ELSE TY.INTEGER)
          [] op \in {"AND", "OR"} ->
                LET checked == ErrorIf(sa, ~bool /\ Known(lt) /\ ~IsIntegerType(l), "AND/OR")
                IN  Give(ErrorIf(checked, bool /\ IsNilComparison(e.c[1]) /\ HasDerefOrIndex(e.c[2]), "W03"), lt)
          [] op = "IN" -> Give(sa, TY.BOOLEAN)
          [] OTHER -> Give(LintComparisonZero(sa, e), TY.BOOLEAN)

\* The operand has been analysed.
AnalyzeUnary(sa, op) ==
    IF op = "NOT" THEN Give(ErrorIf(sa, Known(sa.t) /\ sa.t # TY.BOOLEAN, "NOT"), TY.BOOLEAN)
    ELSE ErrorIf(sa, Known(sa.t) /\ ~IsNumeric(sa.types[sa.t]), "unary")

AnalyzeDeref(sa) ==
    IF ~Known(ResolveAlias(sa.types, sa.t)) THEN Give(sa, TY.ERROR)
    ELSE SelectDeref(Give(sa, ResolveAlias(sa.types, sa.t)), {"Pointer"})

\* Elements, ranges of them, then the type named before the brace, if any.
AnalyzeSet(sa, e) ==
    LET elems == AnalyzeAll(sa, SelectSeq(e.c, LAMBDA x : x.k \notin {"id", "qual"}))
        named == Of(e, {"id", "qual"})
    IN  IF named = <<>> THEN Give(elems, TY.BITSET) ELSE ResolveNamedType(elems, named[1])

Expr(sa, e) ==
    CASE e.k = "int"    -> Give(sa, TY.INTEGER)
      [] e.k = "real"   -> Give(sa, TY.REAL)
      [] e.k = "string" -> Register(sa, [k |-> "StringLit", hi |-> e.v])
      [] e.k = "char"   -> Give(sa, TY.CHAR)
      [] e.k = "desig"  -> AnalyzeDesignator(sa, e)
      [] e.k = "call"   -> AnalyzeCall(sa, e)
      [] e.k = "un"     -> AnalyzeUnary(AnalyzeExpr(sa, e.c[1]), e.v)
      [] e.k = "deref"  -> AnalyzeDeref(AnalyzeExpr(sa, e.c[1]))
      [] e.k = "bin"    -> LET l == AnalyzeExpr(sa, e.c[1]) IN AnalyzeBinary(AnalyzeExpr(l, e.c[2]), e, l.t)
      [] e.k = "set"    -> AnalyzeSet(sa, e)
      [] e.k = "range"  -> AnalyzeAll(sa, e.c)

----------------------------------------------------------------------------
(* Statements.                                                             *)

AnalyzeStmts(sa, stmts) == Through(AnalyzeStatement, sa, stmts.c)

\* The bodies among the children, in order.
AnalyzeBodies(sa, s) == Through(AnalyzeStmts, sa, Of(s, {"stmts"}))

Condition(sa, e, code) ==
    LET c == AnalyzeExpr(sa, e) IN ErrorIf(c, Known(c.t) /\ c.t # TY.BOOLEAN, code)

InLoop(sa, body) == [AnalyzeStmts([sa EXCEPT !.inLoop = @ + 1], body) EXCEPT !.inLoop = @ - 1]

AnalyzeAssign(sa, s) ==
    LET l == AnalyzeDesignator(sa, s.c[1])
        r == AnalyzeExpr(l, s.c[2])
    IN  ErrorIf(r, Known(l.t) /\ Known(r.t) /\ ~AssignmentCompatible(r.types, l.t, r.t), "assignment")

\* The number of arguments of a built-in procedure called as a statement.
CheckBuiltinCall(sa, name, n) ==
    ErrorIf(sa, \/ name \in {"INC", "DEC"} /\ n \notin 1..2
                \/ name \in {"INCL", "EXCL", "SHIFT", "ROTATE", "SHL", "SHR", "BAND", "BOR", "BXOR"} /\ n # 2
                \/ name \in {"NEW", "DISPOSE", "BNOT"} /\ n # 1
                \/ name = "HALT" /\ n > 1, "arguments")

\* W05: INC or DEC of a subrange.
LintIncDecSubrange(sa, name, args) ==
    LET x == TypeOnly(sa, args[1])
    IN  IF name \notin {"INC", "DEC"} \/ args = <<>> THEN sa
        ELSE ErrorIf(x, x.t # TY.ERROR /\ Resolved(x, x.t).k = "Subrange", "W05")

\* Two designators name the same variable, indices aside.
SameVariable(a, b) ==
    /\ a.k = "desig" /\ b.k = "desig" /\ Len(a.c) = Len(b.c)
    /\ \A i \in DOMAIN a.c : /\ a.c[i].k = b.c[i].k
                             /\ a.c[i].k = "id" => a.c[i].v = b.c[i].v
                             /\ a.c[i].k = "sel" => a.c[i].c[1].v = b.c[i].c[1].v

\* W04: once for each pair of VAR arguments that are the same variable.
LintVarParamAliasing(sa, name, args) ==
    LET ps == ParamsOf(sa, name)
        var(i) == i \in DOMAIN ps /\ ps[i].var
        pairs == {q \in (DOMAIN args) \X (DOMAIN args) :
                    q[1] < q[2] /\ var(q[1]) /\ var(q[2]) /\ SameVariable(args[q[1]], args[q[2]])}
    IN  Through(LAMBDA a, q : Error(a, "W04"), sa, SetToSeq(pairs))

AnalyzeProcCall(sa, s) ==
    LET d == AnalyzeDesignator(sa, s.c[1])
        name == s.c[1].c[1].v
        args == IF Len(s.c) = 2 THEN s.c[2].c ELSE <<>>
    IN  IF IsBuiltinProc(name)
        THEN LintIncDecSubrange(CheckBuiltinCall(AnalyzeAll(d, args), name, Len(args)), name, args)
        ELSE LintVarParamAliasing(CheckCallArgTypes(Undeclared(d, name), name, args), name, args)

\* The integers a label covers; a label of another kind covers none.
Covered(sa, l) ==
    LET v(e) == EvalConstExpr(sa, e)
    IN  IF l.k # "range" THEN IF v(l).k = "Integer" THEN {v(l).v} ELSE {}
        ELSE IF v(l.c[1]).k = "Integer" /\ v(l.c[2]).k = "Integer" THEN v(l.c[1]).v .. v(l.c[2]).v ELSE {}

\* W07: a CASE without ELSE that misses values of an enumeration or a subrange.
LintNonexhaustiveCase(sa, s, id) ==
    LET t == Resolved(sa, id)
        range == GetOrdinalRange(sa.types, id)
        labels == FlattenSeq([i \in DOMAIN Of(s, {"branch"}) |-> Of(s, {"branch"})[i].c[1].c])
        covered == UNION {Covered(sa, labels[i]) : i \in DOMAIN labels}
    IN  ErrorIf(sa, /\ ~Has(s, "else") /\ Known(id)
                    /\ t.k = "Enumeration" \/ (t.k = "Subrange" /\ range[2] - range[1] < 256)
                    /\ ~(range[1]..range[2] \subseteq covered), "W07")

AnalyzeCase(sa, s) ==
    LET x == AnalyzeExpr(sa, s.c[1])
        checked == ErrorIf(x, Known(x.t) /\ ~IsOrdinal(Resolved(x, x.t)), "CASE")
        branches == Through(LAMBDA a, b : AnalyzeStmts(AnalyzeAll(a, b.c[1].c), b.c[2]), checked, Of(s, {"branch"}))
        rest == Through(LAMBDA a, b : AnalyzeStmts(a, b.c[1]), branches, Of(s, {"else"}))
    IN  LintNonexhaustiveCase(rest, s, x.t)

RECURSIVE ContainsDec(_, _)
ContainsDec(stmts, name) ==
    \E i \in DOMAIN stmts.c : LET s == stmts.c[i] IN
        \/ /\ s.k = "pcall" /\ s.c[1].c[1].v = "DEC" /\ Len(s.c) = 2 /\ s.c[2].c # <<>>
           /\ LET x == s.c[2].c[1] IN x.k = "desig" /\ Len(x.c) = 1 /\ x.c[1].v = name
        \/ s.k \in {"if", "loop", "while"} /\ \E j \in DOMAIN s.c :
                \/ s.c[j].k = "stmts" /\ ContainsDec(s.c[j], name)
                \/ s.c[j].k \in {"elsif", "else"} /\ ContainsDec(Last(s.c[j].c), name)

\* W02: WHILE i >= 0 with an unsigned i that the body decrements.
LintCountdown(sa, cond, body) ==
    LET name == cond.c[1].c[1].v
        sc == FindFrom(sa, Cur(sa), name)
    IN  ErrorIf(sa, /\ cond.k = "bin" /\ cond.v = ">=" /\ IsZero(cond.c[2])
                    /\ cond.c[1].k = "desig" /\ Len(cond.c[1].c) = 1
                    /\ sc # 0 /\ Unsigned(sa, Sym(sa, sc, name).typ)
                    /\ ContainsDec(body, name), "W02")

\* W09: an unsigned variable up to a difference.
AnalyzeFor(sa, s) ==
    LET sc == FindFrom(sa, Cur(sa), s.c[1].v)
        id == Sym(sa, sc, s.c[1].v).typ
        var == IF sc = 0 THEN Error(sa, "undefined variable") ELSE ErrorIf(sa, ~IsOrdinal(Resolved(sa, id)), "FOR")
        bounds == AnalyzeAll(var, <<s.c[2], s.c[3]>>)
        by == Through(LAMBDA a, b : AnalyzeExpr(a, b.c[1]), bounds, Of(s, {"by"}))
    IN  InLoop(ErrorIf(by, sc # 0 /\ Unsigned(by, id) /\ s.c[3].k = "bin" /\ s.c[3].v = "-", "W09"), Last(s.c))

AnalyzeWith(sa, s) ==
    LET d == AnalyzeDesignator(sa, s.c[1])
    IN  AnalyzeStmts(ErrorIf(d, Known(d.t) /\ Resolved(d, d.t).k \notin {"Record", "Pointer"}, "WITH"), s.c[2])

\* In a module body a RETURN may have a value.
AnalyzeReturn(sa, s) ==
    LET x == AnalyzeExpr(sa, s.c[1])
    IN  IF s.c = <<>> THEN ErrorIf(sa, sa.ret # 0, "RETURN needs a value")
        ELSE IF sa.ret = 0 THEN ErrorIf(x, sa.inProc, "RETURN of a value")
        ELSE ErrorIf(x, Known(x.t) /\ ~AssignmentCompatible(x.types, sa.ret, x.t), "RETURN type")

AnalyzeIf(sa, s) ==
    LET then == AnalyzeStmts(Condition(sa, s.c[1], "IF"), s.c[2])
        elsifs == Through(LAMBDA a, e : AnalyzeStmts(Condition(a, e.c[1], "ELSIF"), e.c[2]), then, Of(s, {"elsif"}))
    IN  Through(AnalyzeBodies, elsifs, Of(s, {"else"}))

\* Bodies of the statement and of its clauses, which introduce no scope.
Statement(sa, s) ==
    CASE s.k = "assign" -> AnalyzeAssign(sa, s)
      [] s.k = "pcall"  -> AnalyzeProcCall(sa, s)
      [] s.k = "if"     -> AnalyzeIf(sa, s)
      [] s.k = "case"   -> AnalyzeCase(sa, s)
      [] s.k = "while"  -> InLoop(LintCountdown(Condition(sa, s.c[1], "WHILE"), s.c[1], s.c[2]), s.c[2])
      [] s.k = "repeat" -> Condition(InLoop(sa, s.c[1]), s.c[2], "UNTIL")
      [] s.k = "for"    -> AnalyzeFor(sa, s)
      [] s.k = "loop"   -> InLoop(sa, s.c[1])
      [] s.k = "with"   -> AnalyzeWith(sa, s)
      [] s.k = "return" -> AnalyzeReturn(sa, s)
      [] s.k = "exit"   -> ErrorIf(sa, sa.inLoop = 0, "EXIT")
      [] s.k = "raise"  -> AnalyzeAll(sa, s.c)
      [] s.k = "try"    -> Through(AnalyzeBodies, AnalyzeBodies(sa, s), Of(s, {"except", "finally"}))
      [] s.k = "lock"   -> AnalyzeBodies(AnalyzeExpr(sa, s.c[1]), s)
      [] s.k = "typecase" -> Through(AnalyzeBodies, AnalyzeExpr(sa, s.c[1]), Of(s, {"branch", "else"}))
      [] OTHER          -> sa

----------------------------------------------------------------------------
(* Declarations and blocks.                                                *)

\* A symbol made from a declaration: [sa, sym].
ConstOf(x, e) == [sa |-> x, sym |-> [Symbol("Constant", x.t) EXCEPT !.val = EvalConstExpr(x, e)]]
MakeConst(sa, e) == ConstOf(AnalyzeExpr(sa, e), e)

ExceptionOf(x) == [sa |-> x, sym |-> [Symbol("Constant", x.t) EXCEPT !.val = Const("Integer", x.t)]]
MakeException(sa, name) == ExceptionOf(Register(sa, [k |-> "Exception", n |-> name]))

ProcOf(sig) == [sa |-> sig.sa, sym |-> [Symbol("Procedure", TY.VOID) EXCEPT !.params = sig.fs, !.ret = sig.ret]]
MakeProc(sa, h) == ProcOf(AnalyzeProcHeading(sa, h))

\* Variables of one type.
DefineNames(r, names) == Through(LAMBDA a, n : DefineSym(a, n.v, Symbol("Variable", r.t)), r, names)
DefineVarSymbols(sa, v) == DefineNames(ResolveTypeNode(sa, v.c[2]), v.c[1].c)

CopyType(sa, old, id) == [sa EXCEPT !.types[old] = sa.types[id]]

\* Mutant: the placeholder always gets a copy of what the name stands for now.
SetCopy(sa, name, old, id) == CopyType(sa, old, id)

\* The placeholder of the first pass becomes an alias of the type.
SetType(sa, name, old, id) ==
    LET forward == sa.types[id].k = "Opaque" /\ sa.types[id].md = ""
    IN  IF (forward \/ sa.types[old].k = "Opaque") /\ id # old
        THEN [sa EXCEPT !.types[old] = Alias(name, id)] ELSE CopyType(sa, old, id)

DefineOrSet(r, name) ==
    IF Visible(r, CurrentScope(r), name)
    THEN SetType(r, name, LookupInScope(r, CurrentScope(r), name).typ, r.t)
    ELSE DefineSym(r, name, Symbol("Type", r.t))
DeclareType(sa, d) == DefineOrSet(IF Len(d.c) = 2 THEN ResolveTypeNode(sa, d.c[2]) ELSE Give(sa, TY.ERROR), d.c[1].v)

\* Mutant: the result type of the procedure outlives it.
KeepReturn(sa, body) == [body EXCEPT !.inProc = sa.inProc]

\* The walk state around a procedure.
RestoreProc(sa, body) == [body EXCEPT !.ret = sa.ret, !.inProc = sa.inProc]

\* The heading, then the body in a scope of its own with the parameters.
EnterProc(sa, sym, name) ==
    Through(LAMBDA a, x : Quietly(a, x.n, [Symbol("Variable", x.t) EXCEPT !.var = x.var,
                                                                          !.open = a.types[x.t].k = "OpenArray"]),
            EnterScope([DefineSym(sa, name, sym) EXCEPT !.ret = sym.ret, !.inProc = TRUE], name), sym.params)
ProcBody(sa, made, d) ==
    RestoreProc(sa, LeaveScope(AnalyzeBlock(EnterProc(made.sa, made.sym, d.c[1].c[1].v), d.c[2])))
DeclareProc(sa, d) == ProcBody(sa, MakeProc(sa, d.c[1]), d)

DeclareMade(made, name) == DefineSym(made.sa, name, made.sym)

AnalyzeDeclaration(sa, d) ==
    CASE d.k = "const"     -> DeclareMade(MakeConst(sa, d.c[2]), d.c[1].v)
      [] d.k = "typedecl"  -> DeclareType(sa, d)
      [] d.k = "var"       -> DefineVarSymbols(sa, d)
      [] d.k = "proc"      -> DeclareProc(sa, d)
      [] d.k = "local"     -> AnalyzeProgramModule(sa, d)
      [] d.k = "exception" -> DeclareMade(MakeException(sa, d.c[1].v), d.c[1].v)

\* First pass: a placeholder for the name of every type.
Placeholder(sa, d) ==
    Quietly(Register(sa, Opaque(d.c[1].v, "")), d.c[1].v, Symbol("Type", Len(sa.types) + 1))

\* Third pass: constants that use later ones.
Reevaluate(sa, d) ==
    IF ~Here(sa, Cur(sa), d.c[1].v) THEN sa
    ELSE [sa EXCEPT !.scopes[Cur(sa)].syms[d.c[1].v].kind = "Constant",
                    !.scopes[Cur(sa)].syms[d.c[1].v].val = EvalConstExpr(sa, d.c[2])]

\* The EXCEPT and FINALLY parts of a block are not looked at.
BlockBody(sa, b) ==
    LET decls == b.c[1]
    IN  Through(AnalyzeBodies,
                Through(Reevaluate,
                        Through(AnalyzeDeclaration, Through(Placeholder, sa, Of(decls, {"typedecl"})), decls.c),
                        Of(decls, {"const"})),
                Of(b, {"begin"}))

----------------------------------------------------------------------------
(* Modules.                                                                *)

\* The scope of a module, in sa.t: known, or made from the stubs here.
DefineStubs(sa, name, sc) == Give(Quietly(sa, name, [Symbol("Module", TY.VOID) EXCEPT !.scope = sc]), sc)
MakeModuleScope(sa, name, sc) == DefineStubs(LeaveScope(RegisterModule(EnterScope(sa, name), sc, name)), name, sc)
ModuleScope(sa, name, sc) == IF sc # 0 THEN Give(sa, sc) ELSE MakeModuleScope(sa, name, Len(sa.scopes) + 1)
EnsureModuleScope(sa, name) == ModuleScope(sa, name, LookupModuleScope(sa, name))

\* The variants of an imported enumeration come with it, where the name is free.
ImportVariants(sa, from, id) ==
    IF sa.types[id].k # "Enumeration" THEN sa
    ELSE Through(LAMBDA a, i :
            IF Here(a, Cur(a), sa.types[id].ns[i]) THEN a
            ELSE Quietly(a, sa.types[id].ns[i],
                         [Symbol("EnumVariant", id) EXCEPT !.module = from, !.val = Const("Integer", i - 1)]),
            sa, [i \in DOMAIN sa.types[id].ns |-> i])

\* A name that is not found becomes a procedure without parameters.
ImportSymbol(sa, from, local, sym) ==
    ImportVariants(Quietly(sa, local, [sym EXCEPT !.exported = FALSE, !.module = from]), from, sym.typ)
ImportAs(sa, from, sc, name, local) ==
    IF Visible(sa, sc, name) THEN ImportSymbol(sa, from, local, LookupInScope(sa, sc, name))
    ELSE Quietly(sa, local, [Symbol("Procedure", TY.VOID) EXCEPT !.module = from])
ImportName(sa, from, sc, n) ==
    IF n.k = "as" THEN ImportAs(sa, from, sc, n.c[1].v, n.c[2].v) ELSE ImportAs(sa, from, sc, n.v, n.v)

ImportNames(m, imp) == Through(LAMBDA a, n : ImportName(a, imp.c[1].v, m.t, n), m, Tail(imp.c))
ImportFrom(sa, imp) == ImportNames(EnsureModuleScope(sa, imp.c[1].v), imp)

ImportWhole(sa, id) ==
    IF Visible(sa, CurrentScope(sa), id.v) /\ LookupInScope(sa, CurrentScope(sa), id.v).kind = "Module"
    THEN sa ELSE EnsureModuleScope(sa, id.v)

\* W06, then the imports in order.
ProcessImports(sa, m) ==
    LET imports == Of(m, {"from", "import"})
        lint(a, i) == ErrorIf(a, i.k = "from" /\ i.c[1].v = "SYSTEM", "W06")
    IN  Through(LAMBDA a, i : IF i.k = "from" THEN ImportFrom(a, i) ELSE Through(ImportWhole, a, i.c),
                 Through(lint, sa, imports), imports)

ModuleName(m) == The(m, "id").v
DefineModule(sa, name, sc) == DefineSym(sa, name, [Symbol("Module", TY.VOID) EXCEPT !.scope = sc])

\* A program or local module; what a local module exports is defined outside it.
ForwardExport(sa, sc, n) ==
    IF Here(sa, sc, n.v) THEN DefineSym(sa, n.v, [Sym(sa, sc, n.v) EXCEPT !.exported = FALSE])
    ELSE Error(sa, "export not found")
ForwardExports(sa, sc, m) ==
    Through(LAMBDA a, e : Through(LAMBDA b, n : ForwardExport(b, sc, n), a, e.c), sa, Of(m, {"export"}))
LeaveModule(sa, m, sc) == ForwardExports(DefineModule(LeaveScope(sa), ModuleName(m), sc), sc, m)
CloseModule(sa, m) == LeaveModule(sa, m, Cur(sa))
ProgramModule(sa, m) ==
    CloseModule(AnalyzeBlock(ProcessImports(EnterScope(sa, ModuleName(m)), m), The(m, "block")), m)

\* Names without an EXPORT list are all exported.
IsExported(m, n) == Has(m, "export") => \E i \in DOMAIN The(m, "export").c : The(m, "export").c[i].v = n

\* A definition of module m: a symbol of it made as [sa, sym].
OwnSymbol(m, sym, n) == [sym EXCEPT !.exported = IsExported(m, n), !.module = ModuleName(m)]
DefineMade(m, made, name) == DefineSym(made.sa, name, OwnSymbol(m, made.sym, name))

DefineOwnVars(r, names, m) ==
    Through(LAMBDA a, n : DefineSym(a, n.v, OwnSymbol(m, Symbol("Variable", r.t), n.v)), r, names)

\* The variants of an exported enumeration are exported.
ExportVariants(sa, m, name, t) ==
    IF IsExported(m, name) /\ t.k = "Enumeration" THEN SetExported(sa, Cur(sa), Range(t.ns)) ELSE sa
DefineType(r, m, name) ==
    ExportVariants(DefineSym(r, name, OwnSymbol(m, Symbol("Type", r.t), name)), m, name, r.types[r.t])

AnalyzeDefinition(sa, d, m) ==
    CASE d.k = "const"     -> DefineMade(m, MakeConst(sa, d.c[2]), d.c[1].v)
      [] d.k = "typedecl"  -> DefineType(IF Len(d.c) = 2 THEN ResolveTypeNode(sa, d.c[2])
                                         ELSE Register(sa, Opaque(d.c[1].v, ModuleName(m))), m, d.c[1].v)
      [] d.k = "var"       -> DefineOwnVars(ResolveTypeNode(sa, d.c[2]), d.c[1].c, m)
      [] d.k = "heading"   -> DefineMade(m, MakeProc(sa, d), d.c[1].v)
      [] d.k = "exception" -> DefineMade(m, MakeException(sa, d.c[1].v), d.c[1].v)

Definitions(m) == Of(m, {"const", "typedecl", "var", "heading", "exception"})

\* What is imported is exported again.
Reexport(sa, m) == SetExported(sa, Cur(sa), {n \in DOMAIN sa.scopes[Cur(sa)].syms : IsExported(m, n)})
OpenDefinition(sa, m) ==
    Reexport(ProcessImports(EnterScope([sa EXCEPT !.foreign = IF Has(m, "string") THEN @ \cup {ModuleName(m)} ELSE @],
                                       ModuleName(m)), m), m)
CloseDefinition(sa, m) == DefineModule(LeaveScope(sa), ModuleName(m), Cur(sa))
DefinitionModule(sa, m) ==
    CloseDefinition(Through(LAMBDA a, d : AnalyzeDefinition(a, d, m), OpenDefinition(sa, m), Definitions(m)), m)

\* Mutant: a scope of its own for the implementation.
OwnScope(sa, name) == EnterScope(sa, name)

\* An implementation goes on in the scope of its definition module.
ImplScope(sa, name) ==
    IF LookupModuleScope(sa, name) # 0 THEN Reenter(sa, LookupModuleScope(sa, name)) ELSE EnterScope(sa, name)

IsModule(sa, name) ==
    Visible(sa, CurrentScope(sa), name) /\ LookupInScope(sa, CurrentScope(sa), name).kind = "Module"
ScopeOf(sa, name) == LookupInScope(sa, CurrentScope(sa), name).scope

\* Names of the own definition, where they are not in this scope already.
ImportAllOf(sa, syms) ==
    LET names == {n \in DOMAIN syms : \/ syms[n].kind = "EnumVariant"
                                      \/ syms[n].exported /\ syms[n].kind \in {"Type", "Constant", "Variable"}}
    IN  Through(LAMBDA a, n : Quietly(a, n, syms[n]), sa, SetToSeq(names))
ImportOwnDef(sa, name) ==
    IF IsModule(sa, name) /\ ScopeOf(sa, name) # Cur(sa) THEN ImportAllOf(sa, sa.scopes[ScopeOf(sa, name)].syms) ELSE sa

\* The signatures of the implementation replace those of the definition.
IsProcIn(syms, n) == n \in DOMAIN syms /\ syms[n].kind = "Procedure"
UpdateFrom(sa, here, sc) ==
    [sa EXCEPT !.scopes[sc].syms =
        [n \in DOMAIN @ |-> IF IsProcIn(@, n) /\ IsProcIn(here, n)
                            THEN [@[n] EXCEPT !.params = here[n].params, !.ret = here[n].ret] ELSE @[n]]]
UpdateProcedures(sa, name) ==
    IF IsModule(sa, name) THEN UpdateFrom(sa, sa.scopes[Cur(sa)].syms, ScopeOf(sa, name)) ELSE sa

LeaveImpl(sa, name, sc) == IF Visible(sa, CurrentScope(sa), name) THEN sa ELSE DefineModule(sa, name, sc)
CloseImpl(sa, name) == LeaveImpl(LeaveScope(sa), name, Cur(sa))
ImplementationModule(sa, m) ==
    CloseImpl(UpdateProcedures(AnalyzeBlock(ProcessImports(ImportOwnDef(ImplScope(sa, ModuleName(m)), ModuleName(m)), m),
                                            The(m, "block")), ModuleName(m)), ModuleName(m))

Walk(what, sa, tree) ==
    CASE what = "type"      -> TypeNode(sa, tree)
      [] what = "expr"      -> Expr(sa, tree)
      [] what = "statement" -> Statement(sa, tree)
      [] what = "block"     -> BlockBody(sa, tree)
      [] what = "module"    -> ProgramModule(sa, tree)
      [] what = "def"       -> DefinitionModule(sa, tree)
      [] what = "impl"      -> ImplementationModule(sa, tree)

----------------------------------------------------------------------------
(* What the driver and the language server call.                           *)

PreRegisterTypeNames(sa, def) ==
    Through(LAMBDA a, d : Register(a, Opaque(d.c[1].v, ModuleName(def))), sa, Of(def, {"typedecl"}))

RegisterDefModule(sa, def) == AnalyzeDefinitionModule(ResetWalkState(sa), def)

\* The errors of an implementation module are dropped.
RegisterImplModule(sa, imp) ==
    [AnalyzeImplementationModule(ResetWalkState(sa), imp) EXCEPT !.errs = sa.errs]

Analyze(sa, unit) == Walk(unit.k, ResetWalkState(sa), unit)

\* Fields whose type was not known get one by the name alone.
FixupRecordFieldTypes(sa) ==
    LET fix(f) == LET id == FindType(sa, f.tn)
                  IN  IF sa.types[f.t].k \in {"Void", "Error"} /\ id # 0 /\ Known(id) THEN [f EXCEPT !.t = id] ELSE f
    IN  [sa EXCEPT !.types = [i \in DOMAIN @ |->
            IF @[i].k # "Record" THEN @[i]
            ELSE [@[i] EXCEPT !.fs = [j \in DOMAIN @ |-> fix(@[j])]]]]
=============================================================================
