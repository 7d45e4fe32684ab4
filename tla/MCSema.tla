------------------------------- MODULE MCSema -------------------------------
(***************************************************************************)
(* Programs for SemaSession: a main module Main, a library L with a type T *)
(* and a procedure P, and a library K that uses T.                         *)
(***************************************************************************)
EXTENDS Places

Tree(k, c) == [k |-> k, v |-> "", c |-> c]
Id(x) == NameTree(x)
Num(n) == [k |-> "int", v |-> n, c |-> <<>>]
Str(n) == [k |-> "string", v |-> n, c |-> <<>>]
Var(x) == Tree("desig", <<Id(x)>>)
Less(x, y) == [k |-> "bin", v |-> "<", c |-> <<x, y>>]
Qual(m, x) == Tree("qual", <<Id(m), Id(x)>>)

Names(xs) == Tree("names", [i \in DOMAIN xs |-> Id(xs[i])])
Fd(x, t) == Tree("field", <<Names(<<x>>), t>>)
Rec(fs) == Tree("record", <<Tree("fields", fs)>>)
Ptr(t) == Tree("pointer", <<t>>)
Sub(a, b) == Tree("subrange", <<Num(a), Num(b)>>)
Arr(a, b, t) == Tree("array", <<Tree("indices", <<Sub(a, b)>>), t>>)
Enum(xs) == Tree("enum", [i \in DOMAIN xs |-> Id(xs[i])])

TypeDecl(x, t) == Tree("typedecl", <<Id(x), t>>)
VarDecl(x, t) == Tree("var", <<Names(<<x>>), t>>)
Value(x, t) == Tree("param", <<Names(<<x>>), t>>)
ByRef(x, t) == Tree("param", <<Tree("VAR", <<>>), Names(<<x>>), t>>)
Heads(x, rest) == Tree("heading", <<Id(x)>> \o rest)
Stmts(s) == Tree("stmts", s)
Block(decls, s) == Tree("block", <<Tree("decls", decls), Tree("begin", <<Stmts(s)>>)>>)
FromM(m, xs) == Tree("from", <<Id(m)>> \o [i \in DOMAIN xs |-> Id(xs[i])])
Import(m) == Tree("import", <<Id(m)>>)

----------------------------------------------------------------------------
\* The libraries.  T of L is opaque, or one of the other types.
LibTypes ==
    [opaque |-> <<Tree("typedecl", <<Id("T")>>)>>,
     enum   |-> <<TypeDecl("T", Enum(<<"red", "green">>))>>,
     rec    |-> <<TypeDecl("T", Rec(<<Fd("c", Id("CHAR")), Fd("n", Id("LONGINT")), Fd("d", Id("CHAR"))>>))>>,
     ptr    |-> <<TypeDecl("R", Rec(<<Fd("n", Id("INTEGER")), Fd("d", Id("CHAR"))>>)), TypeDecl("T", Ptr(Id("R")))>>,
     arr    |-> <<TypeDecl("E", Enum(<<"red", "green">>)), TypeDecl("T", Arr(1, 3, Id("E")))>>]

HeadP == Heads("P", <<ByRef("t", Id("T")), Value("c", Id("CHAR"))>>)

DefL(lib) == Tree("def", <<Id("L")>> \o LibTypes[lib] \o <<VarDecl("n", Id("INTEGER")), HeadP>>)

\* The implementation has a mistake of its own, which Main's errors leave out.
ImplL(lib) ==
    Tree("impl", <<Id("L"),
        Block((IF lib = "opaque" THEN <<TypeDecl("T", Ptr(Id("N"))), TypeDecl("N", Rec(<<Fd("next", Id("T"))>>))>> ELSE <<>>)
              \o <<VarDecl("x", Id("CHAR")),
                   Tree("proc", <<HeadP, Block(<<>>, <<Tree("assign", <<Var("n"), Str(2)>>), Tree("return", <<>>)>>)>>)>>,
              <<Tree("assign", <<Var("x"), Str(1)>>)>>)>>)

\* K sees T through either form of import.
DefK(whole) ==
    Tree("def", <<Id("K"), IF whole THEN Import("L") ELSE FromM("L", <<"T">>),
                  TypeDecl("U", Rec(<<Fd("t", IF whole THEN Qual("L", "T") ELSE Id("T")), Fd("k", Id("CARDINAL"))>>)),
                  VarDecl("u", Id("U"))>>)
\* J has a T of its own and imports nothing: it is registered before, between or
\* after the others.
DefJ == Tree("def", <<Id("J"), TypeDecl("T", Id("CHAR")), TypeDecl("E", Enum(<<"green", "red">>)),
                      TypeDecl("V", Rec(<<Fd("t", Id("T")), Fd("e", Id("E"))>>)), VarDecl("v", Id("V"))>>)
ImplK == Tree("impl", <<Id("K"), FromM("L", <<"P">>), Block(<<>>, <<>>)>>)

----------------------------------------------------------------------------
\* The types of Main, declared in every order.
MainTypes ==
    <<TypeDecl("A", Ptr(Id("B"))),
      TypeDecl("B", Rec(<<Fd("e", Id("E")), Fd("next", Id("A")), Fd("c", Id("CHAR"))>>)),
      TypeDecl("E", Enum(<<"one", "two">>)),
      TypeDecl("C", Id("A"))>>

Orders == {o \in [1..4 -> 1..4] : \A i, j \in 1..4 : i # j => o[i] # o[j]}

\* A procedure whose types hide those of the module.
Hiding ==
    Tree("proc", <<Heads("q", <<>>),
        Block(<<TypeDecl("A", Ptr(Id("E"))), TypeDecl("E", Id("CHAR")), VarDecl("a", Id("A")), VarDecl("e", Id("E")),
                VarDecl("b", Id("B")), VarDecl("s", Tree("setof", <<Id("E")>>))>>, <<>>)>>)

TypesMain(p) ==
    LET t == IF p.whole THEN Qual("L", "T") ELSE Id("T")
    IN  Tree("module", <<Id("Main")>>
            \o (IF p.whole THEN <<Import("L"), Import("J"), FromM("K", <<"U">>)>>
                ELSE <<FromM("J", <<"V">>), FromM("K", <<"U">>), FromM("L", <<"T">>)>>)
            \o <<Block([i \in 1..4 |-> MainTypes[p.order[i]]]
                   \o <<VarDecl("a", Id("A")), VarDecl("b", Id("B")), VarDecl("c", Id("C")), VarDecl("e", Id("E")),
                        VarDecl("r", Arr(0, 4, Id("C"))), VarDecl("t", t), VarDecl("u", Id("U")), VarDecl("i", Sub(1, 9)), VarDecl("v", IF p.whole THEN Qual("J", "V") ELSE Id("V")),
                        Hiding>>, <<>>)>>)

----------------------------------------------------------------------------
\* Statements, of which some are right in one place and wrong in another.
Assign(x, e) == Tree("assign", <<Var(x), e>>)
CallP(x, e) == Tree("pcall", <<Var("P"), Tree("args", <<x, e>>)>>)
Exit == Tree("exit", <<>>)
Return == Tree("return", <<>>)
ReturnOf(e) == Tree("return", <<e>>)
NoOp == Assign("i", Num(1))
Test == Less(Var("i"), Num(3))
Else(s) == Tree("else", <<Stmts(s)>>)
If(c, s1, s2) == Tree("if", <<c, Stmts(s1), Else(s2)>>)
While(c, s) == Tree("while", <<c, Stmts(s)>>)
Repeat(s, c) == Tree("repeat", <<Stmts(s), c>>)
For(s) == Tree("for", <<Id("i"), Num(1), Num(3), Stmts(s)>>)
Loop(s) == Tree("loop", <<Stmts(s)>>)
Case(s1, s2) ==
    Tree("case", <<Var("i"), Tree("branch", <<Tree("labels", <<Num(1)>>), Stmts(s1)>>), Else(s2)>>)
With(s) == Tree("with", <<Var("rec"), Stmts(s)>>)
Try(s1, s2) == Tree("try", <<Stmts(s1), Tree("except", <<Stmts(s2)>>)>>)

Atoms ==
    <<NoOp, Exit, Return, ReturnOf(Str(1)), ReturnOf(Str(2)), Assign("x", Str(1)), Assign("x", Str(2)), Assign("x", Var("rec")),
      Assign("w", Var("t")), Assign("t", Num(1)), Assign("rec", Var("i")), CallP(Var("t"), Str(1)), CallP(Var("w"), Str(1)),
      CallP(Var("i"), Str(2))>>

Compounds ==
    <<Loop(<<If(Test, <<Exit>>, <<NoOp>>)>>), Loop(<<While(Test, <<NoOp>>), Exit>>), While(Var("x"), <<Exit>>),
      Repeat(<<Exit, Loop(<<Exit>>)>>, Test), For(<<Exit, Return>>), If(Test, <<Exit>>, <<ReturnOf(Str(1))>>),
      Case(<<Exit>>, <<Assign("x", Str(2))>>), With(<<CallP(Var("rec"), Str(1))>>),
      Try(<<Loop(<<Exit>>), Exit>>, <<Return>>), Repeat(<<NoOp>>, Var("i"))>>

\* Values of another type of the same class, and of another class.
Mixed ==
    <<Assign("i", Var("e")), Assign("e", Var("ch")), Assign("ch", Var("i")), Assign("ch", Var("t")), Assign("i", Var("card")), Assign("rl", Var("i")), Assign("i", Var("rl")),
      Assign("rec", Var("r2")), Assign("t", Var("r2")), Assign("pa", Var("pb")), Assign("pa", Var("t")), Assign("t", Var("pb")),
      Assign("pa", Var("NIL")), Assign("e", Var("pa")), Assign("aa", Var("ab")), Assign("t", Var("ab")), Assign("aa", Var("rec")),
      Assign("sa", Var("sb")), Assign("sa", Var("i")), Assign("low", Var("i")), Assign("ch", Var("low")), CallP(Var("t"), Var("i")),
      CallP(Var("t"), Var("pa")), CallP(Var("ab"), Str(1)), CallP(Var("aa"), Var("ch")), ReturnOf(Var("e")), ReturnOf(Var("rec"))>>

Statements == Atoms \o Compounds \o Mixed

MixedOnes == Len(Atoms \o Compounds) + 1..Len(Statements)

\* x is a CHAR inside p, an INTEGER outside; q is declared within p.  q returns
\* nothing, p a value of the type ret ("" for none).
StmtsMain(p) ==
    LET heading == Heads("p", <<Value("k", Id("INTEGER"))>>
                             \o IF p.ret = "" THEN <<>> ELSE <<Tree("result", <<Id(p.ret)>>)>>)
        inner == Tree("proc", <<Heads("q", <<>>), Block(<<>>, <<Statements[p.s1]>>)>>)
        outer == Tree("proc", <<heading, Block(<<VarDecl("x", Id("CHAR")), inner>>, <<Statements[p.s2]>>)>>)
        mixed == <<TypeDecl("En", Enum(<<"one", "two">>)), TypeDecl("R2", Rec(<<Fd("g", Id("INTEGER"))>>)), TypeDecl("Pa", Ptr(Id("Rc"))),
                   TypeDecl("Pb", Ptr(Id("INTEGER"))), TypeDecl("Aa", Arr(0, 3, Id("INTEGER"))),
                   TypeDecl("Ab", Arr(0, 5, IF p.lib = "arr" THEN Id("E") ELSE Id("CHAR"))), TypeDecl("Sa", Tree("setof", <<Id("En")>>)),
                   TypeDecl("Sb", Tree("setof", <<Id("BOOLEAN")>>)), VarDecl("e", Id("En")), VarDecl("ch", Id("CHAR")),
                   VarDecl("card", Id("CARDINAL")), VarDecl("rl", Id("REAL")), VarDecl("r2", Id("R2")), VarDecl("pa", Id("Pa")), VarDecl("pb", Id("Pb")), VarDecl("aa", Id("Aa")),
                   VarDecl("ab", Id("Ab")), VarDecl("sa", Id("Sa")), VarDecl("sb", Id("Sb")), VarDecl("low", Sub(1, 9))>>
    IN  Tree("module", <<Id("Main"), FromM("L", <<"P", "T">> \o IF p.lib = "arr" THEN <<"E">> ELSE <<>>),
            Block((IF {p.s2, p.s3} \cap MixedOnes = {} THEN <<>> ELSE mixed) \o <<TypeDecl("W", Id("T")), TypeDecl("Rc", Rec(<<Fd("f", Id("CHAR"))>>)), VarDecl("i", Id("INTEGER")),
                    VarDecl("x", Id("INTEGER")), VarDecl("t", Id("T")), VarDecl("w", Id("W")), VarDecl("rec", Id("Rc")),
                    outer>>, <<Statements[p.s3]>>)>>)

----------------------------------------------------------------------------
\* Legal programs: one declaration part and one statement list for each feature
\* of the language.
Bin(op, x, y) == [k |-> "bin", v |-> op, c |-> <<x, y>>]
Un(op, x) == [k |-> "un", v |-> op, c |-> <<x>>]
Desig(x, sels) == Tree("desig", <<Id(x)>> \o sels)
Sel(x) == Tree("sel", <<Id(x)>>)
Index(es) == Tree("index", es)
Deref == Tree("deref", <<>>)
Fun(f, args) == Tree("call", <<Var(f), Tree("args", args)>>)
Do(f, args) == Tree("pcall", <<Var(f), Tree("args", args)>>)
Set(d, e) == Tree("assign", <<d, e>>)
ConstDecl(x, e) == Tree("const", <<Id(x), e>>)
SetOf(es) == Tree("set", es)
Proc1(h, s) == Tree("proc", <<h, Block(<<>>, s)>>)
Result(t) == Tree("result", <<t>>)
Open(t) == Tree("open", <<t>>)
Labels(es) == Tree("labels", es)
Chr(n) == [k |-> "char", v |-> n, c |-> <<>>]
I == Id("INTEGER")

Shape ==
    Rec(<<Fd("id", I), Tree("variants", <<Tree("tag", <<Id("tag"), Id("BOOLEAN")>>),
                                          Tree("variant", <<Labels(<<Var("TRUE")>>), Tree("fields", <<Fd("w", I)>>)>>),
                                          Tree("else", <<Tree("fields", <<Fd("x", Id("REAL"))>>)>>)>>)>>)

Feature(decls, s) == [decls |-> decls, s |-> s]

Features ==
    <<\* constants, also of constants declared later, and array bounds of them
      Feature(<<ConstDecl("k", Bin("+", Var("h"), Num(1))), ConstDecl("h", Num(3)),
                TypeDecl("A", Tree("array", <<Tree("indices", <<Tree("subrange", <<Num(0), Var("k")>>), Sub(1, 2)>>), I>>)),
                VarDecl("a", Id("A")), VarDecl("i", I)>>,
              <<Set(Desig("a", <<Index(<<Var("i"), Num(1)>>)>>), Bin("DIV", Var("i"), Num(2))),
                Set(Var("i"), Desig("a", <<Index(<<Num(0)>>), Index(<<Num(1)>>)>>))>>),
      \* enumerations, sets, CASE and FOR over them
      Feature(<<TypeDecl("E", Enum(<<"red", "green">>)), TypeDecl("S", Tree("setof", <<Id("E")>>)), VarDecl("e", Id("E")),
                VarDecl("s", Id("S")), VarDecl("b", Id("BITSET")), VarDecl("q", Id("BOOLEAN"))>>,
              <<Set(Var("s"), SetOf(<<Id("S"), Var("red")>>)), Set(Var("b"), SetOf(<<Num(1), Tree("range", <<Num(3), Num(4)>>)>>)),
                Do("INCL", <<Var("s"), Var("green")>>), Set(Var("q"), Bin("IN", Var("e"), Var("s"))),
                Set(Var("b"), Bin("+", Var("b"), SetOf(<<Num(2)>>))),
                Tree("for", <<Id("e"), Var("red"), Var("green"), Stmts(<<Do("EXCL", <<Var("s"), Var("e")>>)>>)>>),
                Tree("case", <<Var("e"), Tree("branch", <<Labels(<<Var("red"), Var("green")>>), Stmts(<<Exit>>)>>)>>)>>),
      \* records with variants, WITH, pointers, NEW
      Feature(<<TypeDecl("P", Ptr(Id("R"))), TypeDecl("R", Shape), VarDecl("p", Id("P")), VarDecl("r", Id("R"))>>,
              <<Do("NEW", <<Var("p")>>), Set(Desig("p", <<Deref, Sel("id")>>), Num(1)), Set(Desig("p", <<Deref, Sel("w")>>), Num(1)),
                Set(Desig("r", <<Sel("tag")>>), Var("TRUE")), Set(Desig("r", <<Sel("x")>>), [k |-> "real", v |-> 0, c |-> <<>>]),
                Tree("with", <<Var("p"), Stmts(<<Set(Desig("r", <<Sel("id")>>), Num(2))>>)>>),
                If(Bin("#", Var("p"), Var("NIL")), <<Do("DISPOSE", <<Var("p")>>)>>, <<Set(Var("p"), Var("NIL"))>>)>>),
      \* procedures with open arrays and VAR parameters, functions, procedure types
      Feature(<<TypeDecl("F", Tree("proctype", <<Tree("param", <<I>>), Result(I)>>)), VarDecl("i", I), VarDecl("b", Id("BOOLEAN")),
                VarDecl("s", Arr(0, 3, Id("CHAR"))), VarDecl("f", Id("F")),
                Proc1(Heads("g", <<Value("x", I), Result(I)>>), <<ReturnOf(Bin("*", Var("x"), Num(2)))>>),
                Proc1(Heads("o", <<ByRef("x", I), Value("t", Open(Id("CHAR")))>>), <<Set(Var("x"), Fun("HIGH", <<Var("t")>>))>>)>>,
              <<Set(Var("i"), Fun("g", <<Num(3)>>)), Do("o", <<Var("i"), Str(5)>>), Do("o", <<Var("i"), Var("s")>>), Set(Var("s"), Str(2)),
                Set(Var("b"), Bin("AND", Un("NOT", Bin("=", Var("i"), Num(1))), Bin("OR", Var("b"), Bin(">", Var("i"), Un("-", Num(1)))))),
                Do("INC", <<Var("i")>>), Do("HALT", <<>>), Set(Var("i"), Fun("ORD", <<Chr(65)>>))>>),
      \* exceptions, TRY, RAISE, LOCK
      Feature(<<Tree("exception", <<Id("Bad")>>), VarDecl("i", I)>>,
              <<Tree("try", <<Stmts(<<Tree("raise", <<Var("Bad")>>)>>), Tree("except", <<Id("Bad"), Stmts(<<Set(Var("i"), Num(1))>>)>>),
                              Tree("finally", <<Stmts(<<Set(Var("i"), Num(0))>>)>>)>>),
                Tree("lock", <<Var("i"), Stmts(<<Tree("retry", <<>>)>>)>>)>>),
      \* a local module, and an exported name of it
      Feature(<<Tree("local", <<Id("In"), Tree("export", <<Id("n"), Id("step")>>),
                                Block(<<VarDecl("n", I), Proc1(Heads("step", <<>>), <<Do("INC", <<Var("n")>>), Return>>)>>, <<Set(Var("n"), Num(0))>>)>>)>>,
              <<Do("step", <<>>), Set(Var("n"), Bin("MOD", Var("n"), Num(7)))>>),
      \* warnings only: the sign of an unsigned number, NIL and what it points to
      Feature(<<TypeDecl("P", Ptr(I)), VarDecl("p", Id("P")), VarDecl("c", Id("CARDINAL")), VarDecl("i", I), VarDecl("b", Id("BOOLEAN"))>>,
              <<If(Bin(">=", Var("c"), Num(0)), <<Set(Var("c"), Num(1))>>, <<>>), Set(Var("b"), Bin("<", Var("c"), Var("i"))),
                Set(Var("b"), Bin("AND", Bin("#", Var("p"), Var("NIL")), Bin("=", Desig("p", <<Deref>>), Num(1))))>>),
      \* references, objects, TYPECASE, subranges, real arithmetic
      Feature(<<TypeDecl("O", Tree("object", <<Fd("n", I), Tree("method", <<Id("m"), Result(I)>>)>>)), TypeDecl("Rf", Tree("ref", <<I>>)),
                VarDecl("o", Id("O")), VarDecl("f", Id("Rf")), VarDecl("any", Tree("refany", <<>>)), VarDecl("d", Sub(0, 9)),
                VarDecl("c", Tree("subrange", <<Chr(97), Chr(122)>>)), VarDecl("x", Id("REAL"))>>,
              <<Set(Desig("f", <<Deref>>), Num(1)), Set(Var("any"), Var("f")), Set(Var("d"), Num(4)), Set(Var("c"), Chr(98)),
                Set(Var("x"), Bin("/", Var("x"), Var("x"))), Set(Var("x"), Bin("*", Var("x"), Var("x"))),
                Tree("typecase", <<Var("any"), Tree("branch", <<Tree("types", <<Id("Rf")>>), Stmts(<<Set(Var("d"), Num(1))>>)>>)>>)>>)>>

FeatureMain(f) ==
    Tree("module", <<Id("Main"), FromM("InOut", <<"WriteInt">>), FromM("L", <<"T">>),
                     Block(f.decls, <<Do("WriteInt", <<Num(1), Num(2)>>), Loop(f.s)>>)>>)

----------------------------------------------------------------------------
\* Programs for places: x is another variable, parameter or field in every
\* scope and record, so is y in some.  Every statement assigns something to itself or
\* calls a procedure, inside WITH statements (a wrap) and behind them, in the
\* nested procedure q, in p, or in the module.
Point == Rec(<<Fd("x", Id("LONGINT")), Fd("c", Id("CHAR"))>>)
PlaceTypes ==
    <<TypeDecl("G", Tree("proctype", <<Tree("param", <<I>>), Result(I)>>)), TypeDecl("Pt", Point), TypeDecl("Ref", Ptr(Id("Node"))), TypeDecl("Pa", Arr(0, 4, Id("Pt"))),
      TypeDecl("Node", Rec(<<Fd("next", Id("Ref")), Fd("x", Id("CARDINAL")), Fd("in", Id("Pt"))>>)),
      TypeDecl("R", Rec(<<Fd("in", Id("Pt")), Fd("a", Arr(0, 3, I)), Fd("x", Id("CHAR")), Fd("p", Id("G")),
                          Fd("b", Tree("array", <<Tree("indices", <<Sub(0, 1), Sub(0, 2)>>), I>>)),
                          Tree("variants", <<Tree("tag", <<Id("tag"), Id("BOOLEAN")>>),
                                             Tree("variant", <<Labels(<<Var("TRUE")>>), Tree("fields", <<Fd("h", I), Fd("y", Id("REAL"))>>)>>),
                                             Tree("else", <<Tree("fields", <<Fd("w", Id("Pt"))>>)>>)>>)>>)),
      TypeDecl("F", Tree("proctype", <<Tree("param", <<Tree("VAR", <<>>), I>>), Tree("param", <<Open(Id("Pt"))>>), Result(I)>>))>>

PlaceVars ==
    <<VarDecl("x", I), VarDecl("y", Id("CHAR")), VarDecl("i", I), VarDecl("f", Id("REAL")), VarDecl("r", Id("R")), VarDecl("n", Id("Ref")),
      VarDecl("pa", Id("Pa")), VarDecl("s8", Arr(0, 8, Id("CHAR"))), VarDecl("v", Id("F")), VarDecl("t", Qual("L", "T")),
      VarDecl("m", Tree("array", <<Tree("indices", <<Sub(0, 1), Sub(0, 2)>>), Id("Pt")>>))>>

Self(d) == Set(d, d)
At(x, e) == Desig(x, <<Index(<<e>>)>>)

Uses ==
    <<Self(Var("x")), Self(Var("y")), Self(Desig("r", <<Sel("x")>>)), Self(Desig("r", <<Sel("in"), Sel("c")>>)), Self(Desig("r", <<Sel("w"), Sel("x")>>)),
      Self(Desig("n", <<Deref, Sel("x")>>)), Self(Desig("n", <<Deref, Sel("next"), Deref, Sel("in"), Sel("x")>>)),
      Self(Desig("m", <<Index(<<Var("i"), Desig("r", <<Sel("a"), Index(<<Num(1)>>)>>)>>), Sel("c")>>)),
      Self(Desig("pa", <<Index(<<Fun("g", <<Var("i"), Var("pa")>>)>>), Sel("x")>>)), Set(Var("i"), Fun("v", <<Var("i"), Var("pa")>>)),
      Self(Desig("L", <<Sel("n")>>)), Self(Var("count")), Self(Desig("J", <<Sel("v"), Sel("e")>>)), Do("put", <<Var("t"), Chr(65)>>)>>

Wraps ==
    <<[open |-> <<>>, s |-> <<>>],
      [open |-> <<Var("r")>>, s |-> <<Self(At("a", Var("i"))), Self(Var("tag")), Self(Var("h")), Self(Desig("in", <<Sel("c")>>)), Self(Desig("w", <<Sel("c")>>))>>],
      [open |-> <<Desig("n", <<Deref>>)>>, s |-> <<Self(Var("next")), Self(Desig("next", <<Deref, Sel("x")>>)), Self(Desig("in", <<Sel("c")>>))>>],
      [open |-> <<Var("r"), Var("n")>>, s |-> <<Self(Desig("in", <<Sel("x")>>)), Self(Var("next")), Self(At("a", Num(0)))>>],
      [open |-> <<Var("n"), Var("r")>>, s |-> <<Self(Desig("in", <<Sel("x")>>)), Self(Var("next")), Self(Var("tag"))>>],
      [open |-> <<Var("r"), Var("in")>>, s |-> <<Self(Var("c")), Self(Var("h"))>>],
      [open |-> <<Var("r"), Var("n"), Var("in")>>, s |-> <<Self(Var("c")), Self(Var("next")), Self(Var("tag"))>>],
      [open |-> <<Var("n"), Var("r"), Var("in")>>, s |-> <<Self(Var("c")), Self(Var("next")), Self(At("a", Var("i")))>>]>>

RECURSIVE Nest(_, _)
Nest(open, s) == IF open = <<>> THEN s ELSE <<Tree("with", <<open[1], Stmts(Nest(Tail(open), s))>>)>>

\* The calls that each place can make.
PassOn(s) == Do("p", <<Var("f"), s, Var("pa"), Desig("r", <<Sel("a"), Index(<<Var("i")>>)>>)>>)
CallsIn(place) ==
    CASE place = "q"    -> <<PassOn(Var("t8")), Do("put", <<Var("t"), Var("k")>>)>>
      [] place = "p"    -> <<Do("q", <<Var("s8"), Var("TRUE")>>), PassOn(Var("s")), PassOn(Str(3)), Set(Var("k"), Fun("HIGH", <<Var("s")>>))>>
      [] place = "main" -> <<PassOn(Var("s8")), Set(Var("v"), Var("g"))>>

\* Forms that are misread, one in each program, with the place they stand in.
Odd(place, s) == [place |-> place, s |-> s]
OddBodies ==
    <<Odd("main", Nest(<<Desig("r", <<Sel("in")>>)>>, <<Self(Var("c"))>>)),
      Odd("q", Nest(<<Desig("pa", <<Index(<<Var("i")>>)>>)>>, <<Self(Var("x"))>>)),
      Odd("p", Nest(<<Var("lr")>>, <<Self(Var("tag"))>>)),
      Odd("main", Nest(<<Var("n"), Var("next")>>, <<Self(Var("x"))>>)),
      Odd("p", Nest(<<Var("r")>>, <<Self(Desig("b", <<Index(<<Var("i"), Num(1)>>)>>))>>)),
      Odd("main", Nest(<<Var("r")>>, <<Set(Var("i"), Fun("HIGH", <<Var("a")>>))>>)),
      Odd("q", <<Set(Var("i"), Fun("HIGH", <<Var("s")>>))>>),
      Odd("q", <<PassOn(Var("s"))>>),
      Odd("q", <<Do("q", <<Var("t8"), Var("FALSE")>>)>>),
      Odd("q2", <<Do("q", <<Var("s8"), Var("FALSE")>>)>>),
      Odd("main", <<Set(Var("i"), Tree("call", <<Desig("r", <<Sel("p")>>), Tree("args", <<Var("i")>>)>>))>>)>>

PlaceBody(p, place) ==
    IF p.s2 > Len(Wraps) THEN IF OddBodies[p.s2 - Len(Wraps)].place = place THEN OddBodies[p.s2 - Len(Wraps)].s ELSE <<>>
    ELSE IF p.ret = place THEN Nest(Wraps[p.s2].open, Wraps[p.s2].s \o Uses) \o Uses \o CallsIn(place)
    ELSE <<>>

PlaceProcs(p) ==
    LET q == Tree("proc", <<Heads("q", <<ByRef("t8", Open(Id("CHAR"))), Value("x", Id("BOOLEAN"))>>),
                            Block(<<VarDecl("k", Id("CHAR"))>>, PlaceBody(p, "q"))>>)
    IN  <<Proc1(Heads("g", <<ByRef("k", I), Value("o", Open(Id("Pt"))), Result(I)>>), <<Self(Desig("o", <<Index(<<Var("k")>>), Sel("c")>>)), ReturnOf(Var("k"))>>),
          Tree("proc", <<Heads("p", <<ByRef("x", Id("REAL")), Value("s", Open(Id("CHAR"))), ByRef("o", Open(Id("Pt"))), Value("k", I)>>),
                         Block(<<VarDecl("y", Id("BOOLEAN")), VarDecl("lr", Id("R")), q, Proc1(Heads("q2", <<>>), PlaceBody(p, "q2"))>>, PlaceBody(p, "p"))>>)>>

Renamed(m, x, as) == Tree("from", <<Id(m), Tree("as", <<Id(x), Id(as)>>)>>)

PlacesMain(p) ==
    Tree("module", <<Id("Main"), Import("L"), Import("J"), Renamed("L", "P", "put"), Renamed("L", "n", "count"),
                     Block(PlaceTypes \o PlaceVars \o PlaceProcs(p), PlaceBody(p, "main"))>>)

\* count is something else here.
ImplJ ==
    Tree("impl", <<Id("J"), Import("L"), Renamed("L", "P", "count"),
        Block(<<VarDecl("t", Qual("L", "T")), VarDecl("own", Id("E")),
                Proc1(Heads("step", <<>>), <<Tree("with", <<Var("v"), Stmts(<<Self(Var("t")), Self(Var("own")), Set(Var("own"), Var("e"))>>)>>)>>)>>,
              <<Do("step", <<>>), Self(Desig("v", <<Sel("e")>>))>>)>>)

----------------------------------------------------------------------------
\* A pick is a program for types (s1 = 0), for a feature (s2 = 0), for places
\* (s3 = 0, with the place in ret), or for statements (s1, s2, s3).
TypePick(lib, whole, order) == [lib |-> lib, whole |-> whole, order |-> order, ret |-> "", s1 |-> 0, s2 |-> 0, s3 |-> 0]
StmtPick(lib, ret, s1, s2, s3) ==
    [lib |-> lib, whole |-> FALSE, order |-> <<1, 2, 3, 4>>, ret |-> ret, s1 |-> s1, s2 |-> s2, s3 |-> s3]

All == DOMAIN Statements \ MixedOnes

PlacePick(place, w) == StmtPick("rec", place, 1, w, 0)
FeaturePick(f) == [TypePick("rec", FALSE, <<1, 2, 3, 4>>) EXCEPT !.s1 = f]

MCPicks ==
    {FeaturePick(f) : f \in DOMAIN Features} \cup {PlacePick(place, w) : place \in {"q", "p", "main"}, w \in DOMAIN Wraps} \cup {PlacePick("odd", Len(Wraps) + o) : o \in DOMAIN OddBodies} \cup
    {TypePick(lib, whole, o) : lib \in DOMAIN LibTypes, whole \in BOOLEAN, o \in Orders}
      \cup {StmtPick("opaque", ret, 1, s2, s3) : ret \in {"", "CHAR"}, s2, s3 \in All}
      \cup {StmtPick("rec", ret, s1, s2, 1) : ret \in {"", "CHAR"}, s1, s2 \in All}
      \cup {StmtPick("rec", "CHAR", s1, 1, s3) : s1, s3 \in All}
      \cup {StmtPick(lib, ret, s1, s2, s3) : lib \in DOMAIN LibTypes, ret \in {"", "CHAR"}, s1 \in {1, 7}, s2 \in MixedOnes, s3 \in {1, 13}}
      \cup {StmtPick(lib, "CHAR", s1, s2, s3) : lib \in DOMAIN LibTypes, s1 \in {1, 2}, s2 \in {1, 15}, s3 \in MixedOnes}

Program(defs, impls, main, legal) == [defs |-> defs, impls |-> impls, main |-> main, legal |-> legal]

MCProgramOf(p) ==
    CASE p.s1 = 0 -> Program([L |-> DefL(p.lib), K |-> DefK(p.whole), J |-> DefJ], [L |-> ImplL(p.lib), K |-> ImplK], TypesMain(p), TRUE)
      [] p.s1 # 0 /\ p.s2 = 0 -> Program([L |-> DefL(p.lib)], [L |-> ImplL(p.lib)], FeatureMain(Features[p.s1]), TRUE)
      [] p.s1 # 0 /\ p.s2 # 0 /\ p.s3 = 0 ->
            Program([L |-> DefL(p.lib), J |-> DefJ], [L |-> ImplL(p.lib), J |-> ImplJ], PlacesMain(p), TRUE)
      [] OTHER -> Program([L |-> DefL(p.lib)], [L |-> ImplL(p.lib)], StmtsMain(p), FALSE)
=============================================================================
