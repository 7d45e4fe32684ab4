----------------------------- MODULE MCParsing -----------------------------
(***************************************************************************)
(* Trees for Parsing: every production of the grammar in at least one, and *)
(* the pairs of operators whose precedence matters; and every form that   *)
(* the parser refuses or reads as something else.                          *)
(***************************************************************************)
EXTENDS Parsing

Id(x) == Tree("id", x, <<>>)
Var(x) == Tree("desig", "", <<Id(x)>>)
a == Var("a")
b == Var("b")
c == Var("c")
One == Tree("int", "1", <<>>)
Bin(op, x, y) == Tree("bin", op, <<x, y>>)
Un(op, x) == Tree("un", op, <<x>>)
Args(s) == Tree("args", "", s)
Sel(x) == Tree("sel", "", <<Id(x)>>)
Range1(x, y) == Tree("range", "", <<x, y>>)

Ops == {"OR", "AND", "=", "IN", "+", "-", "*", "DIV"}

Exprs ==
    {Bin(o1, Bin(o2, a, b), c) : o1, o2 \in Ops} \cup {Bin(o1, a, Bin(o2, b, c)) : o1, o2 \in Ops}
      \cup {Un("NOT", a), Un("-", a), Un("NOT", Bin("AND", a, b)), Bin("+", Un("-", a), b),
            Bin("AND", Un("NOT", a), b), Bin("*", a, Un("NOT", b))}

\* Trees of the grammar that the parser refuses or takes for others.
QualS == Tree("qual", "", <<Id("M"), Id("S")>>)
OddExprs == {Un("NOT", Un("NOT", a)), Un("-", Bin("MOD", a, b)), Bin("+", Un("-", Bin("*", Bin("DIV", a, b), c)), a),
             Tree("set", "", <<QualS, One>>)}

Primaries ==
    {One, Tree("real", "1.5", <<>>), Tree("string", "s", <<>>), Tree("char", "c", <<>>),
     Tree("set", "", <<>>), Tree("set", "", <<Id("S"), One, Range1(One, a)>>),
     Tree("call", "", <<Var("f"), Args(<<>>)>>), Tree("call", "", <<Var("f"), Args(<<a, One>>)>>),
     Tree("deref", "", <<Tree("call", "", <<Var("f"), Args(<<a>>)>>)>>),
     Tree("desig", "", <<Id("r"), Sel("x"), Tree("index", "", <<a, One>>), Tree("deref", "", <<>>)>>)}

----------------------------------------------------------------------------
Stmts(s) == Tree("stmts", "", s)
Empty == Tree("empty", "", <<>>)
Call(f) == Tree("pcall", "", <<Var(f)>>)
Assign == Tree("assign", "", <<a, One>>)
Two == Stmts(<<Assign, Call("f")>>)
Else == Tree("else", "", <<Two>>)
Branch(label, body) == Tree("branch", "", <<Tree("labels", "", <<label>>), body>>)
Return == Tree("return", "", <<>>)
Raise == Tree("raise", "", <<>>)
Except(s) == Tree("except", "", s)

Statements ==
    {Empty, Assign, Call("f"), Return, Raise, Tree("exit", "", <<>>), Tree("retry", "", <<>>),
     Tree("pcall", "", <<Var("f"), Args(<<a>>)>>),
     Tree("assign", "", <<Tree("desig", "", <<Var("T"), Args(<<a>>), Tree("deref", "", <<>>)>>), One>>),
     Tree("return", "", <<a>>), Tree("raise", "", <<a>>),
     Tree("if", "", <<a, Stmts(<<Return>>), Tree("elsif", "", <<b, Stmts(<<Raise>>)>>), Else>>),
     Tree("if", "", <<a, Stmts(<<Empty>>)>>),
     Tree("case", "", <<a, Branch(One, Stmts(<<Return>>)), Branch(Range1(One, One), Two), Else>>),
     Tree("case", "", <<a, Branch(One, Two)>>),
     Tree("while", "", <<a, Two>>), Tree("lock", "", <<a, Two>>), Tree("with", "", <<a, Two>>),
     Tree("repeat", "", <<Stmts(<<Return>>), a>>), Tree("loop", "", <<Stmts(<<Assign, Empty>>)>>),
     Tree("for", "", <<Id("i"), One, a, Two>>),
     Tree("for", "", <<Id("i"), One, a, Tree("by", "", <<One>>), Two>>),
     Tree("try", "", <<Two, Except(<<Id("E"), Two>>), Except(<<Two>>), Tree("finally", "", <<Two>>)>>),
     Tree("try", "", <<Two, Except(<<Id("E"), Tree("bind", "", <<Id("x")>>), Two>>)>>),
     Tree("typecase", "", <<a, Tree("branch", "", <<Tree("types", "", <<Id("T"), Tree("qual", "", <<Id("M"), Id("T")>>)>>),
                                                   Tree("bind", "", <<Id("x")>>), Two>>), Else>>)}

OddStatements ==
    {Tree("try", "", <<Stmts(<<Return>>), Except(<<Two>>)>>), Tree("try", "", <<Two, Except(<<Stmts(<<Raise>>)>>), Except(<<Two>>)>>),
     Tree("repeat", "", <<Stmts(<<Assign, Raise>>), a>>)}

----------------------------------------------------------------------------
Integer == Id("INTEGER")
Names(s) == Tree("names", "", s)
Field(x) == Tree("field", "", <<Names(<<Id(x)>>), Integer>>)
Fields(s) == Tree("fields", "", s)
Subrange == Tree("subrange", "", <<One, One>>)
Var1 == Tree("VAR", "", <<>>)
Param(s) == Tree("param", "", s)
Open == Tree("open", "", <<Integer>>)
Result == Tree("result", "", <<Integer>>)
Variant == Tree("variant", "", <<Tree("labels", "", <<One>>), Fields(<<Field("x")>>)>>)

Types ==
    {Integer, Tree("qual", "", <<Id("M"), Id("T")>>), Subrange, Tree("refany", "", <<>>),
     Tree("array", "", <<Tree("indices", "", <<Subrange, Integer>>), Integer>>),
     Tree("record", "", <<Fields(<<Field("x"), Tree("field", "", <<Names(<<Id("y"), Id("z")>>), Integer>>)>>)>>),
     Tree("record", "", <<Fields(<<Tree("variants", "", <<Tree("tag", "", <<Id("t"), Integer>>), Variant, Variant,
                                        Tree("else", "", <<Fields(<<>>)>>)>>)>>)>>),
     Tree("setof", "", <<Integer>>), Tree("pointer", "", <<Integer>>), Tree("ref", "", <<Integer>>),
     Tree("branded", "", <<Tree("string", "s", <<>>), Integer>>),
     Tree("object", "", <<Id("Base"), Field("x"), Tree("method", "", <<Id("m"), Result>>),
                          Tree("override", "", <<Id("n"), Id("p")>>)>>),
     Tree("proctype", "", <<>>), Tree("proctype", "", <<Param(<<Integer>>), Param(<<Open>>), Result>>),
     Tree("proctype", "", <<Param(<<Var1, Integer>>)>>),
     Tree("record", "", <<Fields(<<Tree("variants", "", <<Id("T"), Variant>>)>>)>>),
     Tree("proctype", "", <<Param(<<Names(<<Id("x"), Id("y")>>), Integer>>)>>),
     Tree("enum", "", <<Id("red"), Id("blue")>>)}

OddTypes ==
    {Tree("record", "", <<Fields(<<Tree("variants", "", <<QualS, Variant>>)>>)>>),
     Tree("objectdoc", "", <<QualS, Tree("method", "", <<Id("m"), Result>>)>>),
     Tree("proctype", "", <<Param(<<Var1, Names(<<Id("x"), Id("y")>>), Integer>>)>>)}

----------------------------------------------------------------------------
Block(decls, s) == Tree("block", "", <<Tree("decls", "", decls), Tree("begin", "", <<Stmts(s)>>)>>)
Bare(decls) == Tree("block", "", <<Tree("decls", "", decls)>>)
Module(parts) == Tree("module", "", <<Id("M")>> \o parts)

Heading == Tree("heading", "", <<Id("p"), Param(<<Var1, Names(<<Id("x")>>), Integer>>), Param(<<Names(<<Id("y"), Id("z")>>), Open>>),
                                 Result, Tree("raises", "", <<Id("E")>>)>>)
Proc == Tree("proc", "", <<Heading, Block(<<Tree("var", "", <<Names(<<Id("v")>>), Integer>>)>>, <<Tree("return", "", <<a>>)>>)>>)
Import == Tree("import", "", <<Id("N"), Id("O")>>)
FromN == Tree("from", "", <<Id("N"), Id("x"), Tree("as", "", <<Id("y"), Id("z")>>)>>)
Export1 == Tree("export", "QUALIFIED", <<Id("e")>>)
Exception == Tree("exception", "", <<Id("E")>>)
TypeDecl == Tree("typedecl", "", <<Id("T"), Integer>>)

Structures ==
    {Module(<<Import, FromN, Bare(<<Exception, TypeDecl, Proc>>)>>),
     Module(<<Tree("priority", "", <<One>>),
              Tree("block", "", <<Tree("decls", "", <<>>), Tree("begin", "", <<Two>>), Except(<<Two>>),
                                  Tree("finally", "", <<Two>>)>>)>>),
     Module(<<Bare(<<Tree("local", "", <<Id("L"), Import, Export1, Block(<<Proc>>, <<Assign>>)>>)>>)>>),
     Tree("module", "SAFE", <<Id("M"), Bare(<<TypeDecl>>)>>),
     Tree("def", "", <<Id("M"), Export1, Export1, TypeDecl>>),
     Tree("impl", "", <<Id("M"), FromN, Block(<<Proc>>, <<Assign>>)>>),
     Tree("def", "", <<Id("M"), Import, Export1, Tree("const", "", <<Id("k"), One>>), Tree("typedecl", "", <<Id("T")>>),
                       TypeDecl, Tree("var", "", <<Names(<<Id("v")>>), Integer>>), Heading, Exception>>)}

WithExpr(e) == Module(<<Block(<<Tree("const", "", <<Id("k"), e>>)>>, <<Tree("while", "", <<e, Two>>)>>)>>)
WithStatement(s) == Module(<<Block(<<>>, <<s, s>>)>>)
WithType(t) == Module(<<Bare(<<Tree("typedecl", "", <<Id("T"), t>>), Tree("var", "", <<Names(<<Id("v")>>), t>>)>>)>>)

MCUnits ==
    {WithExpr(e) : e \in Exprs \cup Primaries \cup OddExprs} \cup {WithStatement(s) : s \in Statements \cup OddStatements}
      \cup {WithType(t) : t \in Types \cup OddTypes} \cup Structures

Keywords == {";", "END", "(", ",", ".", "|", "+", "VAR", "EXCEPT"}
MCInsertable == {[k |-> "ident", v |-> "z"]} \cup {[k |-> x, v |-> ""] : x \in Keywords}
=============================================================================
