------------------------------ MODULE Grammar ------------------------------
(***************************************************************************)
(* The language as docs/lang/grammar.md gives it: Text(tree) is the        *)
(* sequence of tokens the grammar derives for a tree of module Parser.     *)
(* OBJECT types are given twice, as the parser reads them (METHODS, and    *)
(* overrides that name a procedure) and, under "objectdoc", as grammar.md  *)
(* writes them; named parameters of procedure types are the parser's own.  *)
(***************************************************************************)
EXTENDS Parser

K(k) == <<[k |-> k, v |-> ""]>>
V(k, v) == <<[k |-> k, v |-> v]>>

Concat(texts) == FoldLeft(LAMBDA a, b : a \o b, <<>>, texts)
JoinBy(texts, sep) ==
    IF texts = <<>> THEN <<>> ELSE FoldLeft(LAMBDA a, b : a \o K(sep) \o b, texts[1], Tail(texts))

\* Expr, AndExpr, Relation, SimpleExpr, Term and Factor are levels 1 to 6.
Level(e) ==
    CASE e.k = "bin" -> (CASE e.v = "OR"                       -> 1
                           [] e.v = "AND"                      -> 2
                           [] e.v \in RelOps                   -> 3
                           [] e.v \in {"+", "-"}               -> 4
                           [] e.v \in {"*", "/", "DIV", "MOD"} -> 5)
      [] e.k = "un" -> IF e.v = "NOT" THEN 6 ELSE 4
      [] OTHER -> 6

RECURSIVE Text(_)

\* An operand of a level too low is put in parentheses.
Operand(e, level) == IF Level(e) < level THEN K("(") \o Text(e) \o K(")") ELSE Text(e)

BinText(e) ==
    LET l == Level(e)
        left == IF l = 3 THEN 4 ELSE l
    IN  Operand(e.c[1], left) \o K(e.v) \o Operand(e.c[2], l + 1)

Child(t, k) == SelectSeq(t.c, LAMBDA x : x.k = k)
Texts(s) == [i \in DOMAIN s |-> Text(s[i])]
All(t) == Concat(Texts(t.c))
List(t, sep) == JoinBy(Texts(t.c), sep)
From(t, i) == Texts(SubSeq(t.c, i, Len(t.c)))
Opt(t, k) == Concat(Texts(Child(t, k)))

\* The parts of a tree other than its "else".
Others(t, i) == SelectSeq(SubSeq(t.c, i, Len(t.c)), LAMBDA x : x.k # "else")

\* Parameters and result.
Params(t, i, sep) ==
    LET rest == SubSeq(t.c, i, Len(t.c))
        ps == SelectSeq(rest, LAMBDA x : x.k = "param")
    IN  IF ps = <<>> /\ Child(t, "result") = <<>> THEN <<>>
        ELSE K("(") \o JoinBy(Texts(ps), sep) \o K(")") \o Opt(t, "result")

\* The keyword of the section a declaration stands in.
Keyword(d) ==
    CASE d.k = "const" -> K("CONST") [] d.k = "typedecl" -> K("TYPE") [] d.k = "var" -> K("VAR") [] OTHER -> <<>>

\* The name, then ";" after the priority if there is one.
Header(t) ==
    Text(t.c[1]) \o Opt(t, "priority") \o K(";") \o Opt(t, "import") \o Opt(t, "from") \o Opt(t, "export")

StatementText(t) ==
    CASE t.k = "assign" -> Text(t.c[1]) \o K(":=") \o Text(t.c[2])
      [] t.k = "pcall"  -> All(t)
      [] t.k = "if"     -> K("IF") \o Text(t.c[1]) \o K("THEN") \o Concat(From(t, 2)) \o K("END")
      [] t.k = "elsif"  -> K("ELSIF") \o Text(t.c[1]) \o K("THEN") \o Text(t.c[2])
      [] t.k = "else"   -> K("ELSE") \o Text(t.c[1])
      [] t.k = "case"   -> K("CASE") \o Text(t.c[1]) \o K("OF")
                             \o JoinBy(Texts(Others(t, 2)), "|") \o Opt(t, "else") \o K("END")
      [] t.k = "branch" -> Concat(Texts(Front(t.c))) \o K(":") \o Text(Last(t.c))
      [] t.k = "typecase" -> K("TYPECASE") \o Text(t.c[1]) \o K("OF")
                             \o JoinBy(Texts(Others(t, 2)), "|") \o Opt(t, "else") \o K("END")
      [] t.k = "bind"   -> K("(") \o Text(t.c[1]) \o K(")")
      [] t.k = "while"  -> K("WHILE") \o Text(t.c[1]) \o K("DO") \o Text(t.c[2]) \o K("END")
      [] t.k = "lock"   -> K("LOCK") \o Text(t.c[1]) \o K("DO") \o Text(t.c[2]) \o K("END")
      [] t.k = "with"   -> K("WITH") \o Text(t.c[1]) \o K("DO") \o Text(t.c[2]) \o K("END")
      [] t.k = "repeat" -> K("REPEAT") \o Text(t.c[1]) \o K("UNTIL") \o Text(t.c[2])
      [] t.k = "for"    -> K("FOR") \o Text(t.c[1]) \o K(":=") \o Text(t.c[2]) \o K("TO") \o Text(t.c[3])
                             \o Opt(t, "by") \o K("DO") \o Text(Last(t.c)) \o K("END")
      [] t.k = "by"     -> K("BY") \o Text(t.c[1])
      [] t.k = "loop"   -> K("LOOP") \o Text(t.c[1]) \o K("END")
      [] t.k = "return" -> K("RETURN") \o All(t)
      [] t.k = "raise"  -> K("RAISE") \o All(t)
      [] t.k = "exit"   -> K("EXIT")
      [] t.k = "retry"  -> K("RETRY")
      [] t.k = "try"    -> K("TRY") \o All(t) \o K("END")
      [] t.k = "except" -> K("EXCEPT") \o Concat(Texts(Front(t.c)))
                             \o (IF Len(t.c) > 1 THEN K("DO") ELSE <<>>) \o Text(Last(t.c))
      [] t.k = "finally" -> K("FINALLY") \o Text(t.c[1])
      [] t.k = "empty"  -> <<>>

TypeText(t) ==
    CASE t.k = "array"    -> K("ARRAY") \o List(t.c[1], ",") \o K("OF") \o Text(t.c[2])
      [] t.k = "record"   -> K("RECORD") \o Text(t.c[1]) \o K("END")
      [] t.k = "fields"   -> Concat([i \in DOMAIN t.c |-> Text(t.c[i]) \o K(";")])
      [] t.k = "variants" -> K("CASE") \o Text(t.c[1]) \o K("OF")
                               \o JoinBy(Texts(Others(t, 2)), "|") \o Opt(t, "else") \o K("END")
      [] t.k = "tag"      -> Text(t.c[1]) \o K(":") \o Text(t.c[2])
      [] t.k = "variant"  -> Text(t.c[1]) \o K(":") \o Text(t.c[2])
      [] t.k = "setof"    -> K("SET") \o K("OF") \o Text(t.c[1])
      [] t.k = "pointer"  -> K("POINTER") \o K("TO") \o Text(t.c[1])
      [] t.k = "ref"      -> K("REF") \o Text(t.c[1])
      [] t.k = "branded"  -> K("BRANDED") \o Concat(Texts(Front(t.c))) \o K("REF") \o Text(Last(t.c))
      [] t.k = "refany"   -> K("REFANY")
      [] t.k = "object"   ->
            Opt(t, "id") \o Opt(t, "qual") \o K("OBJECT") \o Concat([i \in DOMAIN Child(t, "field") |-> Text(Child(t, "field")[i]) \o K(";")])
              \o (IF Child(t, "method") = <<>> THEN <<>> ELSE K("METHODS") \o Opt(t, "method"))
              \o (IF Child(t, "override") = <<>> THEN <<>> ELSE K("OVERRIDES") \o Opt(t, "override")) \o K("END")
      [] t.k = "objectdoc" -> Opt(t, "qual") \o K("OBJECT") \o Opt(t, "method") \o K("END")
      [] t.k = "method"   -> Text(t.c[1]) \o Params(t, 2, ";") \o K(";")
      [] t.k = "override" -> Text(t.c[1]) \o K(":=") \o Text(t.c[2]) \o K(";")
      [] t.k = "proctype" -> K("PROCEDURE") \o Params(t, 1, ",")
      [] t.k = "enum"     -> K("(") \o List(t, ",") \o K(")")
      [] t.k = "subrange" -> K("[") \o Text(t.c[1]) \o K("..") \o Text(t.c[2]) \o K("]")
      [] t.k = "open"     -> K("ARRAY") \o K("OF") \o Text(t.c[1])
      [] t.k = "VAR"      -> K("VAR")
      [] t.k = "param"    -> IF Last(Front(<<t>> \o t.c)).k = "names"
                             THEN Concat(Texts(Front(t.c))) \o K(":") \o Text(Last(t.c)) ELSE All(t)
      [] t.k = "result"   -> K(":") \o Text(t.c[1])
      [] t.k = "names"    -> List(t, ",")

DeclText(t) ==
    CASE t.k = "const"    -> Text(t.c[1]) \o K("=") \o Text(t.c[2]) \o K(";")
      [] t.k = "typedecl" -> Text(t.c[1]) \o (IF Len(t.c) = 2 THEN K("=") \o Text(t.c[2]) ELSE <<>>) \o K(";")
      [] t.k = "var"      -> Text(t.c[1]) \o K(":") \o Text(t.c[2]) \o K(";")
      [] t.k = "exception" -> K("EXCEPTION") \o Text(t.c[1]) \o K(";")
      [] t.k = "heading"  -> K("PROCEDURE") \o Text(t.c[1]) \o Params(t, 2, ";") \o Opt(t, "raises")
      [] t.k = "raises"   -> V("ident", "RAISES") \o K("{") \o List(t, ",") \o K("}")
      [] t.k = "proc"     -> Text(t.c[1]) \o K(";") \o Text(t.c[2]) \o V("ident", t.c[1].c[1].v) \o K(";")
      [] t.k = "decls"    -> Concat([i \in DOMAIN t.c |-> Keyword(t.c[i]) \o Text(t.c[i])])
      [] t.k = "block"    -> All(t) \o K("END")
      [] t.k = "begin"    -> K("BEGIN") \o Text(t.c[1])
      [] t.k = "priority" -> K("[") \o Text(t.c[1]) \o K("]")
      [] t.k = "import"   -> K("IMPORT") \o List(t, ",") \o K(";")
      [] t.k = "from"     -> K("FROM") \o Text(t.c[1]) \o K("IMPORT") \o JoinBy(From(t, 2), ",") \o K(";")
      [] t.k = "as"       -> Text(t.c[1]) \o K("AS") \o Text(t.c[2])
      [] t.k = "export"   -> K("EXPORT") \o (IF t.v = "" THEN <<>> ELSE K(t.v)) \o List(t, ",") \o K(";")

Name(t) == V("ident", t.c[1].v)

Safety(t) == IF t.v = "" THEN <<>> ELSE K(t.v)

UnitText(t) ==
    CASE t.k = "module" -> Safety(t) \o K("MODULE") \o Header(t) \o Text(Last(t.c)) \o Name(t) \o K(".")
      [] t.k = "impl"   -> Safety(t) \o K("IMPLEMENTATION") \o K("MODULE") \o Header(t) \o Text(Last(t.c)) \o Name(t) \o K(".")
      [] t.k = "local"  -> K("MODULE") \o Header(t) \o Text(Last(t.c)) \o Name(t) \o K(";")
      [] t.k = "def"    ->
            Safety(t) \o K("DEFINITION") \o K("MODULE") \o Header(t)
              \o Concat([i \in DOMAIN t.c |->
                    IF t.c[i].k \in {"const", "typedecl", "var", "exception"} THEN Keyword(t.c[i]) \o Text(t.c[i])
                    ELSE IF t.c[i].k = "heading" THEN Text(t.c[i]) \o K(";") ELSE <<>>])
              \o K("END") \o Name(t) \o K(".")

ExprText(t) ==
    CASE t.k = "id"    -> V("ident", t.v)
      [] t.k \in {"int", "real", "string", "char"} -> V(t.k, t.v)
      [] t.k = "qual"  -> Text(t.c[1]) \o K(".") \o Text(t.c[2])
      [] t.k = "bin"   -> BinText(t)
      [] t.k = "un"    -> K(t.v) \o Operand(t.c[1], IF t.v = "NOT" THEN 6 ELSE 5)
      [] t.k = "set"   -> LET typed == Child(t, "id") # <<>> \/ Child(t, "qual") # <<>>
                          IN  (IF typed THEN Text(t.c[1]) ELSE <<>>) \o K("{")
                                \o JoinBy(From(t, IF typed THEN 2 ELSE 1), ",") \o K("}")
      [] t.k = "range" -> Text(t.c[1]) \o K("..") \o Text(t.c[2])
      [] t.k = "call"  -> All(t)
      [] t.k = "args"  -> K("(") \o List(t, ",") \o K(")")
      [] t.k = "deref" -> All(t) \o K("^")
      [] t.k = "desig" -> All(t)
      [] t.k = "sel"   -> K(".") \o Text(t.c[1])
      [] t.k = "index" -> K("[") \o List(t, ",") \o K("]")
      [] t.k = "labels" -> List(t, ",")
      [] t.k = "types" -> List(t, ",")
      [] t.k = "field" -> Text(t.c[1]) \o K(":") \o Text(t.c[2])
      [] t.k = "stmts" -> List(t, ";")

ExprKinds == {"id", "int", "real", "string", "char", "qual", "bin", "un", "set", "range", "call", "args",
              "deref", "desig", "sel", "index", "labels", "types", "field", "stmts"}
TypeKinds == {"array", "record", "fields", "variants", "tag", "variant", "setof", "pointer", "ref", "branded",
              "refany", "object", "objectdoc", "method", "override", "proctype", "enum", "subrange", "open", "VAR", "param",
              "result", "names"}
DeclKinds == {"const", "typedecl", "var", "exception", "heading", "raises", "proc", "decls", "block", "begin",
              "priority", "import", "from", "as", "export"}
UnitKinds == {"module", "impl", "local", "def"}

Text(t) ==
    CASE t.k \in ExprKinds -> ExprText(t)
      [] t.k \in TypeKinds -> TypeText(t)
      [] t.k \in DeclKinds -> DeclText(t)
      [] t.k \in UnitKinds -> UnitText(t)
      [] OTHER             -> StatementText(t)
=============================================================================
