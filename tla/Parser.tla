------------------------------- MODULE Parser -------------------------------
(***************************************************************************)
(* The recursive-descent parser (parser.rs).                               *)
(*                                                                         *)
(* A token is [k, v]: its kind and, for names and literals, its value.  A  *)
(* parser state has the tokens t (the last is "eof"), the position pos, ok *)
(* (FALSE after an Err that no caller has handled yet, at position at),    *)
(* the recorded errors errs, the flag panic, and a stack stk of the trees  *)
(* built so far.  A parse function maps states to states, does nothing     *)
(* when ~ok (the ? operator), and pushes the tree it returns.  A tree is   *)
(* [k, v, c] with children c.                                              *)
(*                                                                         *)
(* Source locations other than those of errors, and the doc comments that  *)
(* Parser::new sets aside, are left out.                                   *)
(***************************************************************************)
EXTENDS Integers, Sequences, FiniteSets, SequencesExt

Tree(k, v, c) == [k |-> k, v |-> v, c |-> c]

NewParser(tokens) ==
    [t |-> tokens, pos |-> 1, ok |-> TRUE, at |-> 0, errs |-> <<>>, panic |-> FALSE, stk |-> <<>>]

Peek(p) == p.t[p.pos].k
At(p, k) == p.ok /\ Peek(p) = k
AtAny(p, ks) == p.ok /\ Peek(p) \in ks

\* The last token is never passed.
Advance(p) == [p EXCEPT !.pos = IF @ < Len(p.t) THEN @ + 1 ELSE @]

Fail(p) == [p EXCEPT !.ok = FALSE, !.at = p.pos]

Expect(p, k) == IF ~p.ok THEN p ELSE IF Peek(p) = k THEN Advance(p) ELSE Fail(p)

Push(p, x) == IF p.ok THEN [p EXCEPT !.stk = Append(@, x)] ELSE p

\* A leaf for the current token.
Leaf(p, k) == Advance(Push(p, Tree(k, p.t[p.pos].v, <<>>)))

ExpectIdent(p) == IF ~p.ok THEN p ELSE IF Peek(p) = "ident" THEN Leaf(p, "id") ELSE Fail(p)

\* The trees pushed since state from become the children of one tree.
Node(k, v, from, p) ==
    IF ~p.ok THEN p
    ELSE [p EXCEPT !.stk = Append(from.stk, Tree(k, v, SubSeq(@, Len(from.stk) + 1, Len(@))))]

RecordError(p) == [p EXCEPT !.errs = IF p.panic THEN @ ELSE Append(@, p.at), !.panic = TRUE]

SyncTokens ==
    {"IF", "WHILE", "REPEAT", "FOR", "LOOP", "WITH", "CASE", "RETURN", "EXIT", "TRY", "LOCK",
     "TYPECASE", "CONST", "TYPE", "VAR", "PROCEDURE", "MODULE", "BEGIN", "END", "eof"}

\* Skip to a synchronization point; a semicolon is passed.
Synchronize(p) ==
    LET stops == {i \in p.pos..Len(p.t) : p.t[i].k \in SyncTokens \cup {";"}}
        stop == CHOOSE i \in stops : \A j \in stops : i <= j
    IN  [p EXCEPT !.panic = FALSE, !.pos = IF p.t[stop].k = ";" THEN stop + 1 ELSE stop]

\* Err(e) => { record_error; synchronize }: what was parsed of it is dropped.
Recover(from, p) ==
    IF p.ok THEN p ELSE Synchronize([RecordError(p) EXCEPT !.ok = TRUE, !.stk = from.stk])

----------------------------------------------------------------------------
(* Parse(rule, p) calls the parse function of a rule.                      *)

RECURSIVE Parse(_, _)

\* rule { sep rule }
RECURSIVE SepBy(_, _, _)
SepBy(p, sep, rule) ==
    LET q == Parse(rule, p)
    IN  IF At(q, sep) THEN SepBy(Advance(q), sep, rule) ELSE q

\* while let k = peek() { rule }
RECURSIVE While(_, _, _)
While(p, k, rule) == IF At(p, k) THEN While(Parse(rule, p), k, rule) ELSE p

\* if eat(k) { rule }, as a child of its own
Optional(p, k, rule, node) == IF At(p, k) THEN Node(node, "", p, Parse(rule, Advance(p))) ELSE p

IdentList(p) == SepBy(p, ",", "ident")

\* [ "(" [ list ] ")" [ ":" type ] ]
ParamList(p, rule) ==
    IF ~At(p, "(") THEN p
    ELSE LET open == Advance(p)
             params == IF At(open, ")") THEN open ELSE Parse(rule, open)
         IN  Optional(Expect(params, ")"), ":", "qualident", "result")

\* M.x: the dot belongs to the name only when an identifier follows it.
ParseQualident(p) ==
    LET first == ExpectIdent(p)
    IN  IF At(first, ".") /\ first.pos < Len(p.t) /\ p.t[first.pos + 1].k = "ident"
        THEN Node("qual", "", p, ExpectIdent(Advance(first))) ELSE first

----------------------------------------------------------------------------
(* Expressions.                                                            *)

\* & is AND and <> is #.
OpOf(k) == IF k = "&" THEN "AND" ELSE IF k = "<>" THEN "#" ELSE k

RelOps == {"=", "#", "<>", "<", "<=", ">", ">=", "IN"}

\* rule { op rule }, to the left; from is the state before the first operand.
RECURSIVE Chain(_, _, _, _)
Chain(from, p, ops, rule) ==
    IF ~AtAny(p, ops) THEN p
    ELSE Chain(from, Node("bin", OpOf(Peek(p)), from, Parse(rule, Advance(p))), ops, rule)


\* To the left.
ParseOrExpr(p) == Chain(p, Parse("and", p), {"OR"}, "and")
ParseAndExpr(p) == Chain(p, Parse("rel", p), {"AND", "&"}, "rel")
ParseAddExpr(p) == Chain(p, Parse("mul", p), {"+", "-"}, "mul")
ParseMulExpr(p) == Chain(p, Parse("unary", p), {"*", "/", "DIV", "MOD"}, "unary")

\* Relations do not chain.
ParseRelExpr(p) ==
    LET q == Parse("add", p)
    IN  IF AtAny(q, RelOps) THEN Node("bin", OpOf(Peek(q)), p, Parse("add", Advance(q))) ELSE q

\* A sign or NOT applies to one factor.
ParseUnaryExpr(p) ==
    CASE AtAny(p, {"+", "-"})   -> Node("un", Peek(p), p, Parse("factor", Advance(p)))
      [] AtAny(p, {"NOT", "~"}) -> Node("un", "NOT", p, Parse("factor", Advance(p)))
      [] OTHER                  -> Parse("factor", p)

\* from is the state before the type name, if there is one.
ParseSetConstructor(from, p) ==
    LET open == Expect(p, "{")
        elems == IF At(open, "}") THEN open ELSE SepBy(open, ",", "element")
    IN  Node("set", "", from, Expect(elems, "}"))

Ranged(p) ==
    LET q == Parse("expr", p)
    IN  IF At(q, "..") THEN Node("range", "", p, Parse("expr", Advance(q))) ELSE q

\* Arguments in parentheses.
ParseArgs(p) ==
    LET open == Advance(p)
        args == IF At(open, ")") THEN open ELSE SepBy(open, ",", "expr")
    IN  Node("args", "", p, Expect(args, ")"))

RECURSIVE PostDeref(_, _)
PostDeref(from, p) ==
    IF At(p, "^") THEN PostDeref(from, Node("deref", "", from, Advance(p))) ELSE p

\* A set constructor keeps the first name of the designator before it only.
ParseFactorIdent(p) ==
    LET d == Parse("designator", p)
        base == Leaf(p, "id")
    IN  CASE At(d, "(") -> PostDeref(p, Node("call", "", p, ParseArgs(d)))
          [] At(d, "{") -> ParseSetConstructor(p, [d EXCEPT !.stk = base.stk])
          [] OTHER      -> d

ParseFactor(p) ==
    CASE AtAny(p, {"int", "real", "string", "char"}) -> Leaf(p, Peek(p))
      [] At(p, "(")     -> Expect(Parse("expr", Advance(p)), ")")
      [] At(p, "{")     -> ParseSetConstructor(p, p)
      [] At(p, "ident") -> ParseFactorIdent(p)
      [] OTHER          -> Fail(p)

\* Selectors, each pushed on its own.
RECURSIVE Selectors(_)
Selectors(p) ==
    CASE At(p, ".") -> Selectors(Node("sel", "", p, ExpectIdent(Advance(p))))
      [] At(p, "[") -> Selectors(Node("index", "", p, Expect(SepBy(Advance(p), ",", "expr"), "]")))
      [] At(p, "^") -> Selectors(Node("deref", "", p, Advance(p)))
      [] OTHER      -> p

ParseDesignator(p) == Node("desig", "", p, Selectors(ExpectIdent(p)))

----------------------------------------------------------------------------
(* Types.                                                                  *)

ParseSubrange(from, p, close) ==
    LET low == Parse("expr", p)
        high == Parse("expr", Expect(low, ".."))
    IN  Node("subrange", "", from, IF close = "" THEN high ELSE Expect(high, close))

ParseArrayType(p) ==
    LET index == Node("indices", "", p, SepBy(Expect(p, "ARRAY"), ",", "type"))
    IN  Node("array", "", p, Parse("type", Expect(index, "OF")))

ParseRecordType(p) == Node("record", "", p, Expect(Parse("fieldLists", Expect(p, "RECORD")), "END"))

RECURSIVE FieldListRest(_)
FieldListRest(p) ==
    IF ~At(p, ";") THEN p
    ELSE LET q == Advance(p) IN IF At(q, "END") THEN q ELSE FieldListRest(Parse("fieldList", q))

ParseFieldLists(p) ==
    Node("fields", "", p, IF At(p, "END") THEN p ELSE FieldListRest(Parse("fieldList", p)))

ParseField(p) == Node("field", "", p, Parse("type", Expect(Node("names", "", p, IdentList(p)), ":")))

\* One group of fields, a variant part, or nothing, which adds no tree.
ParseFieldList(p) ==
    CASE At(p, "CASE")  -> Parse("variantPart", p)
      [] At(p, "ident") -> ParseField(p)
      [] OTHER          -> p

RECURSIVE Variants(_)
Variants(p) ==
    IF AtAny(p, {"END", "ELSE"}) THEN p
    ELSE LET q == Parse("variant", p) IN IF At(q, "|") THEN Variants(Advance(q)) ELSE q

EatPipe(p) == IF At(p, "|") THEN Advance(p) ELSE p

ParseVariantPart(p) ==
    LET first == ExpectIdent(Expect(p, "CASE"))
        tag == IF At(first, ":") THEN Node("tag", "", p, Parse("qualident", Advance(first))) ELSE first
        alts == Variants(EatPipe(Expect(tag, "OF")))
    IN  Node("variants", "", p, Expect(Optional(alts, "ELSE", "fieldLists", "else"), "END"))

ParseVariant(p) ==
    LET labels == Node("labels", "", p, SepBy(p, ",", "label"))
    IN  Node("variant", "", p, Parse("fieldLists", Expect(labels, ":")))

ParseRefType(p) == Node("ref", "", p, Parse("type", Expect(p, "REF")))

ParseBrandedRefType(p) ==
    LET b == Expect(p, "BRANDED")
        brand == IF At(b, "string") THEN Leaf(b, "string") ELSE b
    IN  Node("branded", "", p, Parse("type", Expect(brand, "REF")))

\* OBJECT fields [METHODS ...] [OVERRIDES ...] END; parent, if any, is pushed.
ParseObjectType(from, p) ==
    LET fields == While(Expect(p, "OBJECT"), "ident", "objectField")
        methods == IF At(fields, "METHODS") THEN While(Advance(fields), "ident", "method") ELSE fields
        overrides == IF At(methods, "OVERRIDES") THEN While(Advance(methods), "ident", "override")
                     ELSE methods
    IN  Node("object", "", from, Expect(overrides, "END"))

ParseMethod(p) == Node("method", "", p, Expect(ParamList(ExpectIdent(p), "formalParams"), ";"))

ParseOverride(p) ==
    Node("override", "", p, Expect(Parse("qualident", Expect(ExpectIdent(p), ":=")), ";"))

ParseProcedureType(p) == Node("proctype", "", p, ParamList(Expect(p, "PROCEDURE"), "procTypeParams"))

\* A colon before the next ) or ; makes "a, b" names.
ColonAhead(p) ==
    LET ends == {i \in p.pos..Len(p.t) : p.t[i].k \in {":", ")", ";", "eof"}}
    IN  p.t[CHOOSE i \in ends : \A j \in ends : i <= j].k = ":"

\* A parameter of a procedure type may be a type alone.  VAR has been read
\* when a list of names is parsed again from its first name.
ParseProcTypeParam(p) ==
    LET start == IF At(p, "VAR") THEN Advance(Push(p, Tree("VAR", "", <<>>))) ELSE p
        name == ExpectIdent(start)
        unnamed == Node("param", "", p, Parse("formalType", start))
    IN  IF ~At(start, "ident") THEN unnamed
        ELSE IF At(name, ":")
        THEN Node("param", "", p, Parse("formalType", Advance(Node("names", "", start, name))))
        ELSE IF At(name, ",") /\ ColonAhead(name)
        THEN Parse("formalParam", [start EXCEPT !.stk = p.stk])
        ELSE unnamed

RECURSIVE ParseProcTypeParams(_)
ParseProcTypeParams(p) ==
    LET q == ParseProcTypeParam(p)
    IN  IF AtAny(q, {";", ","}) THEN ParseProcTypeParams(Advance(q)) ELSE q

ParseEnumerationType(p) == Node("enum", "", p, Expect(IdentList(Expect(p, "(")), ")"))

\* A name may begin a subrange or name the parent of an object.
ParseNamedType(p) ==
    LET q == ParseQualident(p)
    IN  CASE At(q, "..")     -> Node("subrange", "", p, Parse("expr", Advance(q)))
          [] At(q, "OBJECT") -> ParseObjectType(p, q)
          [] At(q, "[")      -> ParseSubrange(p, Advance([q EXCEPT !.stk = p.stk]), "]")
          [] OTHER           -> q

ParseType(p) ==
    CASE At(p, "ARRAY")     -> ParseArrayType(p)
      [] At(p, "RECORD")    -> ParseRecordType(p)
      [] At(p, "SET")       -> Node("setof", "", p, Parse("type", Expect(Advance(p), "OF")))
      [] At(p, "POINTER")   -> Node("pointer", "", p, Parse("type", Expect(Advance(p), "TO")))
      [] At(p, "PROCEDURE") -> ParseProcedureType(p)
      [] At(p, "(")         -> ParseEnumerationType(p)
      [] At(p, "[")         -> ParseSubrange(p, Advance(p), "]")
      [] At(p, "REF")       -> ParseRefType(p)
      [] At(p, "BRANDED")   -> ParseBrandedRefType(p)
      [] At(p, "REFANY")    -> Leaf(p, "refany")
      [] At(p, "OBJECT")    -> ParseObjectType(p, p)
      [] At(p, "ident")     -> ParseNamedType(p)
      [] AtAny(p, {"int", "char"}) -> ParseSubrange(p, p, "")
      [] OTHER              -> Fail(p)

ParseFormalType(p) ==
    CASE At(p, "ARRAY")  -> Node("open", "", p, Parse("formalType", Expect(Advance(p), "OF")))
      [] At(p, "REFANY") -> Leaf(p, "refany")
      [] OTHER           -> ParseQualident(p)

ParseFormalParam(p) ==
    LET start == IF At(p, "VAR") THEN Advance(Push(p, Tree("VAR", "", <<>>))) ELSE p
    IN  Node("param", "", p, Parse("formalType", Expect(Node("names", "", start, IdentList(start)), ":")))

----------------------------------------------------------------------------
(* Statements.                                                             *)

\* An error in a statement is recorded; after it the sequence goes on only
\* at a semicolon.
RecoverStatement(p) == Recover(p, Parse("statement", p))

RECURSIVE StatementRest(_)
StatementRest(p) == IF At(p, ";") THEN StatementRest(RecoverStatement(Advance(p))) ELSE p

ParseStatementSequence(p) == Node("stmts", "", p, StatementRest(RecoverStatement(p)))

\* A call, or a designator that goes on after the arguments: T(x)^ := e.
ParseAssignOrCall(p) ==
    LET d == ParseDesignator(p)
        assign(q) == Node("assign", "", p, Parse("expr", Expect(q, ":=")))
        called == ParseArgs(d)
        more == Node("desig", "", p, Selectors(called))
    IN  CASE At(d, ":=") -> assign(d)
          [] At(d, "(")  -> IF AtAny(called, {"^", ".", "["}) THEN assign(more)
                            ELSE Node("pcall", "", p, called)
          [] OTHER       -> Node("pcall", "", p, d)

RECURSIVE Elsifs(_)
Elsifs(p) ==
    IF ~At(p, "ELSIF") THEN p
    ELSE Elsifs(Node("elsif", "", p, Parse("stmts", Expect(Parse("expr", Advance(p)), "THEN"))))

ParseIf(p) ==
    LET then == Parse("stmts", Expect(Parse("expr", Expect(p, "IF")), "THEN"))
    IN  Node("if", "", p, Expect(Optional(Elsifs(then), "ELSE", "stmts", "else"), "END"))

\* Branches between OF and ELSE or END.
Branches(p, rule) == IF AtAny(p, {"END", "ELSE"}) THEN p ELSE SepBy(p, "|", rule)

ParseCase(p) ==
    LET of == Expect(Parse("expr", Expect(p, "CASE")), "OF")
        alts == Branches(EatPipe(of), "caseBranch")
    IN  Node("case", "", p, Expect(Optional(alts, "ELSE", "stmts", "else"), "END"))

ParseCaseBranch(p) ==
    LET labels == Node("labels", "", p, SepBy(p, ",", "label"))
    IN  Node("branch", "", p, Parse("stmts", Expect(labels, ":")))

ParseTypecase(p) ==
    LET of == Expect(Parse("expr", Expect(p, "TYPECASE")), "OF")
    IN  Node("typecase", "", p,
             Expect(Optional(Branches(of, "typecaseBranch"), "ELSE", "stmts", "else"), "END"))

\* ( name )
Binding(p) == IF At(p, "(") THEN Node("bind", "", p, Expect(ExpectIdent(Advance(p)), ")")) ELSE p

ParseTypecaseBranch(p) ==
    LET types == Node("types", "", p, SepBy(p, ",", "qualident"))
    IN  Node("branch", "", p, Parse("stmts", Expect(Binding(types), ":")))

\* head DO body END
DoBlock(k, from, head) == Node(k, "", from, Expect(Parse("stmts", Expect(head, "DO")), "END"))

ParseWhile(p) == DoBlock("while", p, Parse("expr", Expect(p, "WHILE")))
ParseLock(p) == DoBlock("lock", p, Parse("expr", Expect(p, "LOCK")))
ParseWith(p) == DoBlock("with", p, ParseDesignator(Expect(p, "WITH")))

ParseRepeat(p) == Node("repeat", "", p, Parse("expr", Expect(Parse("stmts", Expect(p, "REPEAT")), "UNTIL")))

ParseFor(p) ==
    LET low == Parse("expr", Expect(ExpectIdent(Expect(p, "FOR")), ":="))
        high == Parse("expr", Expect(low, "TO"))
    IN  DoBlock("for", p, Optional(high, "BY", "expr", "by"))

ParseLoop(p) == Node("loop", "", p, Expect(Parse("stmts", Expect(p, "LOOP")), "END"))

\* Mutant: END does not end a RETURN.
ReturnEndsShort == {";", "ELSE", "ELSIF", "UNTIL", "|", "eof"}

\* RETURN and RAISE stand alone before the tokens their functions list.
ReturnEnds == {";", "END", "ELSE", "ELSIF", "UNTIL", "|", "eof"}
RaiseEnds == {";", "END", "ELSE", "ELSIF", "|"}

ParseReturn(p) == LET q == Advance(p) IN Node("return", "", p, IF AtAny(q, ReturnEnds) THEN q ELSE Parse("expr", q))
ParseRaise(p) == LET q == Advance(p) IN Node("raise", "", p, IF AtAny(q, RaiseEnds) THEN q ELSE Parse("expr", q))

\* EXCEPT name DO and EXCEPT name (var) DO are handlers for an exception;
\* anything else after EXCEPT is the body of a catch-all.
Named(p) ==
    LET k(i) == IF p.pos + i <= Len(p.t) THEN p.t[p.pos + i].k ELSE "eof"
    IN  k(0) = "ident" /\ (k(1) = "DO" \/ <<k(1), k(2), k(3), k(4)>> = <<"(", "ident", ")", "DO">>)

ParseExcept(p) ==
    LET q == Expect(p, "EXCEPT")
        head == IF q.ok /\ Named(q) THEN Advance(Binding(ExpectIdent(q))) ELSE q
    IN  Node("except", "", p, Parse("stmts", head))

ParseTry(p) ==
    LET excepts == While(Parse("stmts", Expect(p, "TRY")), "EXCEPT", "except")
    IN  Node("try", "", p, Expect(Optional(excepts, "FINALLY", "stmts", "finally"), "END"))

ParseStatement(p) ==
    CASE At(p, "ident")    -> ParseAssignOrCall(p)
      [] At(p, "IF")       -> ParseIf(p)
      [] At(p, "CASE")     -> ParseCase(p)
      [] At(p, "WHILE")    -> ParseWhile(p)
      [] At(p, "REPEAT")   -> ParseRepeat(p)
      [] At(p, "FOR")      -> ParseFor(p)
      [] At(p, "LOOP")     -> ParseLoop(p)
      [] At(p, "WITH")     -> ParseWith(p)
      [] At(p, "RETURN")   -> ParseReturn(p)
      [] At(p, "EXIT")     -> Node("exit", "", p, Advance(p))
      [] At(p, "RETRY")    -> Node("retry", "", p, Advance(p))
      [] At(p, "RAISE")    -> ParseRaise(p)
      [] At(p, "TRY")      -> ParseTry(p)
      [] At(p, "LOCK")     -> ParseLock(p)
      [] At(p, "TYPECASE") -> ParseTypecase(p)
      [] OTHER             -> Push(p, Tree("empty", "", <<>>))

----------------------------------------------------------------------------
(* Declarations and modules.                                               *)

ParseConstDecl(p) == Node("const", "", p, Expect(Parse("expr", Expect(ExpectIdent(p), "=")), ";"))
ParseTypeDecl(p) == Node("typedecl", "", p, Expect(Parse("type", Expect(ExpectIdent(p), "=")), ";"))
ParseVarDecl(p) == Node("var", "", p, Expect(Parse("type", Expect(Node("names", "", p, IdentList(p)), ":")), ";"))

\* In a definition module a type may be opaque.
ParseTypeDeclDef(p) ==
    LET name == ExpectIdent(p)
    IN  Node("typedecl", "", p, Expect(IF At(name, "=") THEN Parse("type", Advance(name)) ELSE name, ";"))

\* [ RAISES { names } ]; RAISES is no keyword.
ParseRaises(p) ==
    IF ~(At(p, "ident") /\ p.t[p.pos].v = "RAISES") THEN p
    ELSE LET open == Expect(Advance(p), "{")
             names == IF At(open, "}") THEN open ELSE SepBy(open, ",", "qualident")
         IN  Node("raises", "", p, Expect(names, "}"))

ParseProcHeading(p) ==
    Node("heading", "", p, ParseRaises(ParamList(ExpectIdent(Expect(p, "PROCEDURE")), "formalParams")))

\* Mutant: the name after END is read and not compared.
AnyEndName(p, name) == IF ~p.ok THEN p ELSE IF Peek(p) # "ident" THEN Fail(p) ELSE Advance(p)

\* The name after END is the one after MODULE or PROCEDURE.
EndName(p, name) ==
    LET q == Advance(p)
    IN  IF ~p.ok THEN p ELSE IF Peek(p) # "ident" THEN Fail(p)
        ELSE IF p.t[p.pos].v = name THEN q ELSE Fail(q)

FirstName(from, p) == p.stk[Len(from.stk) + 1].v

ParseProcDecl(p) ==
    LET heading == ParseProcHeading(p)
        block == Parse("block", Expect(heading, ";"))
    IN  IF ~block.ok THEN block
        ELSE Node("proc", "", p, Expect(EndName(block, heading.stk[Len(p.stk) + 1].c[1].v), ";"))

\* A pragma other than EXPORTC is left for the heading to refuse.
TryConsumeExportcPragma(p) == IF At(p, "pragma") /\ p.t[p.pos].v = "EXPORTC" THEN Advance(p) ELSE p

RECURSIVE Section(_, _)
Section(p, rule) == IF At(p, "ident") THEN Section(Recover(p, Parse(rule, p)), rule) ELSE p

ParseException(p) == Node("exception", "", p, Expect(ExpectIdent(Advance(p)), ";"))

RECURSIVE Declarations(_)
Declarations(p) ==
    CASE At(p, "CONST") -> Declarations(Section(Advance(p), "const"))
      [] At(p, "TYPE")  -> Declarations(Section(Advance(p), "typedecl"))
      [] At(p, "VAR")   -> Declarations(Section(Advance(p), "var"))
      [] AtAny(p, {"pragma", "PROCEDURE"}) ->
            Declarations(Recover(p, Parse("proc", TryConsumeExportcPragma(p))))
      [] At(p, "MODULE")    -> Declarations(Recover(p, Parse("localModule", p)))
      [] At(p, "EXCEPTION") -> Declarations(ParseException(p))
      [] OTHER              -> p

ParseDeclarations(p) == Node("decls", "", p, Declarations(p))

ParseBlock(p) ==
    LET body == Optional(ParseDeclarations(p), "BEGIN", "stmts", "begin")
        except == Optional(body, "EXCEPT", "stmts", "except")
        finally == Optional(except, "FINALLY", "stmts", "finally")
    IN  Node("block", "", p, Expect(finally, "END"))

\* FROM M IMPORT a AS b, ...; only names taken from a module have aliases.
ParseImportName(p) == LET n == ExpectIdent(p) IN IF At(n, "AS") THEN Node("as", "", p, ExpectIdent(Advance(n))) ELSE n

ParseImport(p) ==
    IF At(p, "FROM")
    THEN Node("from", "", p, Expect(SepBy(Expect(ExpectIdent(Advance(p)), "IMPORT"), ",", "importName"), ";"))
    ELSE Node("import", "", p, Expect(IdentList(Expect(p, "IMPORT")), ";"))

RECURSIVE Imports(_)
Imports(p) == IF AtAny(p, {"IMPORT", "FROM"}) THEN Imports(ParseImport(p)) ELSE p

ParseExport(p) ==
    LET q == Expect(p, "EXPORT")
        start == IF At(q, "QUALIFIED") THEN Advance(q) ELSE q
    IN  Node("export", IF At(q, "QUALIFIED") THEN "QUALIFIED" ELSE "", p, Expect(IdentList(start), ";"))

Export(p) == IF At(p, "EXPORT") THEN ParseExport(p) ELSE p

\* [ "[" priority "]" ] ";"
Priority(p) ==
    Expect(IF At(p, "[") THEN Node("priority", "", p, Expect(Parse("expr", Advance(p)), "]")) ELSE p, ";")

\* Name, priority, imports, and for a local module the export list; a block.
ModuleBody(k, from, p, local, close) ==
    LET name == ExpectIdent(p)
        imports == Imports(Priority(name))
        block == Parse("block", IF local THEN Export(imports) ELSE imports)
    IN  IF ~block.ok THEN block
        ELSE Node(k, "", from, Expect(EndName(block, FirstName(from, block)), close))

ParseProgramModule(p) == ModuleBody("module", p, Expect(p, "MODULE"), FALSE, ".")
ParseLocalModule(p) == ModuleBody("local", p, Expect(p, "MODULE"), TRUE, ";")
ParseImplementationModule(p) ==
    ModuleBody("impl", p, Expect(Expect(p, "IMPLEMENTATION"), "MODULE"), FALSE, ".")

RECURSIVE Definitions(_)
Definitions(p) ==
    CASE At(p, "CONST") -> Definitions(While(Advance(p), "ident", "const"))
      [] At(p, "TYPE")  -> Definitions(While(Advance(p), "ident", "typedeclDef"))
      [] At(p, "VAR")   -> Definitions(While(Advance(p), "ident", "var"))
      [] AtAny(p, {"pragma", "PROCEDURE"}) ->
            Definitions(Expect(ParseProcHeading(TryConsumeExportcPragma(p)), ";"))
      [] At(p, "EXCEPTION") -> Definitions(ParseException(p))
      [] OTHER              -> p

ParseDefinitionModule(p) ==
    LET mod == Expect(Expect(p, "DEFINITION"), "MODULE")
        lang == IF ~At(mod, "FOR") THEN mod
                ELSE IF At(Advance(mod), "string") THEN Leaf(Advance(mod), "string") ELSE Fail(Advance(mod))
        name == ExpectIdent(lang)
        defs == Definitions(Export(Imports(Expect(name, ";"))))
    IN  IF ~defs.ok THEN defs
        ELSE Node("def", "", p, Expect(EndName(Expect(defs, "END"), Last(name.stk).v), "."))

Unit(p) ==
    CASE At(p, "DEFINITION")     -> ParseDefinitionModule(p)
      [] At(p, "IMPLEMENTATION") -> ParseImplementationModule(p)
      [] At(p, "MODULE")         -> ParseProgramModule(p)
      [] OTHER                   -> Fail(p)

\* The unit, or errors: those recorded, or else the one that ended the parse.
\* After SAFE or UNSAFE the one that ended it is returned at once (the ? of
\* parse_compilation_unit), and those recorded are not reported.
Outcome(p, safety) ==
    LET errs == IF ~p.ok /\ (p.errs = <<>> \/ safety # "") THEN <<p.at>> ELSE p.errs
    IN  [errs |-> errs,
         tree |-> IF errs = <<>> THEN [p.stk[1] EXCEPT !.v = safety] ELSE Tree("none", "", <<>>)]

ParseCompilationUnit(tokens) ==
    LET p == NewParser(tokens)
        safe == AtAny(p, {"SAFE", "UNSAFE"})
    IN  Outcome(Parse("unit", IF safe THEN Advance(p) ELSE p), IF safe THEN Peek(p) ELSE "")

Parse(rule, p) ==
    IF ~p.ok THEN p
    ELSE CASE rule = "ident"      -> ExpectIdent(p)
           [] rule = "qualident"  -> ParseQualident(p)
           [] rule = "expr"       -> ParseOrExpr(p)
           [] rule = "and"        -> ParseAndExpr(p)
           [] rule = "rel"        -> ParseRelExpr(p)
           [] rule = "add"        -> ParseAddExpr(p)
           [] rule = "mul"        -> ParseMulExpr(p)
           [] rule = "unary"      -> ParseUnaryExpr(p)
           [] rule = "factor"     -> ParseFactor(p)
           [] rule \in {"element", "label"} -> Ranged(p)
           [] rule = "designator" -> ParseDesignator(p)
           [] rule = "type"       -> ParseType(p)
           [] rule = "formalType" -> ParseFormalType(p)
           [] rule = "formalParam"  -> ParseFormalParam(p)
           [] rule = "formalParams" -> SepBy(p, ";", "formalParam")
           [] rule = "procTypeParams" -> ParseProcTypeParams(p)
           [] rule = "fieldLists" -> ParseFieldLists(p)
           [] rule = "fieldList"  -> ParseFieldList(p)
           [] rule = "variantPart" -> ParseVariantPart(p)
           [] rule = "variant"    -> ParseVariant(p)
           [] rule = "objectField" -> Expect(ParseField(p), ";")
           [] rule = "method"     -> ParseMethod(p)
           [] rule = "override"   -> ParseOverride(p)
           [] rule = "stmts"      -> ParseStatementSequence(p)
           [] rule = "statement"  -> ParseStatement(p)
           [] rule = "caseBranch" -> ParseCaseBranch(p)
           [] rule = "typecaseBranch" -> ParseTypecaseBranch(p)
           [] rule = "except"     -> ParseExcept(p)
           [] rule = "const"      -> ParseConstDecl(p)
           [] rule = "typedecl"   -> ParseTypeDecl(p)
           [] rule = "typedeclDef" -> ParseTypeDeclDef(p)
           [] rule = "var"        -> ParseVarDecl(p)
           [] rule = "proc"       -> ParseProcDecl(p)
           [] rule = "block"      -> ParseBlock(p)
           [] rule = "importName" -> ParseImportName(p)
           [] rule = "localModule" -> ParseLocalModule(p)
           [] rule = "unit"       -> Unit(p)
=============================================================================
