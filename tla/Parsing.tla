------------------------------ MODULE Parsing ------------------------------
(***************************************************************************)
(* One compilation unit on its way through the parser.  The text is what   *)
(* the grammar derives for a tree; before it is parsed it may be damaged   *)
(* in one place, as a user does who is in the middle of typing.            *)
(***************************************************************************)
EXTENDS Grammar

CONSTANTS Units,       \* the trees whose text is parsed
          Insertable   \* tokens that are typed by mistake

VARIABLES unit,   \* the tree the text was derived from
          toks,   \* the text
          hurt,   \* the position of the damage, 0 if there is none
          res     \* the result of parse_compilation_unit

vars == <<unit, toks, hurt, res>>

NotParsed == [errs |-> <<>>, tree |-> Tree("none", "", <<>>)]

Init ==
    /\ unit \in Units
    /\ toks = Text(unit) \o K("eof")
    /\ hurt = 0
    /\ res = NotParsed

Untouched == hurt = 0 /\ res = NotParsed

\* The last token, "eof", stays.
Delete(i) ==
    /\ Untouched
    /\ toks' = SubSeq(toks, 1, i - 1) \o SubSeq(toks, i + 1, Len(toks))
    /\ hurt' = i
    /\ UNCHANGED <<unit, res>>

Insert(i, token) ==
    /\ Untouched
    /\ toks' = SubSeq(toks, 1, i - 1) \o <<token>> \o SubSeq(toks, i, Len(toks))
    /\ hurt' = i
    /\ UNCHANGED <<unit, res>>

Replace(i, token) ==
    /\ Untouched
    /\ token # toks[i]
    /\ toks' = [toks EXCEPT ![i] = token]
    /\ hurt' = i
    /\ UNCHANGED <<unit, res>>

Parsed == res # NotParsed

ParseText ==
    /\ ~Parsed
    /\ res' = ParseCompilationUnit(toks)
    /\ UNCHANGED <<unit, toks, hurt>>

Next ==
    \/ \E i \in 1..Len(toks) - 1 :
          \/ Delete(i)
          \/ \E token \in Insertable : Insert(i, token) \/ Replace(i, token)
    \/ ParseText

Spec == Init /\ [][Next]_vars

----------------------------------------------------------------------------
Accepted == Parsed /\ res.errs = <<>>

RECURSIVE Subtrees(_)
Subtrees(tree) == {tree} \cup UNION {Subtrees(tree.c[i]) : i \in DOMAIN tree.c}

Kinds(tree) == {t.k : t \in Subtrees(tree)}

\* A statement list, or the part t that holds one, ends in a statement of a
\* kind of ks without an expression.
EndsBare(t, ks) ==
    LET last == Last((IF t.k = "stmts" THEN t ELSE Last(t.c)).c) IN last.k \in ks /\ last.c = <<>>

\* The forms of grammar.md the parser refuses: NOT NOT x (parser.rs:1609); a
\* bare RETURN or RAISE before EXCEPT or FINALLY and a bare RAISE before UNTIL
\* (1191, 1431); a variant part on M.T without a tag (895); a second EXPORT
\* (294); methods without METHODS (1005).
Refused(tree) ==
    \E t \in Subtrees(tree) :
      \/ t.k = "un" /\ t.v = "NOT" /\ t.c[1].k = "un" /\ t.c[1].v = "NOT"
      \/ /\ t.k \in {"try", "block"}
         /\ \E i \in 1..Len(t.c) - 1 :
               t.c[i].k \in {"stmts", "begin", "except"} /\ EndsBare(t.c[i], {"return", "raise"})
      \/ t.k = "repeat" /\ EndsBare(t.c[1], {"raise"})
      \/ t.k = "variants" /\ t.c[1].k = "qual"
      \/ t.k = "def" /\ Len(Child(t, "export")) > 1
      \/ t.k = "objectdoc"

\* The forms the parser takes for another tree: a sign applies to the first
\* factor of the term it stands before, M.S{} is a set of M, and a procedure
\* type drops the VAR before several names.
RECURSIVE Reread(_)
Reread(t) ==
    LET kids == [i \in DOMAIN t.c |-> Reread(t.c[i])]
    IN  CASE t.k = "un" /\ t.v # "NOT" /\ t.c[1].k = "bin" /\ Level(t.c[1]) = 5 ->
               Tree("bin", t.c[1].v, <<Reread(Tree("un", t.v, <<t.c[1].c[1]>>)), Reread(t.c[1].c[2])>>)
          [] t.k = "set" /\ t.c # <<>> /\ t.c[1].k = "qual" -> [t EXCEPT !.c = <<t.c[1].c[1]>> \o Tail(kids)]
          [] t.k = "proctype" ->
               [t EXCEPT !.c = [i \in DOMAIN kids |->
                   IF kids[i].k = "param" /\ Len(kids[i].c) = 3 /\ Len(kids[i].c[2].c) > 1
                   THEN [kids[i] EXCEPT !.c = Tail(@)] ELSE kids[i]]]
          [] OTHER -> [t EXCEPT !.c = kids]


\* Tokens that say nothing about the tree: brackets, separators, the
\* keywords of the sections.
Layout == {"(", ")", ";", ",", "|", "CONST", "TYPE", "VAR"}

\* The VAR at i is the mode of a parameter: it stands in parentheses.
IsMode(text, i) ==
    LET open(k) == Cardinality({j \in 1..i : text[j].k = k})
    IN  text[i].k = "VAR" /\ open("(") > open(")")

\* The VAR at i that parse_proc_type_params eats and forgets: in a procedure
\* type, before a name, a comma and a colon in front of the next ; or ).
IsForgotten(text, i) ==
    LET opens == {j \in 1..i - 1 : text[j].k = "("}
        open == CHOOSE j \in opens : \A k \in opens : k <= j
        ends == {j \in i + 2..Len(text) : text[j].k \in {":", ")", ";", "eof"}}
        end == CHOOSE j \in ends : \A k \in ends : j <= k
    IN  /\ IsMode(text, i)
        /\ open > 1 /\ text[open - 1].k = "PROCEDURE"
        /\ text[i + 1].k = "ident" /\ text[i + 2].k = "," /\ text[end].k = ":"

\* What a text says, without the modes at the positions lost.
Content(text, lost) ==
    LET marked == [i \in DOMAIN text |->
                      IF IsMode(text, i) /\ i \notin lost THEN [text[i] EXCEPT !.k = "mode"] ELSE text[i]]
    IN  SelectSeq(marked, LAMBDA x : x.k \notin Layout)

\* Two nodes do not keep the name in front of them: INTEGER[0..5] is the
\* subrange alone, and M.S{} the set of M.
Lossy == {"subrange", "set"}

\* A text that is accepted, damaged or not, lost nothing on the way but the
\* VAR of PROCEDURE (VAR x, y: T): the text of the tree has the names,
\* literals, operators and modes of the source in the same order, the names
\* after END included.  The parser stops at the dot that ends the unit and
\* does not look at what follows it.
NothingDropped ==
    (Accepted /\ Kinds(res.tree) \cap Lossy = {}) =>
        IsPrefix(Content(Text(res.tree), {}),
                 Content(toks, {i \in DOMAIN toks : toks[i].k = "VAR" /\ IsForgotten(toks, i)}))

\* An error is never reported before the damage, whatever recovery does, and
\* never without damage, in the text of a tree without refused forms.  Two
\* places look ahead and may be wrong by what they saw: a dot without a name
\* after it is refused at the dot, and the parameters of a procedure type are
\* read as names when a colon follows.
ErrorNotEarly ==
    (Parsed /\ "proctype" \notin Kinds(unit) /\ ~Refused(unit)) =>
        \A i \in DOMAIN res.errs : hurt # 0 /\ res.errs[i] + 1 >= hurt
=============================================================================
