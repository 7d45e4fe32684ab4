------------------------------- MODULE Lexing -------------------------------
(***************************************************************************)
(* One text on its way through the lexer, a token at a time, and what its  *)
(* tokens should be.  The text is spelled from its parts: tokens,          *)
(* comments, and blocks that are compiled only with a feature; or it is a  *)
(* number, followed by anything.                                           *)
(***************************************************************************)
EXTENDS Lexer

CONSTANTS Sources,   \* the texts: sequences of parts
          Numbers,   \* texts that begin with a digit
          Features   \* the features they mention

VARIABLES parts,    \* what the text was spelled from, <<>> for a number
          text,
          opts,     \* the options of the lexer
          pos,      \* its position
          toks,     \* the tokens read
          status    \* "reading", "done" or "error"

vars == <<parts, text, opts, pos, toks, status>>

----------------------------------------------------------------------------
(* Parts: [k, s, v] is a token of kind k and value v, or nothing ("none"), *)
(* spelled s; [k |-> "block", f, then, else] a block, else <<>> or <<e>>.  *)

Pragma(name) == <<"(", "*", "$">> \o name \o <<"*", ")">>

RECURSIVE Spell(_)
Spell(ps) ==
    FlattenSeq([i \in DOMAIN ps |->
        IF ps[i].k # "block" THEN ps[i].s \o <<" ">>
        ELSE Pragma(<<"IF", " ", ps[i].f>>) \o Spell(ps[i].then)
             \o (IF ps[i].else = <<>> THEN <<>> ELSE Pragma(<<"ELSE">>) \o Spell(ps[i].else[1]))
             \o Pragma(<<"END">>)])

Init ==
    /\ \/ /\ parts \in Sources
          /\ text = Spell(parts)
          /\ opts \in [features : SUBSET Features, m2plus : BOOLEAN, caseSensitive : BOOLEAN]
       \/ /\ parts = <<>>
          /\ text \in Numbers
          /\ opts = [features |-> {}, m2plus |-> FALSE, caseSensitive |-> TRUE]
    /\ pos = 1
    /\ toks = <<>>
    /\ status = "reading"

Read(r) ==
    CASE r.k = "error" -> status' = "error" /\ UNCHANGED <<pos, toks>>
      [] r.k = "eof"   -> status' = "done" /\ UNCHANGED <<pos, toks>>
      [] OTHER         -> /\ toks' = Append(toks, [k |-> r.k, v |-> r.v])
                          /\ pos' = r.next
                          /\ UNCHANGED status

Tokenize ==
    /\ status = "reading"
    /\ Read(NextToken(text, pos, opts))
    /\ UNCHANGED <<parts, text, opts>>

Next == Tokenize

Spec == Init /\ [][Next]_vars

----------------------------------------------------------------------------
\* What is compiled of the parts.
RECURSIVE Compiled(_)
Compiled(ps) ==
    FlattenSeq([i \in DOMAIN ps |->
        CASE ps[i].k # "block" -> <<ps[i]>>
          [] ps[i].k = "block" /\ ps[i].f \in opts.features -> Compiled(ps[i].then)
          [] OTHER -> IF ps[i].else = <<>> THEN <<>> ELSE Compiled(ps[i].else[1])])

\* A word that is a keyword of the language chosen, in capitals, or a name.
Word(p) ==
    CASE p.s[1] \in Pim4Keywords \/ (opts.m2plus /\ p.s[1] \in M2PlusKeywords) -> [k |-> p.s[1], v |-> <<>>]
      [] OTHER -> [k |-> "ident", v |-> IF opts.caseSensitive THEN p.s ELSE <<Capital[p.s[1]]>>]

Meaning(ps) ==
    FlattenSeq([i \in DOMAIN ps |->
        CASE ps[i].k = "none" -> <<>>
          [] ps[i].k = "word" -> <<Word(ps[i])>>
          [] OTHER            -> <<[k |-> ps[i].k, v |-> ps[i].v]>>])

\* What is not.
RECURSIVE LeftOut(_)
All(ps) == Compiled(ps) \o LeftOut(ps)
LeftOut(ps) ==
    FlattenSeq([i \in DOMAIN ps |->
        CASE ps[i].k # "block" -> <<>>
          [] ps[i].k = "block" /\ ps[i].f \in opts.features ->
                LeftOut(ps[i].then) \o (IF ps[i].else = <<>> THEN <<>> ELSE All(ps[i].else[1]))
          [] OTHER -> All(ps[i].then) \o (IF ps[i].else = <<>> THEN <<>> ELSE LeftOut(ps[i].else[1]))])

\* The two comments of lexer.rs that have no end: a bracket within a string that
\* is left out opens one (lexer.rs:284), and the empty comment of four characters is
\* taken for the opening of a documentation comment (lexer.rs:90).
Unending ==
    \/ \E p \in Range(LeftOut(parts)) : p.k = "string" /\ \E i \in DOMAIN p.s : Pair(p.s, i) = <<"(", "*">>
    \/ \E p \in Range(Compiled(parts)) : p.s = <<"(", "*", "*", ")">>


----------------------------------------------------------------------------
(* The literals of the language, each with its value.                      *)

Upto(n) == SubSeq(text, 1, n)
Suffixed(n, base, suffix) == n > 1 /\ OnlyIn(Upto(n - 1), DigitsOf(base)) /\ text[n] \in suffix

\* d.d, or with an exponent.
IsReal(n) ==
    \E dot \in 2..n - 1 :
        /\ text[dot] = "."
        /\ OnlyIn(Upto(dot - 1), Decimal)
        /\ \/ OnlyIn(SubSeq(text, dot + 1, n), Decimal)
           \/ \E e \in dot + 2..n - 1 :
                /\ text[e] \in {"E", "D", "e", "d"}
                /\ OnlyIn(SubSeq(text, dot + 1, e - 1), Decimal)
                /\ \/ OnlyIn(SubSeq(text, e + 1, n), Decimal)
                   \/ e + 1 < n /\ text[e + 1] \in {"+", "-"} /\ OnlyIn(SubSeq(text, e + 2, n), Decimal)

\* The literals that the first n characters are: none or one.
LiteralsOf(n) ==
    (IF OnlyIn(Upto(n), Decimal) THEN {[k |-> "int", v |-> <<Value(Upto(n), 10)>>]} ELSE {})
    \cup (IF Suffixed(n, 16, {"H", "h"}) THEN {[k |-> "int", v |-> <<Value(Upto(n - 1), 16)>>]} ELSE {})
    \cup (IF Suffixed(n, 8, {"B", "b"}) THEN {[k |-> "int", v |-> <<Value(Upto(n - 1), 8)>>]} ELSE {})
    \cup (IF Suffixed(n, 8, {"C", "c"}) THEN {[k |-> "char", v |-> <<Value(Upto(n - 1), 8)>>]} ELSE {})
    \cup (IF IsReal(n) THEN {[k |-> "real", v |-> Upto(n)]} ELSE {})

InRange(l) == (l.k = "int" => l.v[1] <= MaxInt) /\ (l.k = "char" => l.v[1] \in 0..MaxChar \ Surrogates)

\* The token is the longest literal the text begins with.
LongestLiteral(n, l) ==
    /\ l \in LiteralsOf(n) /\ InRange(l)
    /\ \A m \in n + 1..Len(text) : LiteralsOf(m) = {}

\* A number is refused when it is out of range, when the run of hexadecimal
\* digits it begins with is no literal, or when an exponent has no digits.
Malformed ==
    LET run == Past(text, 1, DigitsOf(16))
    IN  \/ \E n \in DOMAIN text : \E l \in LiteralsOf(n) : ~InRange(l)
        \/ LiteralsOf(run - 1) = {} /\ Peek(text, run) \notin {"H", "h"}
        \/ \E e \in 4..Len(text) : text[e] \in {"E", "D", "e", "d"} /\ IsReal(e - 1)

\* The first token of a text that begins with a digit is the longest literal
\* it begins with and has the value of that literal, although B and C are
\* hexadecimal digits, octal suffixes or neither, and a dot belongs to a real
\* or to a range; a text is refused only for one of the reasons above.
NumbersExact ==
    (parts = <<>>) =>
        /\ Len(toks) = 1 => LongestLiteral(pos - 1, toks[1])
        /\ (toks = <<>> /\ status = "error") => Malformed
        /\ ~(toks = <<>> /\ status = "done")
=============================================================================
