-------------------------------- MODULE Lexer --------------------------------
(***************************************************************************)
(* The lexer (lexer.rs).  A text is a sequence of characters; a word, a    *)
(* run of letters that no instance looks into, is one of them, and so is   *)
(* "nl", the end of a line.  A reader takes the text t and the position i  *)
(* at which it starts, and returns the token [k, v] with the position next *)
(* behind it; k is "error" where the code returns Err, and "none" where it *)
(* goes on to look for a token.  A position 0 stands for a missing end.    *)
(*                                                                         *)
(* Locations and the values of real literals are left out.                 *)
(***************************************************************************)
EXTENDS Integers, Sequences, FiniteSets, SequencesExt

CONSTANTS Words,     \* the words of the texts, keywords aside
          Capital,   \* Capital[w] is the word w in capital letters
          MaxInt,    \* the largest integer literal; 2^63 - 1 in the code
          MaxChar,   \* the largest character code; 10FFFFH in the code
          Surrogates \* the codes below it of no character; 0D800H..0DFFFH

Numerals == <<"0", "1", "2", "3", "4", "5", "6", "7", "8", "9", "A", "B", "C", "D", "E", "F">>
SmallNumerals == <<"a", "b", "c", "d", "e", "f">>
DigitsOf(base) == {Numerals[i] : i \in 1..base} \cup (IF base = 16 THEN Range(SmallNumerals) ELSE {})
Decimal == DigitsOf(10)

\* keyword_from_str.
Pim4Keywords ==
    {"AND", "ARRAY", "BEGIN", "BY", "CASE", "CONST", "DEFINITION", "DIV", "DO", "ELSE", "ELSIF",
     "END", "EXIT", "EXPORT", "FOR", "FROM", "IF", "IMPLEMENTATION", "IMPORT", "IN", "LOOP", "MOD",
     "MODULE", "NOT", "OF", "OR", "POINTER", "PROCEDURE", "QUALIFIED", "RECORD", "REPEAT", "RETURN",
     "SET", "THEN", "TO", "TYPE", "UNTIL", "VAR", "WHILE", "WITH"}
M2PlusKeywords ==
    {"AS", "BRANDED", "EXCEPT", "EXCEPTION", "FINALLY", "LOCK", "METHODS", "OBJECT", "OVERRIDE",
     "RAISE", "REF", "REFANY", "RETRY", "REVEAL", "SAFE", "TRY", "TYPECASE", "UNSAFE"}
Keywords(m2plus) == Pim4Keywords \cup (IF m2plus THEN M2PlusKeywords ELSE {})

Letters == (DigitsOf(16) \ Decimal) \cup {"H", "h"} \cup Words \cup Keywords(TRUE)
WordChars == Letters \cup Decimal \cup {"_"}
Space == {" ", "nl"}

Singles == {"+", "-", "*", "/", "=", "#", ",", ";", ")", "[", "]", "{", "}", "^", "|", "&", "~",
            "(", ":", ".", "<", ">"}
Doubles == {<<":", "=", ":=">>, <<".", ".", "..">>, <<"<", "=", "<=">>, <<"<", ">", "<>">>, <<">", "=", ">=">>}

----------------------------------------------------------------------------
Token(k, v, next) == [k |-> k, v |-> v, next |-> next]
Skip(next) == Token("none", <<>>, next)
Err == Token("error", <<>>, 0)

Peek(t, i) == IF i \in DOMAIN t THEN t[i] ELSE "eof"
Pair(t, i) == <<Peek(t, i), Peek(t, i + 1)>>

\* The position behind the longest run of characters of S.
Past(t, i, S) ==
    CHOOSE j \in i..Len(t) + 1 : (\A k \in i..j - 1 : t[k] \in S) /\ Peek(t, j) \notin S

\* The first position from i on at which p holds, or 0.
First(t, i, p(_)) ==
    LET found == {j \in i..Len(t) : p(j)}
    IN  IF found = {} THEN 0 ELSE CHOOSE j \in found : \A k \in found : j <= k

\* Behind the comment that is depth levels deep at i.
RECURSIVE CommentEnd(_, _, _)
CommentEnd(t, i, depth) ==
    CASE depth = 0 -> i
      [] depth > 0 /\ i > Len(t) -> 0
      [] depth > 0 /\ Pair(t, i) = <<"(", "*">> -> CommentEnd(t, i + 2, depth + 1)
      [] depth > 0 /\ Pair(t, i) = <<"*", ")">> -> CommentEnd(t, i + 2, depth - 1)
      [] OTHER -> CommentEnd(t, i + 1, depth)

\* A pragma ends at the next bracket, nested or not.
SkipPragmaClose(t, i) ==
    LET j == First(t, i, LAMBDA k : Pair(t, k) = <<"*", ")">>) IN IF j = 0 THEN 0 ELSE j + 2


\* The pragma name ends the block that is skipped.
EndsBlock(name, stopAtElse, depth) ==
    depth = 0 /\ (name = <<"END">> \/ (name = <<"ELSE">> /\ stopAtElse))

Nested(name, depth) ==
    CASE name = <<"IF">>  -> depth + 1
      [] name = <<"END">> -> depth - 1
      [] OTHER            -> depth

\* Behind the END, or the ELSE, of a block that is not compiled.  Strings are
\* not read as strings here.
RECURSIVE SkipDisabledBlock(_, _, _, _)
SkipDisabledBlock(t, i, stopAtElse, depth) ==
    LET name == SubSeq(t, i + 3, Past(t, i + 3, WordChars) - 1)
        close == SkipPragmaClose(t, i + 3)
    IN  CASE i = 0 \/ i > Len(t) -> 0
          [] i \in 1..Len(t) /\ Pair(t, i) = <<"(", "*">> /\ Peek(t, i + 2) = "$" ->
                IF EndsBlock(name, stopAtElse, depth) THEN close
                ELSE SkipDisabledBlock(t, close, stopAtElse, Nested(name, depth))
          [] i \in 1..Len(t) /\ Pair(t, i) = <<"(", "*">> /\ Peek(t, i + 2) # "$" ->
                SkipDisabledBlock(t, CommentEnd(t, i + 2, 1), stopAtElse, depth)
          [] OTHER -> SkipDisabledBlock(t, i + 1, stopAtElse, depth)

Ending(end) == IF end = 0 THEN Err ELSE Skip(end)

\* From the close of (*$IF*) or (*$ELSE*) on.
Disabled(t, close, stopAtElse) == IF close = 0 THEN Err ELSE Ending(SkipDisabledBlock(t, close, stopAtElse, 0))

\* (*$IF feature*), the feature from j on.
ConditionalIf(t, j, features) ==
    LET name == SubSeq(t, j, Past(t, j, WordChars) - 1)
        close == SkipPragmaClose(t, Past(t, j, WordChars))
    IN  IF name \in {<<f>> : f \in features} THEN Ending(close) ELSE Disabled(t, close, TRUE)

\* (*$NAME "argument"*), the argument from j on.
OtherPragma(t, j, name) ==
    LET quote == First(t, j + 1, LAMBDA k : t[k] = "quote")
        unclosed == Peek(t, j) = "quote" /\ quote = 0
        close == SkipPragmaClose(t, IF Peek(t, j) = "quote" THEN quote + 1 ELSE j)
    IN  IF unclosed \/ close = 0 THEN Err
        ELSE Token("pragma", <<name, IF Peek(t, j) = "quote" THEN SubSeq(t, j + 1, quote - 1) ELSE <<>>>>, close)

\* i is behind the dollar sign.
ReadPragma(t, i, features) ==
    LET after == Past(t, i, WordChars)
        name == SubSeq(t, i, after - 1)
    IN  CASE name = <<>>       -> Err
          [] name = <<"IF">>   -> ConditionalIf(t, Past(t, after, Space), features)
          [] name = <<"ELSE">> -> Disabled(t, SkipPragmaClose(t, after), FALSE)
          [] name = <<"END">>  -> Ending(SkipPragmaClose(t, after))
          [] OTHER             -> OtherPragma(t, Past(t, after, Space), name)

Trim(s) ==
    LET kept == {j \in DOMAIN s : s[j] \notin Space}
    IN  IF kept = {} THEN <<>>
        ELSE SubSeq(s, CHOOSE j \in kept : \A k \in kept : j <= k, CHOOSE j \in kept : \A k \in kept : j >= k)

\* A documentation comment, behind its marker.
DocComment(t, i) ==
    LET end == CommentEnd(t, i, 1)
        content == Trim(SubSeq(t, i, end - 3))
    IN  IF end = 0 \/ content = <<>> THEN Ending(end) ELSE Token("doc", content, end)

\* i is at the bracket.  Three stars or more make a comment like any other.
SkipComment(t, i, features) ==
    CASE Peek(t, i + 2) = "$" -> ReadPragma(t, i + 3, features)
      [] Peek(t, i + 2) = "!" \/ (Peek(t, i + 2) = "*" /\ Peek(t, i + 3) # "*") -> DocComment(t, i + 3)
      [] OTHER -> Ending(CommentEnd(t, IF Peek(t, i + 2) = "*" THEN i + 3 ELSE i + 2, 1))

\* A string ends in its line.
ReadString(t, i) ==
    LET j == First(t, i + 1, LAMBDA k : t[k] \in {t[i], "nl"})
    IN  IF j = 0 \/ Peek(t, j) = "nl" THEN Err ELSE Token("string", SubSeq(t, i + 1, j - 1), j + 1)

----------------------------------------------------------------------------
(* Numbers.                                                                *)

DigitValue(d) == (CHOOSE i \in 1..16 : d \in {Numerals[i]} \cup {SmallNumerals[j] : j \in {i - 10} \cap 1..6}) - 1
Value(s, base) == FoldLeft(LAMBDA n, d : n * base + DigitValue(d), 0, s)

IntLit(n, next) == IF n > MaxInt THEN Err ELSE Token("int", <<n>>, next)
CharLit(n, next) == IF n > MaxChar \/ n \in Surrogates THEN Err ELSE Token("char", <<n>>, next)

OnlyIn(s, S) == \A j \in DOMAIN s : s[j] \in S

\* The fraction from the dot on, then E or D, a sign and digits, which the
\* conversion to a real needs.
ReadFraction(t, i, dot, digits) ==
    LET end == Past(t, dot + 1, Decimal)
        exp == Peek(t, end) \in {"E", "D", "e", "d"}
        sign == IF Peek(t, end + 1) \in {"+", "-"} THEN end + 2 ELSE end + 1
        next == IF exp THEN Past(t, sign, Decimal) ELSE end
    IN  IF ~OnlyIn(digits, Decimal) \/ (exp /\ next = sign) THEN Err
        ELSE Token("real", SubSeq(t, i, next - 1), next)

\* Mutant: octal suffixes are looked for behind the digits only.
NumberUnsuffixed(t, i, next, digits) ==
    IF Peek(t, next) \in {"H", "h"} THEN IntLit(Value(digits, 16), next + 1)
    ELSE IF OnlyIn(digits, Decimal) THEN IntLit(Value(digits, 10), next) ELSE Err

\* The digits have been read as far as they are hexadecimal: B and C among
\* them, the suffixes of octal literals, but not H.
NumberOf(t, i, next, digits) ==
    LET octal == Front(digits)
        suffixed == Len(digits) > 1 /\ OnlyIn(octal, DigitsOf(8))
        hex == Peek(t, next) \in {"H", "h"}
    IN  CASE hex -> IntLit(Value(digits, 16), next + 1)
          [] ~hex /\ suffixed /\ Last(digits) \in {"B", "b"} -> IntLit(Value(octal, 8), next)
          [] ~hex /\ suffixed /\ Last(digits) \in {"C", "c"} -> CharLit(Value(octal, 8), next)
          [] OTHER ->
                CASE Peek(t, next) = "." /\ Peek(t, next + 1) \in Decimal -> ReadFraction(t, i, next, digits)
                  [] ~(Peek(t, next) = "." /\ Peek(t, next + 1) \in Decimal) /\ ~OnlyIn(digits, Decimal) -> Err
                  [] OTHER -> IntLit(Value(digits, 10), next)

ReadNumber(t, i) == NumberOf(t, i, Past(t, i, DigitsOf(16)), SubSeq(t, i, Past(t, i, DigitsOf(16)) - 1))

----------------------------------------------------------------------------
\* Keywords are in capitals; other names too, unless case matters.
ReadIdentOrKeyword(t, i, opts) ==
    LET next == Past(t, i, WordChars)
        name == SubSeq(t, i, next - 1)
    IN  IF name \in {<<w>> : w \in Keywords(opts.m2plus)} THEN Token(name[1], <<>>, next)
        ELSE Token("ident", IF opts.caseSensitive THEN name
                            ELSE [j \in DOMAIN name |-> IF name[j] \in DOMAIN Capital THEN Capital[name[j]] ELSE name[j]], next)

Operator(t, i) ==
    LET double == {d \in Doubles : Pair(t, i) = <<d[1], d[2]>>}
    IN  IF double # {} THEN Token((CHOOSE d \in double : TRUE)[3], <<>>, i + 2)
        ELSE IF t[i] \in Singles THEN Token(t[i], <<>>, i + 1) ELSE Err

\* What starts at i, which is no space.
TokenAt(t, i, opts) ==
    CASE i > Len(t)                 -> Token("eof", <<>>, i)
      [] Pair(t, i) = <<"(", "*">>  -> SkipComment(t, i, opts.features)
      [] Peek(t, i) \in {"quote", "apostrophe"} -> ReadString(t, i)
      [] Peek(t, i) \in Decimal     -> ReadNumber(t, i)
      [] Peek(t, i) \in Letters     -> ReadIdentOrKeyword(t, i, opts)
      [] OTHER                      -> Operator(t, i)

RECURSIVE NextToken(_, _, _)
NextToken(t, i, opts) ==
    LET r == TokenAt(t, Past(t, i, Space), opts)
    IN  IF r.k = "none" THEN NextToken(t, r.next, opts) ELSE r
=============================================================================
