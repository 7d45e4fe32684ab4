------------------------------ MODULE MCLexing ------------------------------
(***************************************************************************)
(* Instances of Lexing: every nesting of blocks two deep over two features *)
(* with parts of each kind in and around them, and every number of up to   *)
(* five characters, up to four with small letters.                         *)
(***************************************************************************)
EXTENDS Lexing

MCWords == {"x", "X", "Try", "End", "p", "q"}
MCCapital == [x |-> "X", X |-> "X", Try |-> "TRY", TRY |-> "TRY", End |-> "END", p |-> "P", q |-> "Q"]

Part(k, s, v) == [k |-> k, s |-> s, v |-> v]

Bracket == Part("string", <<"quote", "(", "*", "quote">>, <<"(", "*">>)
Closing == Part("pragma", <<"(", "*", "$", "x", " ", "quote", "*", ")", "quote", "*", ")">>, <<<<"x">>, <<"*", ")">>>>)
Tokens ==
    {Part("word", <<w>>, <<>>) : w \in {"x", "Try", "TRY", "End", "END"}}
    \cup {Bracket,
          Part("string", <<"apostrophe", "quote", "apostrophe">>, <<"quote">>),
          Part("int", <<"0", "C", "H">>, <<12>>), Part("..", <<".", ".">>, <<>>), Part("(", <<"(">>, <<>>),
          Closing}
Empty == Part("none", <<"(", "*", "*", ")">>, <<>>)
Comments ==
    {Part("none", <<"(", "*", "x", "(", "*", "quote", "*", ")", "*", "*", ")">>, <<>>),
     Part("none", <<"(", "*", "*", "*", ")">>, <<>>),
     Part("none", <<"(", "*", "!", "*", ")">>, <<>>),
     Part("none", <<"nl">>, <<>>),
     Empty,
     Part("doc", <<"(", "*", "*", " ", "x", "nl", "*", ")">>, <<"x">>)}

If(f, then, else) == [k |-> "block", f |-> f, then |-> then, else |-> else]
X == Part("word", <<"x">>, <<>>)
Inner == {If(f, <<X>>, e) : f \in {"p", "q"}, e \in {<<>>, <<<<X, X>>>>}}
Branches == {<<p>> : p \in Tokens \cup Comments \cup Inner} \cup {<<>>}
\* Behind a comment without an end, the bracket in Closing would be one.
Blocks ==
    {If("p", b, e) : b \in Branches, e \in {<<>>} \cup {<<c>> : c \in Branches}} \ {If("p", <<p>>, <<<<Closing>>>>) : p \in {Empty, Bracket}}

MCSources == {<<X, b, p>> : b \in {If("p", <<i>>, <<<<X>>>>) : i \in Inner}, p \in Tokens \cup Comments}
             \cup {<<b, X>> : b \in Blocks} \cup ({<<p, q>> : p, q \in Tokens \cup Comments} \ {<<Empty, Closing>>})

NumberChars == {"0", "7", "8", "B", "C", "E", "H", ".", "-"}
SmallChars == NumberChars \cup {"b", "c", "f", "h", "e"}
NumbersOf(n, chars) == {<<d>> \o s : d \in {"0", "7", "8"}, s \in [1..n -> chars]}
MCNumbers == NumbersOf(4, NumberChars) \cup UNION {NumbersOf(n, SmallChars) : n \in 0..3}
=============================================================================
