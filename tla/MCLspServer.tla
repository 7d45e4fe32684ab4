---------------------------- MODULE MCLspServer ----------------------------
(***************************************************************************)
(* A program A that imports the definition module B.  Every file has a     *)
(* text that parses and A a second one; B's other text does not parse.     *)
(***************************************************************************)
EXTENDS LspServer

Text(id, st, imports, refs, defs, calls) ==
    [id |-> id, st |-> st, own |-> <<>>, imports |-> imports,
     refs |-> refs, defs |-> defs, calls |-> calls]

FromB == <<[mod |-> "B", from |-> TRUE], [mod |-> "InOut", from |-> TRUE]>>

a1 == Text("a1", "ok", FromB, {"B::P"}, {"A::Main"}, {<<"A::Main", "B::P">>})
a2 == Text("a2", "ok", FromB, {"B::P", "A::Q"}, {"A::Main", "A::Q"}, {<<"A::Q", "B::P">>})
b1 == Text("b1", "ok", <<>>, {"B::P"}, {"B::P"}, {})
b2 == Text("b2", "parse", <<>>, {}, {}, {})

MCTexts == [f \in {"A", "B"} |-> IF f = "A" THEN {a1, a2} ELSE {b1, b2}]
MCSaved == [f \in {"A", "B"} |-> IF f = "A" THEN a1 ELSE b1]
MCRestored == <<"A">>
DefaultDebounce == {<<2, 2>>}
MCDebounces == {<<0, 0>>, <<1, 1>>}
MCStdlib == {"InOut"}
=============================================================================
