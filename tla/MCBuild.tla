------------------------------- MODULE MCBuild -------------------------------
(***************************************************************************)
(* A project P with the packages A and B: A provides module X, B provides  *)
(* module Y.  The manifests and the imports of X and Y vary, and may form  *)
(* cycles.                                                                 *)
(***************************************************************************)
EXTENDS Build

KV(k, v) == [t |-> "kv", k |-> k, v |-> v]
Sec(k) == [t |-> "sec", k |-> k, v |-> <<>>]
Local(n, d) == KV(n, <<"path:", d>>)

Pkg(name, deps) ==
    <<KV("name", <<name>>), KV("entry", <<"src/Main.mod">>), KV("includes", <<"src">>), Sec("deps")>>
        \o deps \o <<[t |-> "feature", k |-> "LINUX", v |-> <<>>], KV("cflags", <<"-DL">>)>>

WithC(name, deps) ==
    <<KV("name", <<name>>), KV("edition", <<"m2plus">>), KV("includes", <<"src">>), Sec("deps")>>
        \o deps \o <<Sec("cc"), KV("extra-c", <<"b.c">>)>>

MCManifests == {Pkg("app", <<Local("A", "A")>>), Pkg("app", <<Local("A", "A"), Local("B", "B")>>)}

Prog(id, imports) == [id |-> id, kind |-> "program", ok |-> TRUE, foreign |-> FALSE, imports |-> imports]
Def(id, imports) == [id |-> id, kind |-> "def", ok |-> TRUE, foreign |-> FALSE, imports |-> imports]
Impl(id, imports) == [id |-> id, kind |-> "impl", ok |-> TRUE, foreign |-> FALSE, imports |-> imports]
Broken(id) == [id |-> id, kind |-> "impl", ok |-> FALSE, foreign |-> FALSE, imports |-> <<>>]

Src == <<"P", "src">>
Tests == <<"P", "tests">>
ASrc == <<"A", "src">>
BSrc == <<"B", "src">>
Main == <<Src, "Main", "mod">>
TestMain == <<Tests, "Main", "mod">>
XDef == <<ASrc, "X", "def">>
XMod == <<ASrc, "X", "mod">>
YDef == <<BSrc, "Y", "def">>
YMod == <<BSrc, "Y", "mod">>

Sources(xd, yd) ==
    (Main :> Prog("m0", <<"X">>)) @@ (TestMain :> Prog("t0", <<"X">>)) @@
    (XDef :> Def("xd", xd)) @@ (XMod :> Impl("x0", <<"Y">>)) @@
    (YDef :> Def("yd", yd)) @@ (YMod :> Impl("y0", <<"IO">>))

Definitions == {Main, XDef, YDef}

World(toml, a, b, src, cfiles, dirs) ==
    [toml |-> [d \in {"P", "A", "B"} |-> IF d = "P" THEN toml ELSE IF d = "A" THEN a ELSE b],
     lock |-> NoFile, dirs |-> dirs \cup {ASrc, BSrc}, home |-> "H" :> "B", up |-> "src" :> "P",
     cfiles |-> cfiles, src |-> src, libs |-> <<>>]

\* An empty directory, and projects whose packages depend on each other in
\* different ways.
MCWorlds ==
    LET app == Pkg("app", <<Local("A", "A")>>)
        a == Pkg("A", <<Local("B", "B")>>)
    IN  {World(NoFile, NoFile, NoFile, [q \in {XDef} |-> Def("xd", <<>>)], <<>>, {}),
         World(app, a, WithC("B", <<Local("A", "A")>>), Sources(<<"Y">>, <<>>), <<"B", "b.c">> :> "c0",
               {Src, Tests}),
         World(app, a, NoFile, (XMod :> Broken("x1")) @@ [q \in Definitions |-> Sources(<<"Y">>, <<"X">>)[q]],
               <<>>, {Src})}

MCTexts == Main :> {Prog("m0", <<"X">>), Prog("m1", <<"Y", "X">>)}

PlanEntry(emitC) == [entry |-> Main, emitC |-> emitC, compileOnly |-> ~emitC]

MCCommands ==
    [p \in {"p1", "p2"} |->
        IF p = "p2" THEN {<<"test">>, <<"build", "--sanitize">>}
        ELSE {<<"run", "--debug">>, <<"clean">>, <<"init">>, <<"build", "--bogus">>, <<"--emit-c", "src/Main.mod">>,
              <<"compile", "--plan", PlanEntry(FALSE), PlanEntry(TRUE)>>}]

MCPathOrder == <<XDef, XMod, YDef, YMod, <<"P", "m2.lock">>, Toml, Exe, Main, TestMain>>
MCMapOrders == {<<"X", "Y">>, <<"Y", "X">>}
=============================================================================
