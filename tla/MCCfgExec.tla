----------------------------- MODULE MCCfgExec -----------------------------
(***************************************************************************)
(* Bodies for CfgExec: every compound statement around small bodies that   *)
(* fall through, use and assign variables, EXIT, RETURN or RAISE; loops    *)
(* nested in loops; TRY statements in sequence, nested and in loops; TRY   *)
(* bodies left early; and the forms the compiler does not survive.         *)
(***************************************************************************)
EXTENDS CfgExec, TLC

V(v) == Place(v)
Read(v) == Call("P", <<V(v)>>)          \* a call that reads v
Addr(v) == [k |-> "AddrOf", v |-> v, proj |-> <<>>]
VarCall(v) == Call("Q", <<Addr(v)>>)    \* a call with a VAR argument
DerefP == [k |-> "Place", v |-> "p", proj |-> <<[k |-> "Deref"]>>]
NewP == Call("NEW", <<V("p")>>)
C(n) == [k |-> "Opaque", n |-> n]
And(l, r) == BinOp("AND", l, r)
Or(l, r) == BinOp("OR", l, r)
Not(e) == [k |-> "Not", e |-> e]

If(c, t, elsifs, els) == [k |-> "If", cond |-> c, body |-> t, elsifs |-> elsifs, els |-> els]
While(c, ss) == [k |-> "While", cond |-> c, body |-> ss]
Loop(ss) == [k |-> "Loop", body |-> ss]
Repeat(ss, c) == [k |-> "Repeat", body |-> ss, cond |-> c]
For(v, dir, step, ss) ==
    [k |-> "For", v |-> v, from |-> IntLit(0), to |-> C("n"), step |-> step, dir |-> dir, body |-> ss]
Case(e, arms, els) == [k |-> "Case", e |-> e, arms |-> arms, els |-> els]
TypeCase(e, arms, els) == [k |-> "TypeCase", e |-> e, arms |-> arms, els |-> els]
Try(ss, excepts, fin) == [k |-> "Try", body |-> ss, excepts |-> excepts, fin |-> fin]
On(x, ss) == [exc |-> <<x>>, body |-> ss]
Otherwise(ss) == [exc |-> <<>>, body |-> ss]
Lock(ss) == [k |-> "Lock", mutex |-> V("m"), body |-> ss]
Exit == [k |-> "Exit"]
Ret(e) == [k |-> "Return", e |-> e]
RaiseOf(x) == RaiseItem(x)
NoOp == [k |-> "Empty"]

SetX == Assign("x", IntLit(1))
Simple == {<<>>, <<SetX>>, <<Read("x"), NoOp>>, <<Ret(<<V("x")>>), SetX>>}
Bodies == Simple \cup {<<VarCall("x"), Read("x")>>, <<RaiseOf("A")>>}
Conds == {C("c"), And(C("c"), Or(Not(C("d")), C("e")))}
After == <<Assign("y", V("x"))>>

\* A loop body: leave it, or test and leave it.
LoopBodies == {<<If(C("c"), <<Exit>>, <<>>, <<>>), SetX>>, <<Read("x"), Exit, SetX>>,
               <<SetX, If(C("c"), <<Ret(<<>>)>>, <<>>, <<<<Exit>>>>)>>}

Straight ==
    {<<If(c, t, <<>>, <<e>>)>> \o After : c \in Conds, t \in Bodies, e \in Bodies}
    \cup {<<If(c, t, <<>>, <<>>)>> \o After : c \in Conds, t \in Bodies}
    \cup {<<If(C("c"), t, <<<<C("d"), u>>, <<Not(C("e")), <<SetX>>>>>>, els)>> \o After :
            t \in Simple, u \in Simple, els \in {<<>>, <<<<NewP>>>>}}
    \cup {<<Case(C("n"), <<[labels |-> <<1, 2>>, body |-> t], [labels |-> <<3>>, body |-> u]>>, els)>>
            \o After : t \in Bodies, u \in Simple, els \in {<<>>, <<<<SetX>>>>}}
    \cup {<<TypeCase(V("r"), <<[labels |-> <<"T">>, var |-> v, body |-> t],
                               [labels |-> <<"U">>, var |-> <<>>, body |-> <<>>]>>, <<>>)>> \o After :
            v \in {<<>>, <<"x">>}, t \in Simple}
    \cup {<<Lock(t)>> \o After : t \in Bodies}

Loops ==
    {<<While(c, t)>> \o After : c \in Conds, t \in Bodies \cup LoopBodies}
    \cup {<<Repeat(t, c)>> \o After : c \in Conds, t \in Bodies \cup LoopBodies}
    \cup {<<Loop(t)>> \o After : t \in LoopBodies}
    \cup {<<For("x", d, st, t)>> \o After :
            d \in {"Up", "Down"}, st \in {<<>>, <<IntLit(2)>>}, t \in LoopBodies}
    \cup {<<Loop(<<While(C("c"), t), If(C("d"), <<Exit>>, <<>>, <<>>)>>)>> \o After : t \in LoopBodies}

TryBody == {<<Read("x")>>, <<SetX, RaiseOf("A")>>, <<If(C("c"), <<RaiseOf("B")>>, <<>>, <<>>)>>}
Handlers == {<<On("A", <<SetX>>)>>, <<On("A", <<>>), On("B", <<Read("y")>>)>>,
             <<On("B", <<>>), Otherwise(<<RaiseOf("B")>>)>>}
Tries ==
    {<<Try(t, h, <<>>)>> \o After : t \in TryBody, h \in Handlers}
    \cup {<<Try(t, <<>>, <<<<Assign("y", IntLit(0))>>>>)>> \o After : t \in TryBody}
    \cup {<<Try(<<Try(t, h, <<>>), Read("x")>>, <<On("B", <<SetX>>)>>, <<>>)>> : t \in TryBody, h \in Handlers}
    \cup {<<Try(<<Try(t, <<>>, <<<<SetX>>>>)>>, h, <<>>)>> : t \in TryBody, h \in Handlers}
    \cup {<<Loop(<<Try(t, h, <<>>), If(C("d"), <<Exit>>, <<>>, <<>>)>>)>> : t \in TryBody, h \in Handlers}

\* FINALLY and the jumps out of its TRY.
EarlyBodies == {<<Ret(<<V("x")>>)>>, <<If(C("c"), <<Ret(<<>>)>>, <<>>, <<>>), SetX>>}
LeftEarly ==
    {<<Try(t, <<>>, <<<<Assign("y", IntLit(0))>>>>)>> \o After : t \in EarlyBodies}
    \cup {<<Loop(<<Try(t, <<>>, <<<<Read("y")>>>>)>>)>> \o After : t \in LoopBodies}

\* A clause after a catch-all, structured statements in FINALLY, RETRY.
BadTries ==
    {Try(<<Read("x")>>, <<Otherwise(<<SetX>>), h>>, <<>>) : h \in {On("A", <<>>), Otherwise(<<>>)}}
    \cup {Try(t, h, <<<<SetX, f>>>>) : t \in TryBody, h \in {<<>>, <<On("A", <<SetX>>)>>},
             f \in {If(C("c"), <<SetX>>, <<>>, <<>>), While(C("c"), <<Read("x")>>), Ret(<<>>)}}
    \cup {Try(<<Read("x")>>, <<On("A", <<[k |-> "Retry"]>>)>>, <<>>)}
Unsupporteds ==
    {<<t>> \o After : t \in BadTries}
    \cup {<<If(C("c"), <<t>>, <<>>, <<<<SetX>>>>)>> : t \in BadTries}
    \cup {<<Loop(<<Exit, t>>), Ret(<<>>), t>> : t \in BadTries}

Pointers == {<<If(C("c"), <<NewP>>, <<>>, <<>>), Call("P", <<DerefP>>)>>,
             <<NewP, While(C("c"), <<Call("P", <<DerefP>>), Call("DISPOSE", <<V("p")>>)>>)>>}

Plain(ss) == [body |-> ss, except |-> <<>>, fin |-> <<>>]
Guarded == {[body |-> t, except |-> <<<<SetX>>>>, fin |-> <<>>] : t \in TryBody}
           \cup {[body |-> t, except |-> e, fin |-> <<<<SetX>>>>] :
                   t \in TryBody, e \in {<<>>, <<<<Read("y")>>>>}}

MCPrograms ==
    {Plain(ss) : ss \in Straight \cup Loops \cup Tries \cup Pointers \cup LeftEarly \cup Unsupporteds} \cup Guarded
============================================================================
