------------------------------ MODULE CfgBuild ------------------------------
(***************************************************************************)
(* CFG construction: CfgBuilder of src/cfg/build.rs.                       *)
(*                                                                         *)
(* A builder is a record: the blocks so far, the current open block (None  *)
(* after a seal), the stacks of loop exits and of exception handlers, and  *)
(* a flag for the panics of the code (a seal without a current block, a    *)
(* start over an open or sealed block, an EXIT outside a loop).  Every     *)
(* lowering method is an operator from builder to builder.                 *)
(*                                                                         *)
(* HIR statements are records with a kind k; optional bodies are sequences *)
(* of length at most one.  Locations and types are left out.               *)
(***************************************************************************)
EXTENDS Cfg

NewBuilder ==
    [blocks |-> <<BasicBlock(None)>>, cur |-> Entry,
     exits |-> <<>>, handlers |-> <<>>, panic |-> FALSE]

Top(s) == IF s = <<>> THEN None ELSE Last(s)

\* The id the next new_block returns.
NextId(b) == Len(b.blocks) + 1
NewBlock(b) == [b EXCEPT !.blocks = Append(@, BasicBlock(Top(b.handlers)))]
NewBlockNoHandler(b) == [b EXCEPT !.blocks = Append(@, BasicBlock(None))]

NewBlocks(b, n) ==
    LET add[i \in 0 .. n] == IF i = 0 THEN b ELSE NewBlock(add[i - 1]) IN add[n]
NewBlocksNoHandler(b, n) ==
    LET add[i \in 0 .. n] == IF i = 0 THEN b ELSE NewBlockNoHandler(add[i - 1]) IN add[n]

StartBlock(b, id) ==
    [b EXCEPT !.cur = id,
              !.panic = @ \/ b.cur # None \/ b.blocks[id].term.k # "Open"]

Seal(b, t) ==
    IF b.cur = None THEN [b EXCEPT !.panic = TRUE]
    ELSE [b EXCEPT !.blocks[b.cur].term = t, !.cur = None,
                   !.panic = @ \/ b.blocks[b.cur].term.k # "Open"]

PushStmt(b, s) ==
    IF b.cur = None THEN b ELSE [b EXCEPT !.blocks[b.cur].stmts = Append(@, s)]

PushAll(b, ss) == FoldLeft(PushStmt, b, ss)

IsOpen(b) == b.cur # None
SealIfOpen(b, t) == IF IsOpen(b) THEN Seal(b, t) ELSE b

AnyPathReaches(b, target) ==
    \E i \in DOMAIN b.blocks : target \in Successors(b.blocks[i].term)

StartIfReached(b, target) ==
    IF AnyPathReaches(b, target) THEN StartBlock(b, target) ELSE b

Finish(b) ==
    [i \in DOMAIN b.blocks |->
        IF b.blocks[i].term.k = "Open" THEN [b.blocks[i] EXCEPT !.term = Return(<<>>)]
                                       ELSE b.blocks[i]]

----------------------------------------------------------------------------
(* Statements and expressions the lowering itself makes.                   *)

Place(v) == [k |-> "Place", v |-> v, proj |-> <<>>]
Assign(v, e) == [k |-> "Assign", target |-> Place(v), value |-> e]
Call(f, args) == [k |-> "ProcCall", f |-> f, args |-> args]
BinOp(op, l, r) == [k |-> "BinaryOp", op |-> op, l |-> l, r |-> r]
IntLit(n) == [k |-> "IntLit", n |-> n]

LockCall(s) == Call("Lock", <<s.mutex>>)
UnlockCall(s) == Call("Unlock", <<s.mutex>>)

ForInit(s) == Assign(s.v, s.from)
ForCond(s) == BinOp(IF s.dir = "Up" THEN "<=" ELSE ">=", Place(s.v), s.to)
ForStep(s) ==
    LET step == IF s.step # <<>> THEN s.step[1]
                ELSE IntLit(IF s.dir = "Up" THEN 1 ELSE -1)
    IN  Assign(s.v, BinOp("+", Place(s.v), step))

\* The binding of a TYPECASE arm: the matched value, at the head of the arm.
TypeBinding(s, arm) == IF arm.var = <<>> THEN <<>> ELSE <<Assign(arm.var[1], s.e)>>

----------------------------------------------------------------------------
(* Short-circuit conditions                                                *)

RECURSIVE LowerExprAsBranch(_, _, _, _)
LowerExprAsBranch(b, e, onTrue, onFalse) ==
    CASE e.k = "BinaryOp" /\ e.op \in {"AND", "OR"} ->
           LET rhs   == NextId(b)
               left  == IF e.op = "AND"
                        THEN LowerExprAsBranch(NewBlock(b), e.l, rhs, onFalse)
                        ELSE LowerExprAsBranch(NewBlock(b), e.l, onTrue, rhs)
           IN  LowerExprAsBranch(StartBlock(left, rhs), e.r, onTrue, onFalse)
      [] e.k = "Not" -> LowerExprAsBranch(b, e.e, onFalse, onTrue)
      [] OTHER -> Seal(b, Branch(e, onTrue, onFalse))

PushExit(b, id) == [b EXCEPT !.exits = Append(@, id)]
KeepExit(b) == b   \* the pop of loop_exit_stack forgotten
PopExit(b) == [b EXCEPT !.exits = Front(@)]
PushHandler(b, id) == [b EXCEPT !.handlers = Append(@, id)]
PopHandler(b) == [b EXCEPT !.handlers = Front(@)]

----------------------------------------------------------------------------
(* Statements                                                              *)

RECURSIVE LowerStmts(_, _)

\* A body in a block of its own, followed by a jump if it falls through.
LowerBody(b, id, ss, to) == SealIfOpen(LowerStmts(StartBlock(b, id), ss), Goto(to))

\* One IF or ELSIF test and what follows it: rest holds the ELSIFs left.
RECURSIVE LowerTests(_, _, _, _, _, _)
LowerTests(b, thenBlock, falseBlock, merge, s, rest) ==
    LET tested == LowerExprAsBranch(b, Head(rest)[1], thenBlock, falseBlock)
        done   == LowerBody(tested, thenBlock, Head(rest)[2], merge)
        more   == Tail(rest)
    IN  IF more # <<>>
          THEN LET b1    == StartBlock(done, falseBlock)
                   then2 == NextId(b1)
                   b2    == NewBlock(b1)
                   fresh == Len(more) > 1 \/ s.els # <<>>
                   b3    == IF fresh THEN NewBlock(b2) ELSE b2
               IN  LowerTests(b3, then2, IF fresh THEN NextId(b2) ELSE merge,
                              merge, s, more)
        ELSE IF s.els # <<>> THEN LowerBody(done, falseBlock, s.els[1], merge)
        ELSE done

LowerIf(b, s) ==
    LET merge == NextId(b)
        fresh == s.elsifs # <<>> \/ s.els # <<>>
        b1    == NewBlocks(b, IF fresh THEN 3 ELSE 2)
        false == IF fresh THEN merge + 2 ELSE merge
        b2    == LowerTests(b1, merge + 1, false, merge, s,
                            <<<<s.cond, s.body>>>> \o s.elsifs)
    IN  StartIfReached(b2, merge)

LowerWhile(b, s) ==
    LET header == NextId(b)
        b1 == StartBlock(Seal(NewBlocks(b, 3), Goto(header)), header)
        b2 == LowerExprAsBranch(b1, s.cond, header + 1, header + 2)
        b3 == LowerBody(PushExit(b2, header + 2), header + 1, s.body, header)
    IN  StartBlock(PopExit(b3), header + 2)

LowerLoop(b, s) ==
    LET header == NextId(b)
        b1 == PushExit(Seal(NewBlocks(b, 2), Goto(header)), header + 1)
    IN  StartBlock(PopExit(LowerBody(b1, header, s.body, header)), header + 1)

LowerExit(b) ==
    IF b.exits = <<>> THEN [b EXCEPT !.panic = TRUE] ELSE Seal(b, Goto(Last(b.exits)))

LowerRepeat(b, s) ==
    LET body == NextId(b)
        b1 == PushExit(Seal(NewBlocks(b, 2), Goto(body)), body + 1)
        b2 == LowerStmts(StartBlock(b1, body), s.body)
        b3 == IF IsOpen(b2) THEN LowerExprAsBranch(b2, s.cond, body + 1, body) ELSE b2
    IN  StartBlock(PopExit(b3), body + 1)

\* Blocks, in the order of their ids: condition, body, latch, exit.
LowerFor(b, s) ==
    LET b0   == PushStmt(b, ForInit(s))
        cond == NextId(b0)
        b1 == StartBlock(Seal(NewBlocks(b0, 4), Goto(cond)), cond)
        b2 == PushExit(Seal(b1, Branch(ForCond(s), cond + 1, cond + 3)), cond + 3)
        b3 == PopExit(LowerBody(b2, cond + 1, s.body, cond + 2))
        b4 == Seal(PushStmt(StartBlock(b3, cond + 2), ForStep(s)), Goto(cond))
    IN  StartBlock(b4, cond + 3)

\* CASE and TYPECASE: merge, default and one block per arm, then a Switch.
\* bindings holds, for each arm, the statements that bind its variable.
LowerCase(b, s, bindings) ==
    LET merge == NextId(b)
        arms  == [i \in DOMAIN s.arms |->
                    [labels |-> s.arms[i].labels, to |-> merge + 1 + i]]
        b1    == Seal(NewBlocks(b, 2 + Len(s.arms)), Switch(s.e, arms, merge + 1))
        arm[i \in 0 .. Len(s.arms)] ==
            IF i = 0 THEN b1
            ELSE LowerBody(arm[i - 1], merge + 1 + i,
                           bindings[i] \o s.arms[i].body, merge)
        b2    == LowerBody(arm[Len(s.arms)], merge + 1,
                           IF s.els = <<>> THEN <<>> ELSE s.els[1], merge)
    IN  StartIfReached(b2, merge)

LowerTry(b, s) ==
    LET merge == NextId(b)
        catch == merge + 1
        hasFin == s.fin # <<>>
        fin   == IF hasFin THEN s.fin[1] ELSE <<>>
        b1    == NewBlockNoHandler(NewBlock(b))
        normal == IF hasFin THEN merge + 2 ELSE merge
        b2    == PushHandler(IF hasFin THEN NewBlock(b1) ELSE b1, catch)
        try   == NextId(b2)
        b3    == StartBlock(SealIfOpen(NewBlock(b2), Goto(try)), try)
        b4    == SealIfOpen(PopHandler(LowerStmts(b3, s.body)), Goto(normal))
        b5    == StartBlock(b4, catch)
        n     == Len(s.excepts)
        reraise == NextId(b5)
        \* the reraise block, one block per handler, then the chain of tests
        b6    == NewBlocksNoHandler(b5, 1 + n)
        test(bb, i) ==
            IF s.excepts[i].exc = <<>> THEN Seal(bb, Goto(reraise + i))
            ELSE LET c == [k |-> "ExcTest", x |-> s.excepts[i].exc[1]] IN
                 IF i < n
                   THEN LET next == NextId(bb) IN
                        StartBlock(Seal(NewBlockNoHandler(bb),
                                        Branch(c, reraise + i, next)), next)
                   ELSE Seal(bb, Branch(c, reraise + i, reraise))
        tests[i \in 0 .. n] == IF i = 0 THEN b6 ELSE test(tests[i - 1], i)
        bodies[i \in 0 .. n] ==
            IF i = 0 THEN tests[n]
            ELSE LowerBody(bodies[i - 1], reraise + i, s.excepts[i].body, normal)
        b7    == IF n = 0 THEN Seal(PushAll(b5, fin), Raise(<<>>))
                 ELSE Seal(PushAll(StartBlock(bodies[n], reraise), fin), Raise(<<>>))
        b8    == IF hasFin
                 THEN SealIfOpen(PushAll(StartBlock(b7, normal), fin), Goto(merge))
                 ELSE b7
    IN  StartIfReached(b8, merge)

LowerLock(b, s) ==
    LET b1 == LowerStmts(PushStmt(b, LockCall(s)), s.body)
    IN  IF IsOpen(b1) THEN PushStmt(b1, UnlockCall(s)) ELSE b1

LowerStmt(b, s) ==
    CASE ~IsOpen(b) \/ s.k = "Empty"               -> b
      [] s.k \in {"Assign", "ProcCall", "Retry"} -> PushStmt(b, s)
      [] s.k = "If"       -> LowerIf(b, s)
      [] s.k = "While"    -> LowerWhile(b, s)
      [] s.k = "Loop"     -> LowerLoop(b, s)
      [] s.k = "Exit"     -> LowerExit(b)
      [] s.k = "Repeat"   -> LowerRepeat(b, s)
      [] s.k = "For"      -> LowerFor(b, s)
      [] s.k = "Case"     -> LowerCase(b, s, [i \in DOMAIN s.arms |-> <<>>])
      [] s.k = "TypeCase" -> LowerCase(b, s, [i \in DOMAIN s.arms |-> TypeBinding(s, s.arms[i])])
      [] s.k = "Try"      -> LowerTry(b, s)
      [] s.k = "Raise"    -> Seal(b, Raise(s.e))
      [] s.k = "Lock"     -> LowerLock(b, s)
      [] s.k = "Return"   -> Seal(b, Return(s.e))

LowerStmts(b, ss) == FoldLeft(LowerStmt, b, ss)

\* build_cfg: the builder's graph, and whether the construction panicked.
Built(body) == LowerStmts(NewBuilder, body)
BuildCfg(body) == Finish(Built(body))

\* build_body_cfg: a body with an EXCEPT or FINALLY part is wrapped in a
\* synthetic TRY first.
WrapBody(p) ==
    IF p.except = <<>> /\ p.fin = <<>> THEN p.body
    ELSE <<[k |-> "Try", body |-> p.body, fin |-> p.fin,
            excepts |-> [n \in DOMAIN p.except |-> [exc |-> <<>>, body |-> p.except[n]]]]>>
============================================================================
