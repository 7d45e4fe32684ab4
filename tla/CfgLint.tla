------------------------------ MODULE CfgLint ------------------------------
(***************************************************************************)
(* The CFG lints: the forward solver of cfg/dataflow.rs and the two        *)
(* analyses of cfg/lint.rs, W10 (definitely assigned variables) and W11    *)
(* (NIL safety).  A state of either analysis is the set of the variables   *)
(* that are definitely assigned, or definitely not NIL: join is            *)
(* intersection and bottom is the set of all tracked variables.            *)
(***************************************************************************)
EXTENDS CfgBuild

CONSTANTS LocalVars,    \* scalar locals: VarMap, aggregates left out
          PtrVars       \* pointer locals: PtrMap, a subset

ASSUME PtrAssumption == PtrVars \subseteq LocalVars

DefiningBuiltins == {"NEW", "INC", "DEC", "INCL", "EXCL"}

\* The local a place starts from; a place over a global has v = "".
PlaceVars(p) == {p.v} \cap LocalVars
IndexExprs(p) == {p.proj[i].e : i \in {j \in DOMAIN p.proj : p.proj[j].k = "Index"}}

Args(args) == {args[i] : i \in DOMAIN args}
AddrArgs(args) == {a \in Args(args) : a.k = "AddrOf"}

\* The first argument of NEW, INC, ... is lowered without AddrOf and defined.
BuiltinDefs(f, args) ==
    IF f \in DefiningBuiltins /\ args # <<>> /\ args[1].k = "Place"
    THEN PlaceVars(args[1]) ELSE {}

RECURSIVE ScanExprDefs(_)
ScanExprDefs(e) ==
    CASE e.k = "Call" ->
           UNION {PlaceVars(a) : a \in AddrArgs(e.args)}
             \cup UNION {ScanExprDefs(a) : a \in Args(e.args)} \cup BuiltinDefs(e.f, e.args)
      [] e.k = "BinaryOp" -> ScanExprDefs(e.l) \cup ScanExprDefs(e.r)
      [] e.k \in {"Not", "UnaryOp", "Deref", "TypeTransfer"} -> ScanExprDefs(e.e)
      [] OTHER -> {}

StmtDefs(s) ==
    CASE s.k = "Assign"   -> ScanExprDefs(s.value) \cup PlaceVars(s.target)
      [] s.k = "ProcCall" -> UNION {PlaceVars(a) : a \in AddrArgs(s.args)}
                               \cup BuiltinDefs(s.f, s.args)
      [] OTHER -> {}

\* The expression a terminator evaluates, as a sequence of at most one.
TermExpr(t) ==
    CASE t.k = "Branch" -> <<t.cond>>
      [] t.k = "Switch" -> <<t.e>>
      [] t.k \in {"Return", "Raise"} -> t.e
      [] OTHER -> <<>>

TermDefs(t) == UNION {ScanExprDefs(e) : e \in Args(TermExpr(t))}

RECURSIVE Uses(_)

\* Uses of call arguments: a VAR argument is a definition, its index
\* expressions are uses; so is the first argument of a defining builtin.
ArgUses(f, args) ==
    UNION {CASE args[i].k = "AddrOf" -> UNION {Uses(e) : e \in IndexExprs(args[i])}
             [] args[i].k # "AddrOf" /\ f \in DefiningBuiltins /\ i = 1 -> {}
             [] OTHER -> Uses(args[i]) : i \in DOMAIN args}

Uses(e) ==
    CASE e.k = "Place" -> PlaceVars(e) \cup UNION {Uses(x) : x \in IndexExprs(e)}
      [] e.k = "BinaryOp" -> Uses(e.l) \cup Uses(e.r)
      [] e.k \in {"Not", "UnaryOp", "Deref", "TypeTransfer"} -> Uses(e.e)
      [] e.k = "Call" -> ArgUses(e.f, e.args)
      [] e.k = "AddrOf" -> PlaceVars(e)
      [] e.k = "Set" -> UNION {Uses(x) : x \in Args(e.elems)}
      [] OTHER -> {}

StmtUses(s) ==
    CASE s.k = "Assign"   -> Uses(s.value) \cup UNION {Uses(e) : e \in IndexExprs(s.target)}
      [] s.k = "ProcCall" -> ArgUses(s.f, s.args)
      [] OTHER -> {}

TermUses(t) == UNION {Uses(e) : e \in Args(TermExpr(t))}

BlockDefs(blk) ==
    UNION {StmtDefs(blk.stmts[i]) : i \in DOMAIN blk.stmts} \cup TermDefs(blk.term)

----------------------------------------------------------------------------
(* The solver.  transfer is the block function of the analysis.            *)

RECURSIVE Enqueue(_, _)
Enqueue(work, succs) ==
    IF succs = <<>> THEN work
    ELSE Enqueue(IF Contains(work, Head(succs)) THEN work ELSE Append(work, Head(succs)),
                 Tail(succs))

\* A may-analysis join: union instead of intersection.
JoinPredsMay(preds, out, b, entry) ==
    IF preds[b] = <<>> THEN entry ELSE UNION {out[p] : p \in ToSet(preds[b])}

JoinPreds(preds, out, b, entry) ==
    IF preds[b] = <<>> THEN entry
    ELSE {v \in LocalVars : \A p \in ToSet(preds[b]) : v \in out[p]}

\* block_in is only written together with a changed block_out.
RECURSIVE Iterate(_, _, _, _)
Iterate(g, transfer, preds, r) ==
    IF r.work = <<>> THEN r
    ELSE LET b    == Head(r.work)
             in   == JoinPreds(preds, r.out, b, {})
             out  == transfer[b][in]
             rest == Tail(r.work)
         IN  Iterate(g, transfer, preds,
               IF out = r.out[b] THEN [r EXCEPT !.work = rest]
               ELSE [in |-> [r.in EXCEPT ![b] = in], out |-> [r.out EXCEPT ![b] = out],
                     work |-> Enqueue(rest, SuccSeq(g[b].term))])

SolveForward(g, transfer, bottom) ==
    Iterate(g, transfer, ComputePreds(g),
        [in   |-> [b \in DOMAIN g |-> IF b = Entry THEN {} ELSE bottom],
         out  |-> [b \in DOMAIN g |-> IF b = Entry THEN transfer[b][{}] ELSE bottom],
         work |-> Enqueue(<<>>, SuccSeq(g[Entry].term))])

----------------------------------------------------------------------------
(* W10                                                                     *)

AssignedTransfer(g) == [b \in DOMAIN g |-> [S \in SUBSET LocalVars |-> S \cup BlockDefs(g[b])]]
DefinitelyAssigned(g) == SolveForward(g, AssignedTransfer(g), LocalVars)

\* Inside a block the lint also counts what calls nested in the arguments of
\* a procedure call define (the block's transfer does not).
NestedDefs(s) == IF s.k = "ProcCall" THEN UNION {ScanExprDefs(a) : a \in Args(s.args)} ELSE {}

\* The variables assigned before statement i of block b, from block_in.
AssignedBefore(g, r, b, i) ==
    r.in[b] \cup UNION {StmtDefs(g[b].stmts[j]) \cup NestedDefs(g[b].stmts[j]) : j \in 1 .. i - 1}

\* lint_uninitialized_vars warns once per variable.
W10(g) ==
    LET r == DefinitelyAssigned(g) IN
    UNION {UNION {StmtUses(g[b].stmts[i]) \ AssignedBefore(g, r, b, i) :
                    i \in DOMAIN g[b].stmts}
             \cup (TermUses(g[b].term) \ AssignedBefore(g, r, b, Len(g[b].stmts) + 1))
           : b \in DOMAIN g}

----------------------------------------------------------------------------
(* W11                                                                     *)

\* A statement's effect on the set of pointers known not to be NIL.
NilTransferStmt(S, s) ==
    CASE s.k = "Assign" /\ s.target.proj = <<>> ->
           IF s.value.k = "NilLit" THEN S \ {s.target.v}
                                   ELSE S \cup ({s.target.v} \cap PtrVars)
      [] s.k = "ProcCall" /\ s.f \in {"NEW", "DISPOSE"} /\ s.args # <<>>
           /\ s.args[1].k \in {"AddrOf", "Place"} /\ s.args[1].proj = <<>> ->
           IF s.f = "NEW" THEN S \cup ({s.args[1].v} \cap PtrVars) ELSE S \ {s.args[1].v}
      [] OTHER -> S

NilTransfer(g) ==
    [b \in DOMAIN g |-> [S \in SUBSET LocalVars |-> FoldLeft(NilTransferStmt, S, g[b].stmts)]]
NonNil(g) == SolveForward(g, NilTransfer(g), PtrVars)

HasDeref(p) == \E i \in DOMAIN p.proj : p.proj[i].k = "Deref"
PlaceDeref(p) == IF HasDeref(p) THEN {p.v} \cap PtrVars ELSE {}

RECURSIVE Derefs(_)
Derefs(e) ==
    CASE e.k = "Place" -> PlaceDeref(e) \cup UNION {Derefs(x) : x \in IndexExprs(e)}
      [] e.k = "Deref" -> (IF e.e.k = "Place" THEN {e.e.v} \cap PtrVars ELSE {}) \cup Derefs(e.e)
      [] e.k = "BinaryOp" -> Derefs(e.l) \cup Derefs(e.r)
      [] e.k \in {"Not", "UnaryOp", "TypeTransfer"} -> Derefs(e.e)
      [] e.k = "Call" -> UNION {Derefs(a) : a \in Args(e.args)}
      [] e.k = "AddrOf" -> PlaceDeref(e)
      [] OTHER -> {}

StmtDerefs(s) ==
    CASE s.k = "Assign"   -> PlaceDeref(s.target) \cup Derefs(s.value)
      [] s.k = "ProcCall" -> UNION {Derefs(a) : a \in Args(s.args)}
      [] OTHER -> {}

TermDerefs(t) == UNION {Derefs(e) : e \in Args(TermExpr(t))}

NonNilBefore(g, r, b, i) == FoldLeft(NilTransferStmt, r.in[b], SubSeq(g[b].stmts, 1, i - 1))

W11(g) ==
    LET r == NonNil(g) IN
    UNION {UNION {StmtDerefs(g[b].stmts[i]) \ NonNilBefore(g, r, b, i) :
                    i \in DOMAIN g[b].stmts}
             \cup (TermDerefs(g[b].term) \ NonNilBefore(g, r, b, Len(g[b].stmts) + 1))
           : b \in DOMAIN g}
============================================================================
