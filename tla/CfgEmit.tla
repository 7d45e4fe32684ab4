------------------------------ MODULE CfgEmit ------------------------------
(***************************************************************************)
(* What the two back ends emit for a graph and how the emitted code runs:  *)
(* codegen_c/cfg_emit.rs, codegen_llvm/cfg_emit.rs and the exception       *)
(* runtime of stdlib.rs (m2_exc_push, m2_exc_pop, m2_raise).               *)
(*                                                                         *)
(* Blocks are emitted in id order.  The handler region of a block is set   *)
(* up and left by TEXT order: the emitter compares a block's handler with  *)
(* the one of the block printed before it.  Emit(g) records, per block,    *)
(* the frame popped and the frame pushed at its label, the frame a Return  *)
(* pops, and the frame a reraise reads.  A frame is named by its handler.  *)
(***************************************************************************)
EXTENDS CfgBuild

\* collect_handler_regions: one frame variable per handler block.
Frames(g) == HandlerTargets(g)

\* The handler of the block printed before b.
TextHandler(g, b) == IF b = Entry THEN None ELSE g[b - 1].handler

Pops(g, b) ==
    IF /\ g[b].handler # TextHandler(g, b)
       /\ g[b].handler = None
       /\ b \notin Frames(g)
      THEN TextHandler(g, b) ELSE None

\* setjmp is emitted once per frame, at the textually first block of the region.
Pushes(g, b) ==
    IF /\ g[b].handler # None
       /\ \A c \in 1 .. b - 1 : g[c].handler # g[b].handler
      THEN g[b].handler ELSE None

ReturnPops(g, b) == IF g[b].term.k = "Return" THEN g[b].handler ELSE None

\* active_catch_frame: the last handler block printed, this one included.
CatchFrame(g, b) ==
    LET before == {h \in Frames(g) : h <= b}
    IN  IF before = {} THEN None ELSE CHOOSE h \in before : \A k \in before : k <= h

\* The frames whose exception id an exception test of block b may read.  The
\* C emitter falls back to whichever frame its hash map yields first.
TestFrames(g, b, backend) ==
    IF b \in Frames(g) THEN {b}
    ELSE IF backend = "C" THEN Frames(g) ELSE {CatchFrame(g, b)}

\* Structured statements have no emitter: both back ends panic on them.
Emittable(g) ==
    \A b \in DOMAIN g : \A i \in DOMAIN g[b].stmts :
        g[b].stmts[i].k \in {"Assign", "ProcCall", "Empty"}

----------------------------------------------------------------------------
(* The machine the emitted code runs on.  rt.top is m2_exc_stack (None:    *)
(* the frame of a caller), rt.prev and rt.id the fields of each frame.     *)

EmptyRuntime(g) ==
    [top |-> None, prev |-> [h \in Frames(g) |-> None], id |-> [h \in Frames(g) |-> ""]]

ExcPush(rt, h) ==
    IF h = None THEN rt ELSE [rt EXCEPT !.prev[h] = rt.top, !.id[h] = "", !.top = h]

ExcPop(rt, h) == IF h = None THEN rt ELSE [rt EXCEPT !.top = rt.prev[h]]

\* Entering block b: the pop, then the push and setjmp printed at its label.
EnterBlock(g, rt, b) == ExcPush(ExcPop(rt, Pops(g, b)), Pushes(g, b))

\* m2_raise longjmps to the top frame, whose setjmp code pops it and jumps
\* to the handler block.
RaiseTo(rt, x) == ExcPop([rt EXCEPT !.id[rt.top] = x], rt.top)
============================================================================
