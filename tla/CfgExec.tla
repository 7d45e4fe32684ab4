------------------------------ MODULE CfgExec ------------------------------
(***************************************************************************)
(* One body on its way through the compiler and then at run time: HIR, the *)
(* graph build_cfg makes of it, optionally Cfg::cleanup, the code a back   *)
(* end emits - run side by side with a reference semantics of the          *)
(* statements.                                                             *)
(*                                                                         *)
(* Both sides produce events: a simple statement runs, a condition or a    *)
(* selector is evaluated, an exception is raised, the body returns.  The   *)
(* outcome of a test, the arm of a selector and whether a call raises are  *)
(* the environment's choice and given to both.  The reference side is a    *)
(* stack ks of statements still to run; markers in it end a loop body      *)
(* ("LoopBack") and a protected body ("TryEnd").                           *)
(*                                                                         *)
(* EXIT and RETURN have two readings.  The documents say that EXIT leaves  *)
(* the enclosing LOOP (EXIT.md) and that FINALLY runs when its TRY body is *)
(* left early (FINALLY.md); the builder jumps to the end of the innermost  *)
(* loop of any kind, or returns, at once.  The reference follows the       *)
(* documents until the readings part; strayed says that they have, and the *)
(* reference goes on with the builder's.                                   *)
(***************************************************************************)
EXTENDS CfgEmit, CfgLint

CONSTANTS Programs,     \* the bodies to compile, with their EXCEPT and FINALLY parts
          Exceptions    \* what a call may raise

VARIABLES phase,    \* "hir", "cfg", "endless", "run", "done", "misrouted" or "panic"
          backend,  \* "C" or "LLVM"
          body,     \* the HIR of the body
          g,        \* its graph
          b, i,     \* the emitted code is before item i of block b
          rt,       \* the exception runtime
          caught,   \* the handler block the last exception went to
          asg,      \* local variables assigned so far
          nn,       \* pointer locals last set to something else than NIL
          ks,       \* the reference: what is left to run
          strayed   \* history: the two readings of EXIT and RETURN have parted

vars == <<phase, backend, body, g, b, i, rt, caught, asg, nn, ks, strayed>>

----------------------------------------------------------------------------
(* The reference semantics                                                 *)

Test(e, t, f) == [k |-> "Test", e |-> e, t |-> t, f |-> f]
LoopBack(s) == [k |-> "LoopBack", s |-> s]
TryEnd(s) == [k |-> "TryEnd", s |-> s]
RaiseItem(x) == [k |-> "Raise", e |-> <<IntLit(x)>>]
OptBody(o) == IF o = <<>> THEN <<>> ELSE o[1]

Readings == {"docs", "builder"}

IsTryEnd(m) == m.k = "TryEnd"

\* The markers of stack s at which an EXIT stops: the end of a LOOP by the
\* documents, of any loop by the builder.
LoopEnds(r, s) ==
    {n \in DOMAIN s : s[n].k = "LoopBack" /\ (r = "docs" => s[n].s.k = "Loop")}

\* The FINALLY parts on the way out through s, innermost first.
Finallies(r, s) ==
    IF r = "builder" THEN <<>>
    ELSE FlattenSeq([n \in DOMAIN s |-> IF IsTryEnd(s[n]) THEN OptBody(s[n].s.fin) ELSE <<>>])

\* What an EXIT leaves of the stack; nothing without a loop to leave.
ExitFrom(r, s) ==
    IF LoopEnds(r, s) = {} THEN <<>>
    ELSE LET n == CHOOSE n \in LoopEnds(r, s) : \A m \in LoopEnds(r, s) : n <= m
         IN  Finallies(r, SubSeq(s, 1, n - 1)) \o SubSeq(s, n + 1, Len(s))

Elsifs(s) ==
    LET chain[n \in 0 .. Len(s.elsifs)] ==
          IF n = 0 THEN OptBody(s.els)
          ELSE LET c == s.elsifs[Len(s.elsifs) - n + 1] IN <<Test(c[1], c[2], chain[n - 1])>>
    IN  chain[Len(s.elsifs)]

ForRound(s) == <<Test(ForCond(s), s.body \o <<LoopBack(s)>>, <<>>)>>

\* Starting a statement, and another round of a loop.
Start(s) ==
    CASE s.k = "If"     -> <<Test(s.cond, s.body, Elsifs(s))>>
      [] s.k = "While"  -> <<Test(s.cond, s.body \o <<LoopBack(s)>>, <<>>)>>
      [] s.k \in {"Loop", "Repeat"} -> s.body \o <<LoopBack(s)>>
      [] s.k = "For"    -> <<ForInit(s)>> \o ForRound(s)
      [] s.k = "Lock"   -> <<LockCall(s)>> \o s.body \o <<UnlockCall(s)>>
      [] s.k = "Try"    -> s.body \o <<TryEnd(s)>>
      [] OTHER          -> <<>>

Again(s) ==
    CASE s.k = "For"    -> <<ForStep(s)>> \o ForRound(s)
      [] s.k = "Repeat" -> <<Test(s.cond, <<>>, <<s>>)>>
      [] OTHER          -> <<s>>

\* Run the silent steps of reading r up to the next event.
RECURSIVE Settle(_, _)
Settle(r, s) ==
    IF s = <<>> THEN s
    ELSE LET h    == Head(s)
             rest == Tail(s)
         IN  CASE h.k \in {"Assign", "ProcCall", "Case", "TypeCase", "Raise"} -> s
               [] h.k = "Return" ->
                    IF Finallies(r, rest) = <<>> THEN s ELSE Settle(r, Finallies(r, rest) \o <<h>>)
               [] h.k = "Test" ->
                    CASE h.e.k = "BinaryOp" /\ h.e.op = "AND" ->
                           Settle(r, <<Test(h.e.l, <<Test(h.e.r, h.t, h.f)>>, h.f)>> \o rest)
                      [] h.e.k = "BinaryOp" /\ h.e.op = "OR" ->
                           Settle(r, <<Test(h.e.l, h.t, <<Test(h.e.r, h.t, h.f)>>)>> \o rest)
                      [] h.e.k = "Not" -> Settle(r, <<Test(h.e.e, h.f, h.t)>> \o rest)
                      [] OTHER -> s
               [] h.k = "LoopBack" -> Settle(r, Again(h.s) \o rest)
               [] h.k = "TryEnd" -> Settle(r, OptBody(h.s.fin) \o rest)
               [] h.k = "Exit" -> Settle(r, ExitFrom(r, rest))
               [] OTHER -> Settle(r, Start(h) \o rest)

\* The reference goes on with s: by the documents as long as that is what the
\* builder does too.
Continue(s) ==
    /\ ks' = Settle("builder", s)
    /\ strayed' = (strayed \/ Settle("docs", s) # Settle("builder", s))

\* The TRY bodies being executed.
TryDepth(s) == Cardinality({n \in DOMAIN s : IsTryEnd(s[n])})

\* An exception leaves the innermost protected body for the first clause
\* that names it, or that names none; with no such clause FINALLY runs and
\* the exception goes on.
RaiseIn(s, x) ==
    LET n    == CHOOSE n \in DOMAIN s : IsTryEnd(s[n]) /\ \A m \in 1 .. n - 1 : ~IsTryEnd(s[m])
        t    == s[n].s
        rest == SubSeq(s, n + 1, Len(s))
        hits == {c \in DOMAIN t.excepts : t.excepts[c].exc \in {<<>>, <<x>>}}
    IN  IF hits = {} THEN OptBody(t.fin) \o <<RaiseItem(x)>> \o rest
        ELSE LET c == CHOOSE c \in hits : \A d \in hits : c <= d
             IN  t.excepts[c].body \o OptBody(t.fin) \o rest

RefEvent ==
    IF ks = <<>> THEN [k |-> "Return", e |-> <<>>]
    ELSE LET h == Head(ks) IN
         CASE h.k = "Test" -> [k |-> "Test", e |-> h.e]
           [] h.k \in {"Case", "TypeCase"} ->
                [k |-> "Switch", e |-> h.e, labels |-> [n \in DOMAIN h.arms |-> h.arms[n].labels]]
           [] OTHER -> h

----------------------------------------------------------------------------
(* The emitted code                                                        *)

AtStmt == phase = "run" /\ i <= Len(g[b].stmts)
AtTerm(k) == phase = "run" /\ i > Len(g[b].stmts) /\ g[b].term.k = k
AtExcTest == AtTerm("Branch") /\ g[b].term.cond.k = "ExcTest"
AtEvent == AtStmt \/ ~(AtTerm("Goto") \/ AtExcTest)

\* The exception a Raise terminator raises: a reraise reads a catch frame.
Raised == IF g[b].term.e # <<>> THEN g[b].term.e[1].n
          ELSE IF CatchFrame(g, b) = None THEN "1" ELSE rt.id[CatchFrame(g, b)]

WrongReraise == AtTerm("Raise") /\ g[b].term.e = <<>> /\ CatchFrame(g, b) # caught

CodeEvent ==
    IF AtStmt THEN g[b].stmts[i]
    ELSE LET t == g[b].term IN
         CASE t.k = "Branch" -> [k |-> "Test", e |-> t.cond]
           [] t.k = "Switch" ->
                [k |-> "Switch", e |-> t.e, labels |-> [n \in DOMAIN t.arms |-> t.arms[n].labels]]
           [] t.k = "Raise" -> RaiseItem(Raised)
           [] OTHER -> [k |-> "Return", e |-> t.e]

\* The frames on the exception stack, innermost first (a frame pushed twice
\* links to itself).
FrameDepth ==
    LET up[n \in 0 .. Cardinality(Frames(g)) + 1] ==
          IF n = 0 THEN rt.top ELSE IF up[n - 1] = None THEN None ELSE rt.prev[up[n - 1]]
    IN  Cardinality({n \in DOMAIN up : up[n] # None})

JumpTo(t) == b' = t /\ i' = 1 /\ rt' = EnterBlock(g, rt, t)

\* m2_raise, unless the stack holds other frames than the bodies entered:
\* the exception is then misrouted and the run is given up.
Throw(x, rest) ==
    IF FrameDepth # TryDepth(rest)
      THEN phase' = "misrouted" /\ UNCHANGED <<b, i, rt, caught, ks, strayed>>
    ELSE IF rt.top = None
      THEN phase' = "done" /\ UNCHANGED <<b, i, rt, caught, ks, strayed>>
    ELSE /\ b' = rt.top
         /\ caught' = rt.top
         /\ i' = 1
         /\ rt' = EnterBlock(g, RaiseTo(rt, x), rt.top)
         /\ Continue(RaiseIn(rest, x))
         /\ UNCHANGED phase

----------------------------------------------------------------------------
(* The compiler                                                            *)

Init ==
    /\ phase = "hir"
    /\ backend \in {"C", "LLVM"}
    /\ body \in {WrapBody(p) : p \in Programs}
    /\ g = <<BasicBlock(None)>>
    /\ b = Entry /\ i = 1
    /\ rt = EmptyRuntime(g)
    /\ caught = None
    /\ asg = {} /\ nn = {}
    /\ ks = <<>> /\ strayed = FALSE

BuildGraph ==
    /\ phase = "hir"
    /\ g' = BuildCfg(body)
    /\ phase' = IF Built(body).panic \/ ~Verify(g', ComputePreds(g')) THEN "panic" ELSE "cfg"
    /\ UNCHANGED <<backend, body, b, i, rt, caught, asg, nn, ks, strayed>>

\* The optional cleanup pass, which stays in collapse_trivial_gotos when there
\* is a block to redirect around (Cfg!CollapseEnds).
CleanupGraph ==
    /\ phase = "cfg"
    /\ g' = Cleanup(g)
    /\ phase' = CASE ~CleanupEnds(g)                -> "endless"
                 [] Verify(g', ComputePreds(g')) -> "cfg"
                 [] OTHER                        -> "panic"
    /\ UNCHANGED <<backend, body, b, i, rt, caught, asg, nn, ks, strayed>>

EmitAndStart ==
    /\ phase = "cfg"
    /\ phase' = IF Emittable(g) THEN "run" ELSE "panic"
    /\ rt' = EnterBlock(g, EmptyRuntime(g), Entry)
    /\ Continue(body)
    /\ UNCHANGED <<backend, body, g, b, i, caught, asg, nn>>

----------------------------------------------------------------------------
(* The run                                                                 *)

RunStmt ==
    /\ AtStmt
    /\ i' = i + 1
    /\ asg' = asg \cup StmtDefs(g[b].stmts[i])
    /\ nn' = NilTransferStmt(nn, g[b].stmts[i])
    /\ Continue(IF ks = <<>> THEN ks ELSE Tail(ks))
    /\ UNCHANGED <<phase, backend, body, g, b, rt, caught>>

\* A procedure call raises.
CallRaises ==
    /\ AtStmt /\ g[b].stmts[i].k = "ProcCall" /\ g[b].stmts[i].f \notin {"Lock", "Unlock"}
    /\ ks # <<>>
    /\ \E x \in Exceptions : Throw(x, Tail(ks))
    /\ UNCHANGED <<backend, body, g, asg, nn>>

RunGoto ==
    /\ AtTerm("Goto")
    /\ JumpTo(g[b].term.to)
    /\ UNCHANGED <<phase, backend, body, g, caught, asg, nn, ks, strayed>>

RunBranch ==
    /\ AtTerm("Branch") /\ ~AtExcTest
    /\ \E taken \in BOOLEAN :
         /\ JumpTo(IF taken THEN g[b].term.t ELSE g[b].term.f)
         /\ Continue(IF ks = <<>> \/ Head(ks).k # "Test" THEN ks
                     ELSE (IF taken THEN Head(ks).t ELSE Head(ks).f) \o Tail(ks))
    /\ asg' = asg \cup TermDefs(g[b].term)
    /\ UNCHANGED <<phase, backend, body, g, caught, nn>>

\* The emitted test reads one of TestFrames; the one that holds the exception
\* is the frame it was caught in.
RunExcTest ==
    /\ AtExcTest
    /\ \E h \in TestFrames(g, b, backend) :
         IF h # caught
           THEN phase' = "misrouted" /\ UNCHANGED <<b, i, rt>>
         ELSE /\ JumpTo(IF rt.id[h] = g[b].term.cond.x THEN g[b].term.t ELSE g[b].term.f)
              /\ UNCHANGED phase
    /\ UNCHANGED <<backend, body, g, caught, asg, nn, ks, strayed>>

RunSwitch ==
    /\ AtTerm("Switch")
    /\ \E n \in 0 .. Len(g[b].term.arms) :
         /\ JumpTo(IF n = 0 THEN g[b].term.default ELSE g[b].term.arms[n].to)
         /\ Continue(IF ks = <<>> \/ Head(ks).k \notin {"Case", "TypeCase"} THEN ks
                     ELSE LET s == Head(ks) IN
                          (IF n = 0 THEN OptBody(s.els)
                           ELSE (IF s.k = "TypeCase" THEN TypeBinding(s, s.arms[n]) ELSE <<>>)
                                \o s.arms[n].body) \o Tail(ks))
    /\ asg' = asg \cup TermDefs(g[b].term)
    /\ UNCHANGED <<phase, backend, body, g, caught, nn>>

\* A reraise out of a frame the exception was not caught in is misrouted too.
RunRaise ==
    /\ AtTerm("Raise") /\ ks # <<>>
    /\ IF WrongReraise
         THEN phase' = "misrouted" /\ UNCHANGED <<b, i, rt, caught, ks, strayed>>
         ELSE Throw(Raised, Tail(ks))
    /\ UNCHANGED <<backend, body, g, asg, nn>>

RunReturn ==
    /\ AtTerm("Return")
    /\ phase' = "done"
    /\ rt' = ExcPop(rt, ReturnPops(g, b))
    /\ UNCHANGED <<backend, body, g, b, i, caught, asg, nn, ks, strayed>>

Next ==
    \/ BuildGraph \/ CleanupGraph \/ EmitAndStart
    \/ RunStmt \/ CallRaises \/ RunGoto \/ RunBranch \/ RunExcTest \/ RunSwitch
    \/ RunRaise \/ RunReturn

Spec == Init /\ [][Next]_vars

----------------------------------------------------------------------------
(* Properties                                                              *)

\* The statement sequences the builder lowers inside s, with the kind of the
\* innermost loop around each (FINALLY is not lowered: it is copied).
Parts(s, loop) ==
    CASE s.k \in {"While", "Loop", "Repeat", "For"} -> {<<s.body, s.k>>}
      [] s.k = "Lock" -> {<<s.body, loop>>}
      [] s.k = "If" -> {<<s.body, loop>>} \cup {<<c[2], loop>> : c \in Range(s.elsifs)}
                       \cup {<<e, loop>> : e \in Range(s.els)}
      [] s.k \in {"Case", "TypeCase"} -> {<<a.body, loop>> : a \in Range(s.arms)}
                                         \cup {<<e, loop>> : e \in Range(s.els)}
      [] s.k = "Try" -> {<<s.body, loop>>} \cup {<<c.body, loop>> : c \in Range(s.excepts)}
      [] OTHER -> {}

\* The statements of ss that no EXIT, RETURN or RAISE stands before.
Followed(ss) ==
    {n \in DOMAIN ss : \A m \in 1 .. n - 1 : ss[m].k \notin {"Exit", "Return", "Raise"}}

\* The forms the compiler does not survive: RETRY, a clause after a catch-all
\* (build.rs:665 seals twice) and, in a FINALLY part, anything but simple
\* statements (copied unlowered into a block; hir_emit.rs:742).
RECURSIVE Unsupported(_)
Unsupported(ss) ==
    \E n \in Followed(ss) :
      LET s == ss[n] IN
      \/ s.k = "Retry"
      \/ /\ s.k = "Try"
         /\ \/ \E c \in DOMAIN s.excepts : c < Len(s.excepts) /\ s.excepts[c].exc = <<>>
            \/ \E f \in Range(OptBody(s.fin)) : f.k \notin {"Assign", "ProcCall", "Empty"}
      \/ \E p \in Parts(s, "") : Unsupported(p[1])

\* The forms where the readings of EXIT and RETURN part: an EXIT directly in
\* WHILE, REPEAT or FOR, and an EXIT or RETURN out of a TRY with FINALLY.
RECURSIVE Departs(_, _, _)
Departs(ss, loop, fin) ==
    \E s \in Range(ss) :
      \/ s.k = "Exit" /\ (loop # "Loop" \/ fin)
      \/ s.k = "Return" /\ fin
      \/ \E p \in Parts(s, loop) : Departs(p[1], p[2], fin \/ (s.k = "Try" /\ s.fin # <<>>))


\* The emitted code and the statements produce the same events, as long as
\* no exception has been misrouted: short-circuit tests, ELSIF chains, loop
\* exits and back edges, FOR's latch, arms and their bindings, LOCK, and the
\* clause an exception reaches (build.rs with both cfg_emit.rs).  These are
\* the events EXIT.md and FINALLY.md promise except in a body that leaves
\* WHILE, REPEAT or FOR by an EXIT of its own, or a TRY with FINALLY by EXIT
\* or RETURN: there the code follows the builder's reading from that jump on.
TraceAgrees ==
    /\ phase = "run" /\ AtEvent /\ ~WrongReraise => CodeEvent = RefEvent
    /\ strayed => Departs(body, "", FALSE)

\* A variable W10 counts as assigned at the end of a block has been assigned
\* on every run that leaves the block without an exception (solve_forward's
\* worklist and joins, the transfer over VAR arguments and NEW, INC, ...).
AssignedSound ==
    phase = "run" /\ i > Len(g[b].stmts) /\ caught = None
      => DefinitelyAssigned(g).out[b] \subseteq asg \cup TermDefs(g[b].term)

\* What the next event reads and dereferences.
Reads == IF AtStmt THEN StmtUses(g[b].stmts[i]) ELSE TermUses(g[b].term)
Dereferences == IF AtStmt THEN StmtDerefs(g[b].stmts[i]) ELSE TermDerefs(g[b].term)

\* lint.md: W10 reports a variable that may be used before it is assigned and
\* W11 a pointer that may be NIL when it is dereferenced.
LintComplete ==
    phase = "run" /\ AtEvent /\ caught = None
      => /\ Reads \ asg \subseteq W10(g)
         /\ Dereferences \ nn \subseteq W11(g)

\* TRY.md: an exception raised inside a TRY body reaches the matching EXCEPT.
ExceptionsRouted == phase # "misrouted"
============================================================================
