-------------------------------- MODULE Cfg --------------------------------
(***************************************************************************)
(* The control-flow graph of one body: src/cfg/mod.rs.                     *)
(*                                                                         *)
(* A graph is the sequence of its blocks.  Block i of the model is block   *)
(* i - 1 of the code, so the entry is 1 and 0 stands for None.  A block    *)
(* holds statements (HIR records with a kind k), a terminator and the      *)
(* handler block its exceptions go to.  Terminators are records of kind    *)
(* "Goto" (to), "Branch" (cond, t, f), "Switch" (e, arms, default),        *)
(* "Return" (e), "Raise" (e) and "Open" for a block not sealed yet.        *)
(* The optional expressions of Return and Raise are sequences of length    *)
(* at most one.                                                            *)
(***************************************************************************)
EXTENDS Integers, Sequences, FiniteSets, SequencesExt

None == 0
Entry == 1
Open == [k |-> "Open"]
Goto(b) == [k |-> "Goto", to |-> b]
Branch(c, t, f) == [k |-> "Branch", cond |-> c, t |-> t, f |-> f]
Switch(e, arms, d) == [k |-> "Switch", e |-> e, arms |-> arms, default |-> d]
Return(e) == [k |-> "Return", e |-> e]
Raise(e) == [k |-> "Raise", e |-> e]

BasicBlock(handler) == [stmts |-> <<>>, term |-> Open, handler |-> handler]

SuccSeq(t) ==
    CASE t.k = "Goto"   -> <<t.to>>
      [] t.k = "Branch" -> <<t.t, t.f>>
      [] t.k = "Switch" -> Append([i \in DOMAIN t.arms |-> t.arms[i].to], t.default)
      [] OTHER          -> <<>>

Successors(t) == ToSet(SuccSeq(t))

\* remap_targets and replace_target rewrite every target of a terminator.
MapTargets(t, f(_)) ==
    CASE t.k = "Goto"   -> Goto(f(t.to))
      [] t.k = "Branch" -> Branch(t.cond, f(t.t), f(t.f))
      [] t.k = "Switch" ->
           Switch(t.e, [i \in DOMAIN t.arms |-> [t.arms[i] EXCEPT !.to = f(@)]], f(t.default))
      [] OTHER          -> t

RemapTargets(t, map) == LET f(b) == map[b] IN MapTargets(t, f)
ReplaceTarget(t, old, new) == LET f(b) == IF b = old THEN new ELSE b IN MapTargets(t, f)

\* The blocks of g that P accepts, in block order.
BlocksWhere(g, P(_)) == SelectSeq([n \in DOMAIN g |-> n], P)

\* preds[b] lists each predecessor once, in block order.
ComputePreds(g) ==
    [b \in DOMAIN g |-> BlocksWhere(g, LAMBDA p : b \in Successors(g[p].term))]

----------------------------------------------------------------------------
(* verify                                                                  *)

HandlerChain(g, b) ==
    LET chain[n \in 0 .. Len(g)] ==
          IF n = 0 THEN b
          ELSE LET h == chain[n - 1] IN IF h = None THEN None ELSE g[h].handler
    IN  chain

Verify(g, preds) ==
    /\ Len(g) >= 1
    /\ \A b \in DOMAIN g :
         /\ g[b].term.k # "Open"
         /\ Successors(g[b].term) \subseteq DOMAIN g
         /\ g[b].term.k = "Switch" =>
              /\ g[b].term.arms # <<>>
              /\ \A i \in DOMAIN g[b].term.arms : g[b].term.arms[i].labels # <<>>
         /\ g[b].handler # None => g[b].handler \in DOMAIN g \ {b}
         /\ HandlerChain(g, b)[Len(g)] = None
         /\ \A s \in Successors(g[b].term) : b \in ToSet(preds[s])
         /\ \A p \in ToSet(preds[b]) : b \in Successors(g[p].term)
    /\ Len(preds) = Len(g)
    /\ preds[Entry] = <<>>

----------------------------------------------------------------------------
(* cleanup                                                                 *)

\* The work queue of remove_unreachable: successors, and the handlers of
\* reachable blocks.
Reachable(g) ==
    LET Next(S) == S \cup UNION {Successors(g[b].term) : b \in S}
                     \cup ({g[b].handler : b \in S} \ {None})
        reach[n \in 0 .. Len(g)] == IF n = 0 THEN {Entry} ELSE Next(reach[n - 1])
    IN  reach[Len(g)]

RemoveUnreachable(g) ==
    LET live   == Reachable(g)
        newId  == [b \in DOMAIN g |->
                     IF b \in live THEN Cardinality({c \in live : c <= b}) ELSE Entry]
        rewrite(blk) == [blk EXCEPT !.term = RemapTargets(@, newId),
                                    !.handler = IF @ = None THEN None ELSE newId[@]]
        kept   == BlocksWhere(g, LAMBDA c : c \in live)
    IN  [i \in DOMAIN kept |-> rewrite(g[kept[i]])]

HandlerTargets(g) == {g[b].handler : b \in DOMAIN g} \ {None}

\* A block that collapse_trivial_gotos redirects around.
TrivialGoto(g, preds, i) ==
    /\ i # Entry
    /\ i \notin HandlerTargets(g)
    /\ Len(preds[i]) <= 1
    /\ g[i].stmts = <<>>
    /\ g[i].handler = None
    /\ g[i].term.k = "Goto"
    /\ g[i].term.to # i

\* One sweep of collapse_trivial_gotos.  The code repeats the sweep while a
\* sweep has redirected something, against predecessor lists it does not
\* recompute: a trivial block stays trivial, so the loop ends only when the
\* first sweep finds none (CollapseEnds).
CollapseSweep(g, preds) ==
    LET sweep[i \in 0 .. Len(g)] ==
          IF i = 0 THEN g
          ELSE LET h == sweep[i - 1] IN
               IF TrivialGoto(h, preds, i)
                 THEN [b \in DOMAIN h |->
                         [h[b] EXCEPT !.term = ReplaceTarget(@, i, h[i].term.to)]]
                 ELSE h
    IN  sweep[Len(g)]

CollapseEnds(g, preds) == \A i \in DOMAIN g : ~TrivialGoto(g, preds, i)

Cleanup(g) ==
    LET live == RemoveUnreachable(g) IN CollapseSweep(live, ComputePreds(live))

CleanupEnds(g) ==
    LET live == RemoveUnreachable(g) IN CollapseEnds(live, ComputePreds(live))
============================================================================
