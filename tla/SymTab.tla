------------------------------- MODULE SymTab -------------------------------
(***************************************************************************)
(* The symbol table (symtab.rs).  A table has scopes, a sequence of [syms, *)
(* parent, name] where syms maps names to symbols and parent is the index  *)
(* of the enclosing scope (0 for the global scope), and the stack of open  *)
(* scopes.  The other fields of the record it is part of are left alone.   *)
(*                                                                         *)
(* A symbol is [kind, typ, exported, module, val, params, ret, scope, var, *)
(* open]: module is the module it comes from ("" for none), val the value  *)
(* of a constant or the number of an enumeration variant, params and ret   *)
(* the signature of a procedure, scope that of a module, var and open the  *)
(* flags of a parameter.  Locations and comments are left out.             *)
(***************************************************************************)
EXTENDS Types

NoVal == [k |-> "Integer", v |-> 0]

Symbol(kind, typ) ==
    [kind |-> kind, typ |-> typ, exported |-> FALSE, module |-> "", val |-> NoVal,
     params |-> <<>>, ret |-> 0, scope |-> 0, var |-> FALSE, open |-> FALSE]

NoSyms == [n \in {} |-> Symbol("Type", 0)]

Scope(name, parent) == [syms |-> NoSyms, parent |-> parent, name |-> name]

CurrentScope(st) == Last(st.stack)

PushScope(st, name) ==
    [st EXCEPT !.scopes = Append(@, Scope(name, CurrentScope(st))),
               !.stack = Append(@, Len(st.scopes) + 1)]

ReenterScope(st, sc) == [st EXCEPT !.stack = Append(@, sc)]

\* The global scope is never popped.
PopScope(st) == [st EXCEPT !.stack = IF Len(@) > 1 THEN Front(@) ELSE @]

Here(st, sc, name) == name \in DOMAIN st.scopes[sc].syms
Sym(st, sc, name) == st.scopes[sc].syms[name]

Put(st, sc, name, sym) ==
    [st EXCEPT !.scopes[sc].syms =
        [n \in DOMAIN @ \cup {name} |-> IF n = name THEN sym ELSE @[n]]]

\* An import may replace an import, a local definition an import.
Definable(st, sc, name) == Here(st, sc, name) => Sym(st, sc, name).module # ""

\* What .def exported stays exported; the caller deals with a refusal.
Define(st, sc, name, sym) ==
    LET was == Here(st, sc, name) /\ Sym(st, sc, name).exported
    IN  IF Definable(st, sc, name)
        THEN Put(st, sc, name, [sym EXCEPT !.exported = @ \/ was]) ELSE st

\* The scope that defines a name visible in sc, or 0.
RECURSIVE FindFrom(_, _, _)
FindFrom(st, sc, name) ==
    IF sc = 0 \/ Here(st, sc, name) THEN sc ELSE FindFrom(st, st.scopes[sc].parent, name)

Visible(st, sc, name) == FindFrom(st, sc, name) # 0
LookupInScope(st, sc, name) == Sym(st, FindFrom(st, sc, name), name)

\* The first scope whose symbol of that name is of one of the kinds, or 0.
FirstOf(st, name, kinds) ==
    LET in == {sc \in DOMAIN st.scopes : Here(st, sc, name) /\ Sym(st, sc, name).kind \in kinds}
    IN  IF in = {} THEN 0 ELSE CHOOSE sc \in in : \A other \in in : sc <= other

AllKinds == {"Constant", "Variable", "Type", "Procedure", "Module", "EnumVariant"}

LookupAny(st, name) == FirstOf(st, name, AllKinds)

FindType(st, name) ==
    LET sc == FirstOf(st, name, {"Type"}) IN IF sc = 0 THEN 0 ELSE Sym(st, sc, name).typ

\* The scope of a module: that of its symbol, else the last scope so named.
LookupModuleScope(st, name) ==
    LET sc == FirstOf(st, name, {"Module"})
        named == {s \in DOMAIN st.scopes : st.scopes[s].name = name}
    IN  CASE sc # 0     -> Sym(st, sc, name).scope
          [] sc = 0 /\ named # {} -> CHOOSE s \in named : \A other \in named : other <= s
          [] OTHER      -> 0

\* The scope of an exported name of a module, or 0.
ExportedIn(st, sc, name) == IF sc # 0 /\ Here(st, sc, name) /\ Sym(st, sc, name).exported THEN sc ELSE 0
LookupQualified(st, module, name) == ExportedIn(st, LookupModuleScope(st, module), name)

SetExported(st, sc, names) ==
    [st EXCEPT !.scopes[sc].syms = [n \in DOMAIN @ |-> [@[n] EXCEPT !.exported = @ \/ n \in names]]]
=============================================================================
