-------------------------------- MODULE Types --------------------------------
(***************************************************************************)
(* The type registry and the compatibility rules (types.rs), and the sizes *)
(* of types on an LP64 target (target.rs).                                 *)
(*                                                                         *)
(* A registry is a sequence of types; a TypeId is an index into it.  A     *)
(* type is a record with its kind k and, where the kind has them, base     *)
(* (element, target or base type; 0 for none), lo and hi, fs (a sequence   *)
(* of fields [n, t, tn], or of parameters [var, t]), vs (the variant part: *)
(* <<>> or one [tag, cases], a case a sequence of fields), n (a name), ns  *)
(* (names of variants), md (a module, "" for the one being compiled), and  *)
(* ret (a result type, 0 for none).                                        *)
(***************************************************************************)
EXTENDS Integers, Sequences, SequencesExt

BuiltinTypes ==
    <<"Integer", "Cardinal", "Real", "LongReal", "Boolean", "Char", "Bitset", "Void", "Nil",
      "StringLit", "Word", "Byte", "Address", "LongInt", "LongCard", "Complex", "LongComplex",
      "RefAny", "ProcedureType", "Error">>

TY ==
    [INTEGER |-> 1, CARDINAL |-> 2, REAL |-> 3, LONGREAL |-> 4, BOOLEAN |-> 5, CHAR |-> 6, BITSET |-> 7,
     VOID |-> 8, NIL |-> 9, STRING |-> 10, WORD |-> 11, BYTE |-> 12, ADDRESS |-> 13, LONGINT |-> 14,
     LONGCARD |-> 15, COMPLEX |-> 16, LONGCOMPLEX |-> 17, REFANY |-> 18, PROC |-> 19, ERROR |-> 20]

Simple(k) == [k |-> k, hi |-> 0, fs |-> <<>>, ret |-> 0]

NewRegistry == [i \in DOMAIN BuiltinTypes |-> Simple(BuiltinTypes[i])]

Opaque(n, md) == [k |-> "Opaque", n |-> n, md |-> md]
Alias(n, target) == [k |-> "Alias", n |-> n, base |-> target]

IntegerKinds == {"Integer", "Cardinal", "LongInt", "LongCard"}
IsIntegerType(t) == t.k \in IntegerKinds
IsOrdinal(t) == t.k \in IntegerKinds \cup {"Boolean", "Char", "Enumeration", "Subrange"}
IsRealType(t) == t.k \in {"Real", "LongReal"}
IsComplex(t) == t.k \in {"Complex", "LongComplex"}
IsNumeric(t) == IsIntegerType(t) \/ IsRealType(t) \/ IsComplex(t)
IsPointer(t) == t.k \in {"Pointer", "Address", "Nil", "Ref", "RefAny"}
IsRef(t) == t.k \in {"Ref", "RefAny", "Object"}
IsSet(t) == t.k \in {"Set", "Bitset"}
IsStringLike(t) == t.k = "StringLit"

RECURSIVE IsUnsignedType(_, _)
IsUnsignedType(reg, id) ==
    LET t == reg[id]
    IN  \/ t.k \in {"Cardinal", "LongCard", "Word", "Byte", "Address", "Bitset", "Char", "Enumeration"}
        \/ t.k \in {"Alias", "Subrange"} /\ IsUnsignedType(reg, t.base)

MaxAliases == 50

\* The type behind a chain of aliases; resolve_type of target.rs has no limit.
RECURSIVE Unalias(_, _, _)
Unalias(reg, id, fuel) ==
    IF reg[id].k = "Alias" /\ fuel >= 0 THEN Unalias(reg, reg[id].base, fuel - 1) ELSE id

ResolveAlias(reg, id) == Unalias(reg, id, MaxAliases)

\* The name of the outermost alias; names of aliases are never empty.
TypesEquivalent(reg, a, b) ==
    \/ ResolveAlias(reg, a) = ResolveAlias(reg, b)
    \/ reg[a].k = "Alias" /\ reg[b].k = "Alias" /\ reg[a].n = reg[b].n

GetOrdinalRange(reg, id) ==
    LET t == reg[ResolveAlias(reg, id)]
    IN  CASE t.k = "Subrange"    -> <<t.lo, t.hi>>
          [] t.k = "Enumeration" -> <<0, Len(t.ns) - 1>>
          [] t.k = "Boolean"     -> <<0, 1>>
          [] t.k = "Char"        -> <<0, 255>>
          [] t.k = "Integer"     -> <<-(2^31 - 1) - 1, 2^31 - 1>>
          [] t.k = "Cardinal"    -> <<0, 2^32 - 1>>
          [] OTHER               -> <<0, 0>>

----------------------------------------------------------------------------
(* Compatibility.                                                          *)

\* What assignment_compatible accepts by the kinds of the two types.
KindsAssignable(dst, dt, st) ==
    \/ IsIntegerType(dt) /\ (IsIntegerType(st) \/ st.k \in {"Address", "Enumeration"})
    \/ dt.k = "Address" /\ IsIntegerType(st)
    \/ (IsRealType(dt) \/ IsComplex(dt)) /\ IsNumeric(st)
    \/ (IsPointer(dt) \/ dt.k \in {"ProcedureType", "Opaque"}) /\ st.k = "Nil"
    \/ IsPointer(dt) /\ (IsPointer(st) \/ st.k = "Opaque")
    \/ dt.k = "Opaque" /\ IsPointer(st)
    \/ dt.k = "RefAny" /\ IsRef(st)
    \/ IsStringLike(dt) /\ IsStringLike(st)
    \/ dt.k \in {"Array", "OpenArray"} /\ dt.base = TY.CHAR /\ IsStringLike(st)
    \/ dst = TY.CHAR /\ IsStringLike(st) /\ st.hi <= 1
    \/ IsOrdinal(dt) /\ IsOrdinal(st)
    \/ IsSet(dt) /\ IsSet(st)
    \/ dt.k = "Record" /\ st.k = "Record"
    \/ dt.k \in {"Array", "OpenArray"} /\ st.k \in {"Array", "OpenArray"}

RECURSIVE AssignmentCompatible(_, _, _)

ProceduresAssignable(reg, dt, st) ==
    /\ Len(dt.fs) = Len(st.fs)
    /\ \A i \in DOMAIN dt.fs : dt.fs[i].var = st.fs[i].var
                               /\ AssignmentCompatible(reg, dt.fs[i].t, st.fs[i].t)
    /\ (dt.ret = 0) = (st.ret = 0)
    /\ dt.ret = 0 \/ AssignmentCompatible(reg, dt.ret, st.ret)

\* The target of an alias, then the base of a subrange, destination first.
AssignmentCompatible(reg, dst, src) ==
    LET dt == reg[dst]  st == reg[src]
    IN  \/ dst = src \/ TY.ERROR \in {dst, src}
        \/ KindsAssignable(dst, dt, st)
        \/ dt.k = "ProcedureType" /\ st.k = "ProcedureType" /\ ProceduresAssignable(reg, dt, st)
        \/ CASE dt.k = "Alias"    -> AssignmentCompatible(reg, dt.base, src)
             [] dt.k # "Alias" /\ st.k = "Alias" -> AssignmentCompatible(reg, dst, st.base)
             [] st.k # "Alias" /\ dt.k = "Subrange" -> AssignmentCompatible(reg, dt.base, src)
             [] dt.k \notin {"Alias", "Subrange"} /\ st.k = "Subrange" ->
                    AssignmentCompatible(reg, dst, st.base)
             [] OTHER             -> FALSE

RECURSIVE ExpressionCompatible(_, _, _)
ExpressionCompatible(reg, a, b) ==
    LET ta == reg[a]  tb == reg[b]
    IN  \/ a = b \/ TY.ERROR \in {a, b}
        \/ IsNumeric(ta) /\ IsNumeric(tb)
        \/ ta.k = "Address" /\ (IsIntegerType(tb) \/ tb.k = "Address")
        \/ IsIntegerType(ta) /\ tb.k = "Address"
        \/ IsSet(ta) /\ IsSet(tb)
        \/ CASE ta.k = "Alias"    -> ExpressionCompatible(reg, ta.base, b)
             [] ta.k # "Alias" /\ tb.k = "Alias" -> ExpressionCompatible(reg, a, tb.base)
             [] tb.k # "Alias" /\ ta.k = "Subrange" -> ExpressionCompatible(reg, ta.base, b)
             [] ta.k \notin {"Alias", "Subrange"} /\ tb.k = "Subrange" ->
                    ExpressionCompatible(reg, a, tb.base)
             [] OTHER             -> FALSE

----------------------------------------------------------------------------
(* Sizes.                                                                  *)

AlignUp(offset, align) == ((offset + align - 1) \div align) * align

\* By TypeId: a copy of a built-in type under another id has no size.
PrimitiveSize(id, t) ==
    CASE t.k \in {"Enumeration", "Subrange", "Set"} -> 4
      [] id \notin DOMAIN BuiltinTypes -> 0
      [] t.k \in {"Char", "Byte"}      -> 1
      [] t.k \in {"LongInt", "LongCard", "LongReal", "Address", "RefAny", "Complex"} -> 8
      [] t.k = "LongComplex"           -> 16
      [] t.k \in {"Void", "Nil", "Error"} -> 0
      [] OTHER                         -> 4

PrimitiveAlign(id, t) ==
    CASE t.k \in {"Enumeration", "Subrange", "Set"} -> 4
      [] id \notin DOMAIN BuiltinTypes -> 1
      [] t.k \in {"Char", "Byte", "Void", "Nil", "Error"} -> 1
      [] t.k \in {"LongInt", "LongCard", "LongReal", "LongComplex", "Address", "RefAny"} -> 8
      [] OTHER                         -> 4

Larger(a, b) == IF a > b THEN a ELSE b

\* [size, al] of a type: its size and its alignment.
RECURSIVE Measure(_, _)

PlaceAt(a, m, off) == [off |-> off + m.size, al |-> Larger(a.al, m.al), at |-> Append(a.at, off)]
PlaceField(a, m) == PlaceAt(a, m, AlignUp(a.off, m.al))

\* Place fields one after the other from [off, al, at]; at lists their offsets.
Place(reg, start, fs) == FoldLeft(LAMBDA a, f : PlaceField(a, Measure(reg, f.t)), start, fs)

From(off, al) == [off |-> off, al |-> al, at |-> <<>>]
Whole(p) == [size |-> AlignUp(p.off, p.al), al |-> p.al]
UnionOf(u, c) == [size |-> Larger(u.size, c.size), al |-> Larger(u.al, c.al)]

\* The union of the variants of a record.
Union(reg, cases) ==
    FoldLeft(LAMBDA u, fs : UnionOf(u, Whole(Place(reg, From(0, 1), fs))), [size |-> 0, al |-> 1], cases)

\* The fields at, then the tag and the union u of a variant part.
Closed(tagged, u, at) ==
    [size |-> AlignUp(AlignUp(tagged.off, u.al) + u.size, Larger(u.al, tagged.al)),
     al |-> Larger(u.al, tagged.al), at |-> at]

\* Mutant: no padding at the end.
RecordUnpadded(reg, t, fixed) == [size |-> fixed.off, al |-> fixed.al, at |-> fixed.at]

\* The layout of a record whose fields have been placed.
CloseRecord(reg, t, fixed) ==
    IF t.vs = <<>> THEN Closed(fixed, [size |-> 0, al |-> 1], fixed.at)
    ELSE Closed(Place(reg, fixed, <<[t |-> t.vs[1].tag]>>), Union(reg, t.vs[1].cases), fixed.at)

ComputeRecordLayout(reg, t) == CloseRecord(reg, t, Place(reg, From(0, 1), t.fs))

\* The variant part counts for the size of a record, not for its alignment.
MeasureRecord(reg, t, fixed) == [size |-> CloseRecord(reg, t, fixed).size, al |-> fixed.al]

Elements(t) == IF t.hi < t.lo THEN 0 ELSE t.hi - t.lo + 1
MeasureArray(t, elem) ==
    [size |-> IF t.k = "OpenArray" THEN 12 ELSE Elements(t) * AlignUp(elem.size, elem.al), al |-> elem.al]

\* By the type r resolves to.
MeasureType(reg, r, t) ==
    CASE t.k \in {"Pointer", "Ref", "ProcedureType", "Opaque"} -> [size |-> 8, al |-> 8]
      [] t.k \in {"Array", "OpenArray"} -> MeasureArray(t, Measure(reg, t.base))
      [] t.k = "Record"    -> MeasureRecord(reg, t, Place(reg, From(0, 1), t.fs))
      [] t.k = "Object"    -> Whole(Place(reg, From(8, 8), t.fs))
      [] t.k = "StringLit" -> [size |-> t.hi + 1, al |-> 1]
      [] OTHER             -> [size |-> PrimitiveSize(r, t), al |-> PrimitiveAlign(r, t)]

Measure(reg, id) == MeasureType(reg, ResolveAlias(reg, id), reg[ResolveAlias(reg, id)])

TypeAlign(reg, id) == Measure(reg, id).al
TypeSize(reg, id) == Measure(reg, id).size
=============================================================================
