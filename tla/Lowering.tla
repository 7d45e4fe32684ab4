------------------------------ MODULE Lowering ------------------------------
(***************************************************************************)
(* The LLVM type of every type (codegen_llvm/type_lowering.rs), and the    *)
(* storage LLVM gives to it.  An LLVM type is [k, n, of]: its kind, for an *)
(* array the number of elements, and the types it is made of.  The table   *)
(* the code fills is a function of the registry; the places of fields and  *)
(* the elements of arrays and pointers that it keeps beside it say nothing *)
(* that the registry does not say.                                         *)
(***************************************************************************)
EXTENDS Types

LLVM(k) == [k |-> k, n |-> 0, of |-> <<>>]
ArrayOfLLVM(n, elem) == [k |-> "Array", n |-> n, of |-> <<elem>>]
StructOf(fields) == [k |-> "Struct", n |-> 0, of |-> fields]

PointerKinds ==
    {"Address", "Nil", "StringLit", "Pointer", "OpenArray", "ProcedureType", "Opaque", "Ref", "RefAny", "Object"}

\* Every type that is no pointer and has no entry here is an i32, the type
\* that an import left unresolved and the type of errors among them.
Scalar ==
    [LongInt |-> LLVM("I64"), LongCard |-> LLVM("I64"), Real |-> LLVM("Float"), LongReal |-> LLVM("Double"),
     Char |-> LLVM("I8"), Byte |-> LLVM("I8"),
     Complex |-> StructOf(<<LLVM("Float"), LLVM("Float")>>), LongComplex |-> StructOf(<<LLVM("Double"), LLVM("Double")>>)]

RECURSIVE LowerType(_, _)

\* The pseudo-field of a variant part takes no place.
FixedFields(t) == SelectSeq(t.fs, LAMBDA f : f.n # "variant" \/ t.vs = <<>>)

\* The case with the most fields, the first of them, stands for the union.
MostFields(cases) ==
    CHOOSE i \in DOMAIN cases :
        \A j \in DOMAIN cases : Len(cases[j]) < Len(cases[i]) \/ (Len(cases[j]) = Len(cases[i]) /\ i <= j)

UnionFields(t) ==
    IF t.vs = <<>> \/ t.vs[1].cases = <<>> THEN <<>> ELSE t.vs[1].cases[MostFields(t.vs[1].cases)]

LowerFields(reg, fs) == [i \in DOMAIN fs |-> LowerType(reg, fs[i].t)]
LowerRecordFields(reg, t) == LowerFields(reg, FixedFields(t) \o UnionFields(t))

LowerRecord(fields) == StructOf(IF fields = <<>> THEN <<LLVM("I8")>> ELSE fields)

LowerType(reg, id) ==
    LET t == reg[id]
    IN  CASE t.k \in PointerKinds -> LLVM("Ptr")
          [] t.k = "Void"     -> LLVM(IF id = TY.VOID THEN "Void" ELSE "I32")
          [] t.k = "Array"    -> ArrayOfLLVM(t.hi + 1, LowerType(reg, t.base))
          [] t.k = "Record"   -> LowerRecord(LowerRecordFields(reg, t))
          [] t.k = "Alias"    -> LowerType(reg, t.base)
          [] t.k \in DOMAIN Scalar -> Scalar[t.k]
          [] OTHER            -> LLVM("I32")

----------------------------------------------------------------------------
(* The data layout: alignment by size, and structures like those of C.     *)

ScalarSize == [I8 |-> 1, I32 |-> 4, I64 |-> 8, Float |-> 4, Double |-> 8, Ptr |-> 8, Void |-> 0]

RECURSIVE StorageOf(_)

\* [off, al, at] behind the elements of a structure.
StructElements(ts) == FoldLeft(LAMBDA a, x : PlaceField(a, StorageOf(x)), From(0, 1), ts)
StorageOf(x) ==
    CASE x.k = "Struct" -> Whole(StructElements(x.of))
      [] x.k = "Array"  -> [size |-> x.n * StorageOf(x.of[1]).size, al |-> StorageOf(x.of[1]).al]
      [] OTHER          -> [size |-> ScalarSize[x.k], al |-> Larger(ScalarSize[x.k], 1)]
=============================================================================
