-------------------------------- MODULE Types --------------------------------
(***************************************************************************)
(* The types of the C++ compiler: struct type of sema/type.h with the      *)
(* fields its decisions read, the predicates semantic analysis asks, and   *)
(* the LLVM type mir2sir writes for it.                                    *)
(*                                                                         *)
(* A type names its base; ptr is pointer_depth, and ref, arr and const are *)
(* is_reference, is_array and is_const.  Generic arguments are part of the *)
(* base.  Three integer types stand for the eight.                         *)
(***************************************************************************)
EXTENDS Integers, Sequences, FiniteSets

CONSTANTS
  Structs, Unions, Enums    \* the names of the program's own types

Signed == {"i64", "i8"}
Unsigned == {"u64"}
Ints == Signed \cup Unsigned
Floats == {"f64"}
\* The types primitives has an entry for; void is a name without one.
Primitives == Ints \cup Floats \cup {"bool"}

ASSUME TypesAssumption ==
  /\ Structs \cap Unions = {} /\ (Structs \cup Unions) \cap Enums = {}
  /\ (Structs \cup Unions \cup Enums)
     \cap (Primitives \cup {"void", "<restrict>", "<empty array>", "<module>"}) = {}

Type(base, ptr) == [base |-> base, ptr |-> ptr, ref |-> FALSE, arr |-> FALSE, const |-> FALSE]
RefType(base, ptr) == [Type(base, ptr) EXCEPT !.ref = TRUE]
ArrayType(base) == [Type(base, 1) EXCEPT !.arr = TRUE]
ConstType(base, ptr) == [Type(base, ptr) EXCEPT !.const = TRUE]

I64 == Type("i64", 0)
Bool == Type("bool", 0)
Void == Type("void", 0)
Nil == Type("i8", 1)
RestrictType == Type("<restrict>", 0)
EmptyArray == [Type("<empty array>", 0) EXCEPT !.arr = TRUE]

\* operator==: what a pointer, array or reference flag adds is not compared.
Same(t, u) == t.base = u.base /\ t.ptr = u.ptr

IsPointer(t) == t.ptr > 0
IsInteger(t) == t.base \in Ints \/ (t.base \in Enums /\ ~IsPointer(t))
IsUnsigned(t) == t.base \in Unsigned \/ IsPointer(t)
IsFloat(t) == t.base \in Floats /\ ~IsPointer(t)
IsBoolean(t) == t.base = "bool"
IsVoid(t) == Same(t, Void)
CanBitwise(t) == (IsInteger(t) \/ IsBoolean(t)) /\ ~IsPointer(t)

PointerCopy(t) == [t EXCEPT !.ptr = @ + 1]
RefCopy(t) == [t EXCEPT !.ptr = @ - 1]
NoRef(t) == [t EXCEPT !.ref = FALSE]
NoArray(t) == [t EXCEPT !.arr = FALSE]

\* search_symbol_kind looks at the name only.
SymbolKind(t) ==
  CASE t.base \in Primitives -> "basic"
    [] t.base \in Enums -> "enum"
    [] t.base \in Structs -> "struct"
    [] t.base \in Unions -> "union"
    [] OTHER -> "error"

(***************************************************************************)
(* LLVM's types: a base and the stars behind it, or the array a field of   *)
(* array type is, in place.                                                *)
(***************************************************************************)
LlvmBase(t) ==
  CASE t.base = "bool" -> "i1"
    [] t.base \in Ints -> IF t.base = "u64" THEN "i64" ELSE t.base
    [] t.base = "f64" -> "double"
    [] t.base \in Enums -> "i64"
    [] OTHER -> t.base
Llvm(t) == [base |-> LlvmBase(t), ptr |-> t.ptr + (IF t.ref THEN 1 ELSE 0), in |-> "value"]
LlvmArray(t) == [Llvm(RefCopy(t)) EXCEPT !.in = "array"]
FieldLlvm(t) == IF t.arr THEN LlvmArray(t) ELSE Llvm(t)

Star(l) == [l EXCEPT !.ptr = @ + 1]
IsLlvmInt(l) == l.base \in {"i64", "i8", "i1"} /\ l.ptr = 0 /\ l.in = "value"
IsLlvmFloat(l) == l.base = "double" /\ l.ptr = 0 /\ l.in = "value"
IsLlvmPointer(l) == l.ptr > 0
=============================================================================
