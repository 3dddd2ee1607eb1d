-------------------------- MODULE ExpressionsProofs --------------------------
(***************************************************************************)
(* Proofs about Expressions, for every program: any names, fields, unions, *)
(* functions, locals and target types that satisfy ProgramAssumption, and  *)
(* expressions of any size.                                                *)
(*                                                                         *)
(* The invariant says what a parent may rely on of a finished expression,  *)
(* and what the next link may rely on of a call chain: the value mir2sir   *)
(* left is of the type the analysis returned, in the place the analysis    *)
(* believes it in.  Each step is then two facts: its instructions are      *)
(* right when the analysis accepts it and no gap applies (the lemmas       *)
(* "...Right"), and what it leaves is good again ("...Step").              *)
(***************************************************************************)
EXTENDS Expressions, SequenceTheorems, TLAPS

Bases == SymbolNames \cup {"void"}

\* The records types are, also with stars too few or none left.
TypeRecords ==
  [base : Bases \cup {"<restrict>"}, ptr : Int, ref : BOOLEAN, arr : BOOLEAN, const : BOOLEAN]

\* A place of type t: its address, in a register of the type noted for it, or
\* that of an array in its place.
Place(v, t) ==
  /\ v = Variable(v.type, v.real)
  /\ v.type \in TypeRecords /\ v.type.base = t.base /\ v.type.ptr = t.ptr + 1
  /\ v.type.ref = t.ref /\ (v.type.arr => t.arr)
  /\ \/ v.real = Star(Llvm(t))
     \/ v.type.arr /\ v.real = Star(LlvmArray(t))

\* What a value of type t is held as: in a place, as an enum's number, or not at all.
Held(v, t) ==
  \/ Place(v, t) /\ ~IsVoid(t)
  \/ v = Flag(t) /\ t.base \in Enums /\ t.ptr = 0 /\ ~t.ref
  \/ v = Symbol("none", t) /\ IsVoid(t)

\* The types and texts of numbers.
Literal64 == {<<I64, "int">>, <<Type("u64", 0), "int">>, <<Type("f64", 0), "float">>}

\* The expressions there are: a call leaves a value or a place, an assignment nothing,
\* everything else a value of its own type.
CallNode(n) ==
  /\ n.kind = "call" /\ n.text = NoText /\ IsType(n.type) /\ n.vals = <<n.vals[1]>>
  /\ Held(n.vals[1], NoRef(n.type))
  /\ n.place => Place(n.vals[1], NoRef(n.type))
NumberNode(n) == n.kind \in {"number", "neg"} /\ <<n.type, n.text>> \in Literal64
NilNode(n) == n.kind = "nil" /\ n.type = Nil /\ n.text = NoText
FoldedNode(n) ==
  /\ n.kind = "convert" /\ n.text \in {"int", "float"} /\ Declared(n.type) /\ ~n.type.ref
  /\ ~IsPointer(n.type) /\ Fits(Number(n.text, n.type), Llvm(n.type))
ValueNode(n) ==
  /\ n.kind \in {"literal", "op", "convert"} /\ n.text = NoText /\ Declared(n.type) /\ ~n.type.ref
  /\ n.vals[1] = Value(n.vals[1].kind, n.type, n.vals[1].real)
  /\ n.vals[1].kind \in {"variable", "int"} /\ Fits(n.vals[1], Llvm(n.type))
AssignNode(n) == n.kind = "assign" /\ n.type = RestrictType /\ n.text = NoText

\* A finished expression: nothing has converted it yet.
IsNode(n) ==
  /\ n = [kind |-> n.kind, type |-> n.type, own |-> n.type, text |-> n.text,
          vals |-> n.vals, place |-> n.place]
  /\ n.place \in BOOLEAN /\ (n.place => n.kind = "call")

\* What is true of every finished expression, by its kind.
NodeOK(n) ==
  /\ IsNode(n)
  /\ CallNode(n) \/ NumberNode(n) \/ NilNode(n) \/ FoldedNode(n) \/ ValueNode(n) \/ AssignNode(n)

\* The finished expressions are all good.
GoodStack(s) ==
  s \in Seq({s[i] : i \in DOMAIN s}) /\ \A i \in DOMAIN s : NodeOK(s[i])
StackOK == GoodStack(stack)

\* What the link of a chain is: a value, a symbol, a member of a union, a function.
ValueLink(l) == ~l.global /\ ~l.tag /\ l.func = NoFunc
SymbolLink(l) == l.global /\ ~l.tag /\ l.func = NoFunc
TagLink(l) == l.global /\ l.tag /\ l.func = NoFunc

\* The four kinds of call chain: a value that may be a place, the name of a type,
\* a member of a union and a function, with its object when it is a method.
ValueChain(c) ==
  /\ ValueLink(c.link) /\ IsType(c.link.type)
  /\ c.vals = <<c.vals[1]>> /\ Held(c.vals[1], c.link.type)
  /\ IsPlace(c) => Place(c.vals[1], c.link.type)
SymbolChain(c) ==
  \E s \in SymbolNames :
    /\ SymbolLink(c.link) /\ c.link.type = Type(s, 0) /\ c.head = Type(s, 0)
    /\ c.vals = <<Symbol(SymbolKind(Type(s, 0)), Type(s, 0))>>
TagChain(c) ==
  /\ TagLink(c.link) /\ Declared(c.link.type) /\ ~c.link.type.ref
  /\ \E u \in Unions : c.head = Type(u, 0)
  /\ c.vals = <<Symbol("func", c.link.type)>>
FuncChain(c) ==
  \E f \in DOMAIN Funcs :
    /\ c.link.func = f /\ c.link.global /\ ~c.link.tag
    /\ IF Funcs[f].kind = "method"
       THEN /\ c.vals = <<c.vals[1], Symbol("method", Type(f[1], 0))>>
            /\ c.vals[1] = Variable(c.vals[1].type, Llvm(RefType(f[1], 0)))
            /\ ~c.vals[1].type.ref /\ Llvm(c.vals[1].type) = Llvm(RefType(f[1], 0))
       ELSE c.vals = <<Symbol("func", Type(f[1], 0))>>
IsChain(c) ==
  /\ c = [head |-> c.head, link |-> c.link, vals |-> c.vals, init |-> c.init, last |-> c.last]
  /\ c.init \in BOOLEAN
\* What is true of every call chain.
GoodChain(c) ==
  c = NoChain \/ (IsChain(c) /\ (ValueChain(c) \/ SymbolChain(c) \/ TagChain(c) \/ FuncChain(c)))
ChainOK == GoodChain(chain)

\* The inductive invariant.
IInv == StackOK /\ ChainOK /\ WellTyped

-----------------------------------------------------------------------------
LEMMA TypeFields ==
  ASSUME NEW t, IsType(t)
  PROVE  /\ t = [base |-> t.base, ptr |-> t.ptr, ref |-> t.ref, arr |-> t.arr, const |-> t.const]
         /\ t.base \in Bases /\ t.ptr \in Nat
         /\ t.ref \in BOOLEAN /\ t.arr \in BOOLEAN /\ t.const \in BOOLEAN
  BY DEF IsType, Bases

LEMMA LlvmBaseSame ==
  ASSUME NEW t, NEW u, t.base = u.base
  PROVE  LlvmBase(t) = LlvmBase(u)
  BY DEF LlvmBase

LEMMA LlvmSame ==
  ASSUME NEW t, NEW u, t.base = u.base, t.ptr = u.ptr, t.ref = u.ref
  PROVE  Llvm(t) = Llvm(u)
  BY LlvmBaseSame DEF Llvm

LEMMA LlvmStar ==
  ASSUME NEW t, NEW u, t.base = u.base, u.ptr \in Int, t.ptr = u.ptr + 1, t.ref = u.ref
  PROVE  Llvm(t) = Star(Llvm(u))
<1>1. LlvmBase(t) = LlvmBase(u)
  BY LlvmBaseSame
<1> QED
  BY <1>1 DEF Llvm, Star

LEMMA LlvmReference ==
  ASSUME NEW t, NEW u, t.base = u.base, u.ptr \in Int, t.ptr = u.ptr + 1, t.ref = FALSE, u.ref = TRUE
  PROVE  Llvm(t) = Llvm(u)
<1>1. LlvmBase(t) = LlvmBase(u)
  BY LlvmBaseSame
<1> QED
  BY <1>1 DEF Llvm

LEMMA NoSuchName == "<restrict>" \notin Bases /\ "<empty array>" \notin Bases
  BY TypesAssumption DEF Primitives, Ints, Floats, Signed, Unsigned, SymbolNames, Bases

LEMMA NamesApart ==
  /\ "i64" \notin Enums /\ "u64" \notin Enums /\ "i8" \notin Enums /\ "f64" \notin Enums /\ "bool" \notin Enums
  /\ "void" \notin SymbolNames
  /\ \A e \in Enums : e \notin Primitives \cup Structs \cup Unions \cup {"void"}
  /\ \A s \in Structs : s \notin Primitives \cup Unions \cup Enums \cup {"void"}
  /\ \A u \in Unions : u \notin Primitives \cup Structs \cup Enums \cup {"void"}
  BY TypesAssumption DEF Primitives, Ints, Floats, Signed, Unsigned, SymbolNames

\* What LLVM makes of a type that is no pointer.
LEMMA IntegerLlvm ==
  ASSUME NEW t, IsType(t), ~t.ref, IsInteger(t), ~IsPointer(t)
  PROVE  IsLlvmInt(Llvm(t)) /\ ~IsFloat(t)
<1>1. t.ptr = 0
  BY TypeFields DEF IsPointer
<1>2. LlvmBase(t) \in {"i64", "i8"}
  BY NamesApart, <1>1 DEF LlvmBase, IsInteger, Ints, Signed, Unsigned, IsPointer
<1>3. ~IsFloat(t)
  BY NamesApart DEF IsFloat, IsInteger, Floats, Ints, Signed, Unsigned
<1> QED
  BY <1>1, <1>2, <1>3 DEF Llvm, IsLlvmInt

LEMMA FloatLlvm ==
  ASSUME NEW t, IsType(t), ~t.ref, IsFloat(t)
  PROVE  IsLlvmFloat(Llvm(t)) /\ ~IsInteger(t) /\ ~IsBoolean(t)
<1>1. t.ptr = 0
  BY TypeFields DEF IsPointer, IsFloat
<1>2. t.base = "f64"
  BY DEF IsFloat, Floats
<1> QED
  BY <1>1, <1>2, NamesApart DEF Llvm, LlvmBase, IsLlvmFloat, IsInteger, IsBoolean, Ints, Signed, Unsigned

LEMMA BooleanLlvm ==
  ASSUME NEW t, IsType(t), ~t.ref, IsBoolean(t), ~IsPointer(t)
  PROVE  IsLlvmInt(Llvm(t)) /\ Llvm(t) = Llvm(Bool) /\ ~IsInteger(t) /\ ~IsFloat(t)
<1>1. t.ptr = 0
  BY TypeFields DEF IsPointer
<1> QED
  BY <1>1, NamesApart DEF Llvm, LlvmBase, IsLlvmInt, IsInteger, IsFloat, Floats, IsBoolean, Ints, Signed, Unsigned, Bool, Type

LEMMA PointerLlvm ==
  ASSUME NEW t, IsType(t), IsPointer(t)
  PROVE  IsLlvmPointer(Llvm(t))
  BY TypeFields DEF Llvm, IsLlvmPointer, IsPointer

-----------------------------------------------------------------------------
(***************************************************************************)
(* Types and values.  Records of types, and the places values are kept in. *)
(***************************************************************************)
LEMMA SameRecord ==
  ASSUME NEW t \in TypeRecords, NEW u \in TypeRecords,
         t.base = u.base, t.ptr = u.ptr, t.ref = u.ref, t.arr = u.arr, t.const = u.const
  PROVE  t = u
  BY DEF TypeRecords

LEMMA TypeRecord ==
  ASSUME NEW t, IsType(t)
  PROVE  t \in TypeRecords /\ t.ptr \in Nat /\ t.base \in Bases
  BY DEF IsType, Bases, TypeRecords

LEMMA PointerRecord ==
  ASSUME NEW t \in TypeRecords
  PROVE  /\ PointerCopy(t) \in TypeRecords
         /\ PointerCopy(t).base = t.base /\ PointerCopy(t).ptr = t.ptr + 1
         /\ PointerCopy(t).ref = t.ref /\ PointerCopy(t).arr = t.arr /\ PointerCopy(t).const = t.const
  BY DEF TypeRecords, PointerCopy

LEMMA RefRecord ==
  ASSUME NEW t \in TypeRecords
  PROVE  /\ RefCopy(t) \in TypeRecords
         /\ RefCopy(t).base = t.base /\ RefCopy(t).ptr = t.ptr - 1
         /\ RefCopy(t).ref = t.ref /\ RefCopy(t).arr = t.arr /\ RefCopy(t).const = t.const
  BY DEF TypeRecords, RefCopy

LEMMA NoRefRecord ==
  ASSUME NEW t \in TypeRecords
  PROVE  /\ NoRef(t) \in TypeRecords
         /\ NoRef(t).base = t.base /\ NoRef(t).ptr = t.ptr
         /\ NoRef(t).ref = FALSE /\ NoRef(t).arr = t.arr /\ NoRef(t).const = t.const
  BY DEF TypeRecords, NoRef

LEMMA NoArrayRecord ==
  ASSUME NEW t \in TypeRecords
  PROVE  /\ NoArray(t) \in TypeRecords
         /\ NoArray(t).base = t.base /\ NoArray(t).ptr = t.ptr
         /\ NoArray(t).ref = t.ref /\ NoArray(t).arr = FALSE /\ NoArray(t).const = t.const
  BY DEF TypeRecords, NoArray

LEMMA NoRefType ==
  ASSUME NEW t, IsType(t)
  PROVE  /\ IsType(NoRef(t)) /\ ~NoRef(t).ref
         /\ Same(NoRef(t), t) /\ NoRef(t).arr = t.arr
         /\ ~t.ref => NoRef(t) = t
<1>1. t \in TypeRecords /\ NoRef(t) \in TypeRecords
  BY TypeRecord, NoRefRecord
<1>2. ~t.ref => NoRef(t) = t
  <2>1. HAVE ~t.ref
  <2>2. t.ref = FALSE
    BY <2>1, TypeFields
  <2>3. /\ NoRef(t).base = t.base /\ NoRef(t).ptr = t.ptr /\ NoRef(t).ref = t.ref
        /\ NoRef(t).arr = t.arr /\ NoRef(t).const = t.const
    BY <1>1, <2>2, NoRefRecord
  <2> QED
    BY <1>1, <2>3, SameRecord
<1>3. NoRef(t).base = t.base /\ NoRef(t).ptr = t.ptr /\ NoRef(t).ref = FALSE /\ NoRef(t).arr = t.arr
  BY <1>1, NoRefRecord
<1>4. NoRef(t) \in [base : SymbolNames \cup {"void"}, ptr : Nat, ref : BOOLEAN, arr : BOOLEAN, const : BOOLEAN]
  BY <1>1, <1>3, TypeRecord DEF TypeRecords, Bases
<1>5. IsType(NoRef(t))
  BY <1>3, <1>4 DEF IsType, IsVoid, Same, Void, IsPointer
<1> QED
  BY <1>2, <1>3, <1>5 DEF Same

LEMMA ValueFields ==
  ASSUME NEW kind, NEW t, NEW real
  PROVE  /\ Value(kind, t, real).kind = kind /\ Value(kind, t, real).type = t
         /\ Value(kind, t, real).real = real
  BY DEF Value

\* What a value must be where one of the type t is expected.
Stands(v, t) ==
  /\ v.kind \in Printable /\ Same(v.type, t) /\ v.type \in TypeRecords /\ ~v.type.ref
  /\ Fits(v, Llvm(t))

LEMMA StandsLlvm ==
  ASSUME NEW v, NEW t, IsType(t), ~t.ref, Stands(v, t)
  PROVE  Llvm(v.type) = Llvm(t) /\ Fits(v, Llvm(v.type))
<1>1. v.type.base = t.base /\ v.type.ptr = t.ptr /\ v.type.ref = t.ref
  BY TypeFields DEF Stands, Same, TypeRecords
<1> QED
  BY <1>1, LlvmSame DEF Stands

\* The predicates on types only look at base and stars.
LEMMA SamePredicates ==
  ASSUME NEW t, NEW u, Same(t, u)
  PROVE  /\ IsPointer(t) = IsPointer(u) /\ IsInteger(t) = IsInteger(u)
         /\ IsUnsigned(t) = IsUnsigned(u) /\ IsFloat(t) = IsFloat(u)
         /\ IsBoolean(t) = IsBoolean(u) /\ CanBitwise(t) = CanBitwise(u)
         /\ IsVoid(t) = IsVoid(u)
  BY DEF Same, IsPointer, IsInteger, IsUnsigned, IsFloat, IsBoolean, CanBitwise, IsVoid

LEMMA SameKind ==
  ASSUME NEW t, NEW u, Same(t, u)
  PROVE  SymbolKind(t) = SymbolKind(u)
  BY DEF Same, SymbolKind

LEMMA SameInstruction ==
  ASSUME NEW t, NEW u, Same(t, u), NEW opr
  PROVE  Instruction(opr, t) = Instruction(opr, u)
<1>1. /\ IsPointer(t) = IsPointer(u) /\ IsInteger(t) = IsInteger(u)
      /\ IsUnsigned(t) = IsUnsigned(u) /\ IsBoolean(t) = IsBoolean(u)
  BY SamePredicates
<1>2. SymbolKind(t) = SymbolKind(u)
  BY SameKind
<1> QED
  BY <1>1, <1>2 DEF Instruction

-----------------------------------------------------------------------------
\* Places.
LEMMA PlaceFields ==
  ASSUME NEW v, NEW t, IsType(t), Place(v, t)
  PROVE  /\ v.kind = "variable" /\ v.type \in TypeRecords
         /\ v.type.base = t.base /\ v.type.ptr = t.ptr + 1 /\ v.type.ref = t.ref
         /\ v.type.arr => t.arr
         /\ IsPointer(v.type)
<1>1. v.kind = "variable"
  BY ValueFields DEF Place, Variable
<1> QED
  BY <1>1, TypeFields DEF Place, IsPointer

LEMMA VariableFields ==
  ASSUME NEW t, NEW real
  PROVE  /\ Variable(t, real).kind = "variable" /\ Variable(t, real).type = t /\ Variable(t, real).real = real
         /\ Variable(t, real) = Variable(Variable(t, real).type, Variable(t, real).real)
  BY DEF Variable, Value

LEMMA RegisterIsPlace ==
  ASSUME NEW t, IsType(t)
  PROVE  Place(Variable(PointerCopy(t), Star(Llvm(t))), t)
<1>1. /\ PointerCopy(t) \in TypeRecords /\ PointerCopy(t).base = t.base
      /\ PointerCopy(t).ptr = t.ptr + 1 /\ PointerCopy(t).ref = t.ref /\ PointerCopy(t).arr = t.arr
  BY TypeRecord, PointerRecord
<1> QED
  BY <1>1, VariableFields DEF Place

LEMMA SlotIsPlace ==
  ASSUME NEW t, IsType(t)
  PROVE  Place(Slot(t), t)
<1>0. t \in TypeRecords /\ NoArray(t) \in TypeRecords
  BY TypeRecord, NoArrayRecord
<1>1. NoArray(t).base = t.base /\ NoArray(t).ptr = t.ptr /\ NoArray(t).ref = t.ref /\ NoArray(t).arr = FALSE
  BY <1>0, NoArrayRecord
<1>2. Llvm(NoArray(t)) = Llvm(t)
  BY <1>1, LlvmSame
<1> DEFINE p == PointerCopy(NoArray(t))
<1>3. p \in TypeRecords /\ p.base = t.base /\ p.ptr = t.ptr + 1 /\ p.ref = t.ref /\ p.arr = FALSE
  BY <1>0, <1>1, PointerRecord
<1>4. Slot(t) = Variable(p, Star(Llvm(t)))
  BY <1>2 DEF Slot
<1> HIDE DEF p
<1> QED
  BY <1>3, <1>4, VariableFields DEF Place

LEMMA FieldIsPlace ==
  ASSUME NEW t, IsType(t), NEW s
  PROVE  Place(FieldAt(s, t), t)
<1>1. /\ PointerCopy(t) \in TypeRecords /\ PointerCopy(t).base = t.base
      /\ PointerCopy(t).ptr = t.ptr + 1 /\ PointerCopy(t).ref = t.ref /\ PointerCopy(t).arr = t.arr
  BY TypeRecord, PointerRecord
<1> DEFINE r == Star(IF s.base \in Unions THEN Llvm(t) ELSE FieldLlvm(t))
<1>2. r = Star(Llvm(t)) \/ (t.arr /\ r = Star(LlvmArray(t)))
  BY DEF FieldLlvm
<1>3. FieldAt(s, t) = Variable(PointerCopy(t), r)
  BY DEF FieldAt
<1> HIDE DEF r
<1> QED
  BY <1>1, <1>2, <1>3, VariableFields DEF Place

\* Behind a reference is the place it refers to.
LEMMA DeReferencePlace ==
  ASSUME NEW v, NEW t, IsType(t), Place(v, t)
  PROVE  Place(DeReference(v), NoRef(t)) /\ EmitDeReference(v) = {}
<1>1. CASE ~t.ref
  <2>1. NoRef(t) = t /\ ~v.type.ref
    BY <1>1, NoRefType, PlaceFields
  <2> QED
    BY <2>1 DEF DeReference, EmitDeReference
<1>2. CASE t.ref
  <2>1. v.type.ref /\ v.type \in TypeRecords /\ v.type.base = t.base /\ v.type.ptr = t.ptr + 1
    BY <1>2, PlaceFields
  <2>0. ~v.type.arr
    BY <1>2, PlaceFields DEF IsType
  <2> DEFINE u == NoRef(v.type)
  <2>2. u \in TypeRecords /\ u.base = t.base /\ u.ptr = t.ptr + 1 /\ u.ref = FALSE /\ u.arr = v.type.arr
    BY <2>1, NoRefRecord
  <2>12. t \in TypeRecords /\ t.ptr \in Int
    BY TypeRecord
  <2>3. NoRef(t).base = t.base /\ NoRef(t).ptr = t.ptr /\ NoRef(t).ref = FALSE /\ t.ptr \in Int
    BY <2>12, NoRefRecord
  <2>5. v.real = Star(Llvm(t))
    BY <2>0 DEF Place
  <2>8. DeReference(v) = Variable(u, Llvm(u)) /\ EmitDeReference(v) = EmitLoad(u, v)
    BY <2>1 DEF DeReference, EmitDeReference, Loaded, Claimed
  <2> HIDE DEF u
  <2>4. Llvm(u) = Star(Llvm(NoRef(t)))
    BY <2>2, <2>3, LlvmStar
  <2>6. Llvm(u) = Llvm(t)
    BY <2>2, <2>3, <1>2, LlvmReference
  <2>7. EmitDeReference(v) = {}
    BY <2>5, <2>6, <2>8, PlaceFields DEF EmitLoad, Refused
  <2>9. /\ DeReference(v).type = u /\ DeReference(v).real = Star(Llvm(NoRef(t)))
        /\ DeReference(v) = Variable(DeReference(v).type, DeReference(v).real)
    BY <2>4, <2>8, VariableFields
  <2>10. u.arr => NoRef(t).arr
    BY <2>0, <2>2
  <2> QED
    BY <2>2, <2>3, <2>7, <2>9, <2>10 DEF Place
<1> QED
  BY <1>1, <1>2, TypeFields

\* Following a reference leaves what it refers to.
LEMMA DeReferenceHeld ==
  ASSUME NEW v, NEW t, IsType(t), Held(v, t)
  PROVE  Held(DeReference(v), NoRef(t)) /\ EmitDeReference(v) = {}
<1>1. CASE Place(v, t) /\ ~IsVoid(t)
  <2>1. ~IsVoid(NoRef(t))
    BY <1>1, NoRefType, SamePredicates
  <2> QED
    BY <1>1, <2>1, DeReferencePlace DEF Held
<1>2. CASE v = Flag(t) /\ t.base \in Enums /\ t.ptr = 0 /\ ~t.ref
  <2>1. NoRef(t) = t
    BY <1>2, NoRefType
  <2>2. v.type = t
    BY <1>2 DEF Flag, Value
  <2> QED
    BY <1>2, <2>1, <2>2 DEF Held, DeReference, EmitDeReference
<1>3. CASE v = Symbol("none", t) /\ IsVoid(t)
  <2>1. ~t.ref /\ NoRef(t) = t
    BY <1>3, NoRefType DEF IsType
  <2>2. v.type = t
    BY <1>3 DEF Symbol, Value
  <2> QED
    BY <1>3, <2>1, <2>2 DEF Held, DeReference, EmitDeReference
<1> QED
  BY <1>1, <1>2, <1>3 DEF Held

\* What the value of an expression of type t must be, and the calls that leave one.

LEMMA SameLlvm ==
  ASSUME NEW t, NEW u, Same(t, u), t.ref = u.ref
  PROVE  Llvm(t) = Llvm(u)
  BY LlvmSame DEF Same

LEMMA InValue ==
  ASSUME NEW t
  PROVE  Llvm(t).in = "value" /\ Star(Llvm(t)).in = "value"
  BY DEF Llvm, Star

LEMMA LlvmArrayFields ==
  ASSUME NEW t
  PROVE  /\ LlvmArray(t) = [base |-> Llvm(RefCopy(t)).base, ptr |-> Llvm(RefCopy(t)).ptr, in |-> "array"]
         /\ Star(LlvmArray(t)).in = "array"
  BY DEF Llvm, LlvmArray, Star

LEMMA LlvmArraySame ==
  ASSUME NEW t \in TypeRecords, NEW u \in TypeRecords, t.base = u.base, t.ptr = u.ptr, t.ref = u.ref
  PROVE  LlvmArray(t) = LlvmArray(u)
<1>1. RefCopy(t).base = RefCopy(u).base /\ RefCopy(t).ptr = RefCopy(u).ptr /\ RefCopy(t).ref = RefCopy(u).ref
  BY RefRecord
<1>2. Llvm(RefCopy(t)) = Llvm(RefCopy(u))
  BY <1>1, LlvmSame
<1> QED
  BY <1>2 DEF LlvmArray

\* The value call_expression_generation leaves for what a call names.
LEMMA FlagFits ==
  ASSUME NEW t, IsType(t), t.base \in Enums, t.ptr = 0, ~t.ref
  PROVE  Stands(Flag(t), t)
<1>1. IsInteger(t) /\ ~IsPointer(t)
  BY DEF IsInteger, IsPointer
<1>2. IsLlvmInt(Llvm(t))
  BY <1>1, IntegerLlvm
<1>3. Flag(t).kind = "int" /\ Flag(t).type = t
  BY DEF Flag, Value
<1> QED
  BY <1>2, <1>3, TypeRecord DEF Stands, Fits, Printable, Same

LEMMA VariableStands ==
  ASSUME NEW w, NEW t, NEW e \in TypeRecords, w = Variable(e, Llvm(t)),
         e.base = t.base, e.ptr = t.ptr, e.ref = FALSE
  PROVE  Stands(w, t)
<1>1. w.kind = "variable" /\ w.type = e /\ w.real = Llvm(t)
  BY VariableFields
<1>2. Same(e, t) /\ ~e.ref
  BY DEF Same
<1> QED
  BY <1>1, <1>2 DEF Stands, Printable, Fits

LEMMA CallPlaceStands ==
  ASSUME NEW v, NEW t, IsType(t), ~t.ref, Place(v, t), ReadAsArray(v) = {}
  PROVE  Stands(CallValue(v, FALSE), t) /\ EmitCallValue(v, FALSE) = {}
<1> DEFINE p == v.type
           e == RefCopy(p)
<1>1. p \in TypeRecords /\ p.base = t.base /\ p.ptr = t.ptr + 1 /\ p.ref = FALSE /\ IsPointer(p)
  BY PlaceFields, TypeFields
<1>2. e \in TypeRecords /\ e.base = t.base /\ e.ptr = t.ptr /\ e.ref = FALSE
  BY <1>1, RefRecord, TypeRecord
<1>3. Llvm(e) = Llvm(t)
  BY <1>2, LlvmSame, TypeFields
<1>4. CASE p.arr
  <2>1. InPlace(v)
    BY <1>4 DEF ReadAsArray, Gap
  <2>2. v.real = Star(LlvmArray(t))
    BY <2>1, InValue DEF Place, InPlace
  <2>3. LlvmArray(e) = LlvmArray(t)
    BY <1>2, LlvmArraySame, TypeRecord, TypeFields
  <2>4. EmitCallValue(v, FALSE) = {}
    BY <1>1, <1>4, <2>2, <2>3 DEF EmitCallValue, Refused
  <2>5. RefCopy(e).base = t.base /\ RefCopy(e).ptr = t.ptr - 1 /\ RefCopy(e).ref = FALSE
    BY <1>2, RefRecord
  <2>6. Llvm(t) = Star(Llvm(RefCopy(e)))
    <3>1. t.ptr \in Int /\ t.ref = FALSE
      BY TypeFields
    <3>2. RefCopy(e).ptr \in Int /\ t.ptr = RefCopy(e).ptr + 1
      BY <2>5, <3>1
    <3> QED
      BY <2>5, <3>1, <3>2, LlvmStar
  <2>7. CallValue(v, FALSE) = Variable(e, Llvm(t))
    BY <1>1, <1>4, <2>6 DEF CallValue
  <2> QED
    BY <1>2, <2>4, <2>7, VariableStands
<1>5. CASE ~p.arr
  <2>1. v.real = Star(Llvm(t)) /\ v.kind = "variable"
    BY <1>5, PlaceFields DEF Place
  <2>2. CallValue(v, FALSE) = Loaded(e) /\ EmitCallValue(v, FALSE) = EmitLoad(e, v)
    BY <1>1, <1>5 DEF CallValue, EmitCallValue
  <2>3. EmitCallValue(v, FALSE) = {}
    BY <1>3, <2>1, <2>2 DEF EmitLoad, Refused
  <2>4. CallValue(v, FALSE) = Variable(e, Llvm(t))
    BY <1>3, <2>2 DEF Loaded, Claimed
  <2> QED
    BY <1>2, <2>3, <2>4, VariableStands
<1> QED
  BY <1>1, <1>4, <1>5 DEF TypeRecords

LEMMA CallStands ==
  ASSUME NEW v, NEW t, IsType(t), ~t.ref, Held(v, t), ~IsVoid(t), ReadAsArray(v) = {}
  PROVE  Stands(CallValue(v, FALSE), t) /\ EmitCallValue(v, FALSE) = {}
<1>1. CASE Place(v, t)
  BY <1>1, CallPlaceStands
<1>2. CASE v = Flag(t) /\ t.base \in Enums /\ t.ptr = 0 /\ ~t.ref
  <2>1. v.type = t /\ ~IsPointer(v.type)
    BY <1>2 DEF Flag, Value, IsPointer
  <2>3. ~v.type.arr
    BY <1>2, <2>1 DEF IsType
  <2>2. CallValue(v, FALSE) = v /\ EmitCallValue(v, FALSE) = {}
    BY <2>1, <2>3 DEF CallValue, EmitCallValue
  <2> QED
    BY <1>2, <2>2, FlagFits
<1> QED
  BY <1>1, <1>2 DEF Held

\* What is left for a void function has no value to load either.
LEMMA CallVoid ==
  ASSUME NEW v, NEW t, Held(v, t), IsVoid(t), IsType(t)
  PROVE  EmitCallValue(v, FALSE) = {} /\ v = Symbol("none", t) /\ ~IsPointer(v.type)
<1>1. v = Symbol("none", t)
  BY NamesApart DEF Held, IsVoid, Same, Void, Type
<1>2. v.type = t
  BY <1>1 DEF Symbol, Value
<1>3. ~IsPointer(t)
  BY DEF IsVoid, Same, Void, Type, IsPointer
<1>4. ~t.arr
  BY <1>3 DEF IsType
<1>5. EmitCallValue(v, FALSE) = {}
  BY <1>2, <1>3, <1>4 DEF EmitCallValue
<1> QED
  BY <1>1, <1>2, <1>3, <1>5
-----------------------------------------------------------------------------
\* The value of a node, by its kind.
LEMMA NodeFields ==
  ASSUME NEW n, NodeOK(n)
  PROVE  n.own = n.type /\ n.place \in BOOLEAN /\ (n.place => n.kind = "call")
  BY DEF NodeOK, IsNode

LEMMA NodeKinds ==
  ASSUME NEW n, NodeOK(n)
  PROVE  /\ n.kind = "call" => CallNode(n)
         /\ n.kind \in {"number", "neg"} => NumberNode(n)
         /\ n.kind = "nil" => NilNode(n)
         /\ n.kind = "assign" => AssignNode(n)
         /\ n.kind \in {"literal", "op", "convert"} => FoldedNode(n) \/ ValueNode(n)
         /\ n.kind \in {"call", "number", "neg", "nil", "assign", "literal", "op", "convert"}
  BY DEF NodeOK, CallNode, NumberNode, NilNode, AssignNode, FoldedNode, ValueNode

LEMMA LiteralTypes ==
  /\ IsType(I64) /\ IsType(Type("u64", 0)) /\ IsType(Type("f64", 0)) /\ IsType(Nil) /\ IsType(Bool)
  /\ ~IsVoid(I64) /\ ~IsVoid(Type("u64", 0)) /\ ~IsVoid(Type("f64", 0)) /\ ~IsVoid(Nil) /\ ~IsVoid(Bool)
  BY DEF I64, Type, Nil, Bool, IsType, IsVoid, Same, Void, IsPointer, SymbolNames, Primitives,
         Ints, Floats, Signed, Unsigned

LEMMA PlainTypes ==
  ASSUME NEW b, NEW p
  PROVE  Type(b, p).base = b /\ Type(b, p).ptr = p /\ Type(b, p).ref = FALSE /\ Type(b, p).arr = FALSE
         /\ Type(b, p).const = FALSE
  BY DEF Type

LEMMA NodeType ==
  ASSUME NEW n, NodeOK(n), n.kind # "assign"
  PROVE  IsType(n.type) /\ (n.kind # "call" => ~IsVoid(n.type) /\ ~n.type.ref)
<1>1. CASE n.kind = "call"
  BY <1>1, NodeKinds DEF CallNode
<1>2. CASE n.kind \in {"number", "neg"}
  <2>1. n.type \in {I64, Type("u64", 0), Type("f64", 0)}
    BY <1>2, NodeKinds DEF NumberNode, Literal64
  <2>2. ~I64.ref /\ ~Type("u64", 0).ref /\ ~Type("f64", 0).ref
    BY DEF Type, I64
  <2> QED
    BY <1>2, <2>1, <2>2, LiteralTypes
<1>3. CASE n.kind = "nil"
  <2>1. n.type = Nil
    BY <1>3, NodeKinds DEF NilNode
  <2>2. ~Nil.ref
    BY DEF Type, Nil
  <2> QED
    BY <1>3, <2>1, <2>2, LiteralTypes
<1>4. CASE n.kind \in {"literal", "op", "convert"}
  BY <1>4, NodeKinds DEF FoldedNode, ValueNode, Declared
<1> QED
  BY <1>1, <1>2, <1>3, <1>4, NodeKinds

LEMMA NumberValue ==
  ASSUME NEW text \in {"int", "float"}, NEW t
  PROVE  /\ Number(text, t).type = t
         /\ Number(text, t).kind = IF text = "int" /\ ~IsInteger(t) THEN "float" ELSE text
         /\ Number(text, t).kind \in Printable
  BY DEF Number, Value, Printable

LEMMA NumberStands ==
  ASSUME NEW text \in {"int", "float"}, NEW t, IsType(t), ~IsPointer(t),
         (IsInteger(t) /\ text = "int") \/ IsFloat(t)
  PROVE  Fits(Number(text, t), Llvm(NoRef(t)))
<1> DEFINE u == NoRef(t)
<1>1. IsType(u) /\ ~u.ref /\ Same(u, t)
  BY NoRefType
<1>2. IsInteger(t) = IsInteger(u) /\ IsFloat(t) = IsFloat(u) /\ ~IsPointer(u)
  BY <1>1, SamePredicates
<1> HIDE DEF u
<1>3. CASE IsInteger(t) /\ text = "int"
  <2>1. IsLlvmInt(Llvm(u))
    BY <1>1, <1>2, <1>3, IntegerLlvm
  <2>2. Number(text, t).kind = "int"
    BY <1>3, NumberValue
  <2>3. Fits(Number(text, t), Llvm(u))
    BY <2>1, <2>2 DEF Fits
  <2> QED
    BY <2>3 DEF u
<1>4. CASE IsFloat(t)
  <2>1. IsLlvmFloat(Llvm(u)) /\ ~IsInteger(t)
    BY <1>1, <1>2, <1>4, FloatLlvm
  <2>2. Number(text, t).kind = "float"
    BY <2>1, NumberValue
  <2>3. Fits(Number(text, t), Llvm(u))
    BY <2>1, <2>2 DEF Fits
  <2> QED
    BY <2>3 DEF u
<1> QED
  BY <1>3, <1>4

LEMMA NumberNodeTypes ==
  ASSUME NEW n, NumberNode(n)
  PROVE  /\ n.text \in {"int", "float"} /\ n.text # NoText /\ ~IsPointer(n.type) /\ ~n.type.ref
         /\ IsInteger(n.type) <=> n.text = "int"
         /\ IsFloat(n.type) <=> n.text = "float"
         /\ IsInteger(n.type) \/ IsFloat(n.type)
<1>1. <<n.type, n.text>> \in Literal64
  BY DEF NumberNode
<1>2. \/ n.type = I64 /\ n.text = "int"
      \/ n.type = Type("u64", 0) /\ n.text = "int"
      \/ n.type = Type("f64", 0) /\ n.text = "float"
  BY <1>1 DEF Literal64
<1>3. /\ IsInteger(I64) /\ ~IsFloat(I64) /\ ~IsPointer(I64)
      /\ IsInteger(Type("u64", 0)) /\ ~IsFloat(Type("u64", 0)) /\ ~IsPointer(Type("u64", 0))
  BY DEF I64, Type, IsInteger, IsFloat, IsPointer, Ints, Floats, Signed, Unsigned
<1>4. ~IsInteger(Type("f64", 0)) /\ IsFloat(Type("f64", 0)) /\ ~IsPointer(Type("f64", 0))
  <2>1. "f64" \notin Enums /\ "f64" \notin Ints
    BY NamesApart DEF Ints, Signed, Unsigned
  <2>2. Type("f64", 0).base = "f64" /\ Type("f64", 0).ptr = 0
    BY DEF Type
  <2> QED
    BY <2>1, <2>2 DEF IsInteger, IsFloat, IsPointer, Floats
<1>8. ~I64.ref /\ ~Type("u64", 0).ref /\ ~Type("f64", 0).ref
  BY DEF Type, I64
<1>9. "int" # NoText /\ "float" # NoText
  BY DEF NoText
<1>5. CASE n.type = I64 /\ n.text = "int"
  BY <1>3, <1>5, <1>8, <1>9
<1>6. CASE n.type = Type("u64", 0) /\ n.text = "int"
  BY <1>3, <1>6, <1>8, <1>9
<1>7. CASE n.type = Type("f64", 0) /\ n.text = "float"
  BY <1>4, <1>7, <1>8, <1>9
<1> QED
  BY <1>2, <1>5, <1>6, <1>7

\* The value of every kind of expression, converted to another type or not.

LEMMA ValueNodeStands ==
  ASSUME NEW n, NodeOK(n), ValueNode(n)
  PROVE  Stands(ValueOf(n), n.type) /\ EmitValueOf(n) = {}
<1>1. n.kind \in {"literal", "op", "convert"} /\ n.text = NoText /\ n.own = n.type
  BY NodeFields DEF ValueNode
<1>2. EmitValueOf(n) = {}
  BY <1>1 DEF EmitValueOf
<1> DEFINE v == n.vals[1]
<1>3. /\ v = Value(v.kind, n.type, v.real) /\ v.kind \in {"variable", "int"} /\ Fits(v, Llvm(n.type))
      /\ IsType(n.type) /\ ~n.type.ref
  BY DEF ValueNode, Declared
<1>4. ValueOf(n) = v
  <2>1. CASE n.kind = "convert"
    BY <1>1, <2>1 DEF ValueOf
  <2>2. CASE n.kind # "convert"
    <3>1. ValueOf(n) = [v EXCEPT !.type = n.type]
      BY <1>1, <2>2 DEF ValueOf
    <3>2. [v EXCEPT !.type = n.type] = v
      BY <1>3 DEF Value
    <3> QED
      BY <3>1, <3>2
  <2> QED
    BY <2>1, <2>2
<1>5. v.type = n.type
  BY <1>3, ValueFields
<1>6. v.kind \in Printable
  BY <1>3 DEF Printable
<1>7. n.type \in TypeRecords
  BY <1>3, TypeRecord
<1> HIDE DEF v
<1> QED
  BY <1>2, <1>3, <1>4, <1>5, <1>6, <1>7 DEF Stands, Same

LEMMA NumberNodeStands ==
  ASSUME NEW n, NodeOK(n), NumberNode(n)
  PROVE  Stands(ValueOf(n), n.type) /\ EmitValueOf(n) = {}
<1> DEFINE t == n.type
<1>1. /\ n.text \in {"int", "float"} /\ n.text # NoText /\ ~IsPointer(t) /\ ~t.ref
      /\ (IsInteger(t) /\ n.text = "int") \/ IsFloat(t)
      /\ n.own = t /\ n.kind \in {"number", "neg"}
  BY NumberNodeTypes, NodeFields DEF NumberNode
<1>2. IsType(t) /\ NoRef(t) = t
  BY <1>1, NodeType, NoRefType
<1>9. t \in TypeRecords
  BY <1>2, TypeRecord
<1>3. Fits(Number(n.text, t), Llvm(t))
  <2>1. Fits(Number(n.text, t), Llvm(NoRef(t)))
    BY <1>1, <1>2, NumberStands
  <2> QED
    BY <2>1, <1>2
<1> HIDE DEF t
<1>4. CASE n.kind = "number"
  <2>1. ValueOf(n) = Number(n.text, t) /\ EmitValueOf(n) = {}
    BY <1>1, <1>4 DEF ValueOf, EmitValueOf
  <2>2. Number(n.text, t).type = t /\ Number(n.text, t).kind \in Printable
    BY <1>1, NumberValue
  <2> QED
    BY <1>1, <1>3, <1>9, <2>1, <2>2 DEF Stands, Same, t
<1>5. CASE n.kind = "neg"
  <2>1. ValueOf(n) = Variable(t, Llvm(t)) /\ EmitValueOf(n) = EmitUnary("neg", Number(n.text, t))
    BY <1>1, <1>5 DEF ValueOf, EmitValueOf, Claimed
  <2>6. t.ref = FALSE
    BY <1>1, <1>9 DEF TypeRecords
  <2>2. Stands(ValueOf(n), t)
    BY <2>1, <2>6, <1>9, VariableStands
  <2>3. Number(n.text, t).type = t
    BY <1>1, NumberValue
  <2>4. Operates(Instruction("add", t), t, <<Number(n.text, t)>>)
    <3>1. CASE IsInteger(t)
      <4>1. IsLlvmInt(Llvm(t)) /\ Instruction("add", t) = "add"
        BY <1>1, <1>2, <3>1, IntegerLlvm DEF Instruction
      <4> QED
        BY <1>3, <4>1 DEF Operates
    <3>2. CASE IsFloat(t)
      <4>1. IsLlvmFloat(Llvm(t)) /\ Instruction("add", t) = "fadd"
        BY <1>1, <1>2, <3>2, FloatLlvm DEF Instruction
      <4> QED
        BY <1>3, <4>1 DEF Operates
    <3> QED
      BY <1>1, <3>1, <3>2
  <2>5. EmitUnary("neg", Number(n.text, t)) = {}
    BY <2>3, <2>4 DEF EmitUnary, Refused
  <2> QED
    BY <2>1, <2>2, <2>5 DEF t
<1> QED
  BY <1>1, <1>4, <1>5

\* A literal nil stands for any pointer.
LEMMA NilFits ==
  ASSUME NEW t, IsType(t), IsPointer(t)
  PROVE  /\ Fits(NilValue(t), Llvm(NoRef(t))) /\ NilValue(t).type = t
         /\ NilValue(t).kind = "nil"
<1>1. IsType(NoRef(t)) /\ Same(NoRef(t), t)
  BY NoRefType
<1>2. IsLlvmPointer(Llvm(NoRef(t)))
  BY <1>1, PointerLlvm, SamePredicates
<1>3. NilValue(t).kind = "nil" /\ NilValue(t).type = t
  BY DEF NilValue, Value
<1> QED
  BY <1>2, <1>3 DEF Fits

LEMMA ValueStands ==
  ASSUME NEW n, NodeOK(n), n.kind # "assign", ~IsVoid(n.type), ValueGaps(n) = {}
  PROVE  Stands(ValueOf(n), NoRef(n.type)) /\ EmitValueOf(n) = {}
<1>0. IsType(n.type) /\ (n.kind # "call" => NoRef(n.type) = n.type)
  BY NodeType, NoRefType
<1>1. CASE n.kind = "call"
  <2>1. CallNode(n)
    BY <1>1, NodeKinds
  <2>2. Held(n.vals[1], NoRef(n.type)) /\ n.text = NoText
    BY <2>1 DEF CallNode
  <2>3. ReadAsArray(n.vals[1]) = {}
    BY <1>1 DEF ValueGaps
  <2>4. IsType(NoRef(n.type)) /\ ~NoRef(n.type).ref /\ ~IsVoid(NoRef(n.type))
    BY <1>0, NoRefType, SamePredicates
  <2>5. ValueOf(n) = CallValue(n.vals[1], FALSE) /\ EmitValueOf(n) = EmitCallValue(n.vals[1], FALSE)
    BY <1>1, <2>2 DEF ValueOf, EmitValueOf
  <2> QED
    BY <2>2, <2>3, <2>4, <2>5, CallStands
<1>2. CASE n.kind \in {"number", "neg"}
  BY <1>0, <1>2, NodeKinds, NumberNodeStands
<1>3. CASE n.kind = "nil"
  <2>1. n.type = Nil /\ n.own = Nil /\ n.text = NoText
    BY <1>3, NodeKinds, NodeFields DEF NilNode
  <2>2. ValueOf(n) = NilValue(Nil) /\ EmitValueOf(n) = {}
    BY <1>3, <2>1 DEF ValueOf, EmitValueOf
  <2>3. IsPointer(Nil) /\ Nil \in TypeRecords /\ ~Nil.ref /\ NoRef(Nil) = Nil /\ IsType(Nil)
    <3>1. IsPointer(Nil) /\ ~Nil.ref
      BY DEF Nil, Type, IsPointer
    <3>2. IsType(Nil)
      BY LiteralTypes
    <3> QED
      BY <3>1, <3>2, NoRefType, TypeRecord
  <2>4. Fits(NilValue(Nil), Llvm(Nil)) /\ NilValue(Nil).type = Nil /\ NilValue(Nil).kind = "nil"
    BY <2>3, NilFits
  <2> QED
    BY <2>1, <2>2, <2>3, <2>4 DEF Stands, Same, Printable
<1>4. CASE n.kind \in {"literal", "op", "convert"}
  <2>1. CASE ValueNode(n)
    BY <1>0, <1>4, <2>1, ValueNodeStands
  <2>2. CASE FoldedNode(n)
    <3>1. /\ n.kind = "convert" /\ n.text \in {"int", "float"} /\ ~n.type.ref
          /\ Fits(Number(n.text, n.type), Llvm(n.type)) /\ n.own = n.type
      BY <2>2, NodeFields DEF FoldedNode
    <3>2. ValueOf(n) = Number(n.text, n.type) /\ EmitValueOf(n) = {}
      BY <3>1 DEF ValueOf, EmitValueOf, NoText
    <3>3. Number(n.text, n.type).type = n.type /\ Number(n.text, n.type).kind \in Printable
      BY <3>1, NumberValue
    <3>4. n.type \in TypeRecords /\ NoRef(n.type) = n.type
      BY <1>0, <3>1, TypeRecord
    <3> QED
      BY <3>1, <3>2, <3>3, <3>4 DEF Stands, Same
  <2> QED
    BY <1>4, <2>1, <2>2, NodeKinds
<1> QED
  BY <1>1, <1>2, <1>3, <1>4, NodeKinds

\* A value of nothing is left by calls of void functions only.
LEMMA VoidValue ==
  ASSUME NEW n, NodeOK(n), n.kind # "assign", IsVoid(n.type)
  PROVE  n.kind = "call" /\ EmitValueOf(n) = {}
<1>1. n.kind = "call"
  BY NodeType
<1>2. Held(n.vals[1], NoRef(n.type)) /\ IsType(n.type)
  BY <1>1, NodeKinds DEF CallNode
<1>3. IsType(NoRef(n.type)) /\ IsVoid(NoRef(n.type))
  BY <1>2, NoRefType, SamePredicates
<1>4. EmitCallValue(n.vals[1], FALSE) = {}
  BY <1>2, <1>3, CallVoid
<1> QED
  BY <1>1, <1>4 DEF EmitValueOf

LEMMA EmitsNothing ==
  ASSUME NEW n, NodeOK(n), ValueGaps(n) = {}
  PROVE  EmitValueOf(n) = {}
<1>1. CASE n.kind = "assign"
  BY <1>1 DEF EmitValueOf
<1>2. CASE n.kind # "assign"
  BY <1>2, ValueStands, VoidValue
<1> QED
  BY <1>1, <1>2
-----------------------------------------------------------------------------
\* A literal that is converted.
LEMMA ConvertedFields ==
  ASSUME NEW n, NodeOK(n), NEW e
  PROVE  /\ Converted(n, e).kind = n.kind /\ Converted(n, e).own = e /\ Converted(n, e).type = n.type
         /\ Converted(n, e).text = n.text /\ Converted(n, e).vals = n.vals
  BY DEF NodeOK, IsNode, Converted

LEMMA ConvertibleNodes ==
  ASSUME NEW n, NodeOK(n), NEW e, Convertible(n, e)
  PROVE  /\ n.kind \in {"number", "neg", "nil"} /\ ValueGaps(n) = {}
         /\ n.kind = "nil" => IsPointer(e)
         /\ n.kind # "nil" => /\ ~IsPointer(e) /\ ~IsPointer(n.type)
                              /\ \/ IsInteger(e) /\ IsInteger(n.type)
                                 \/ IsFloat(e) /\ IsFloat(n.type)
  BY NodeFields DEF Convertible, IsNumber, IsNegatedNumber, NumberFits, ValueGaps

\* A literal converted to the type e is one of that type.
LEMMA ConvertedFits ==
  ASSUME NEW n, NodeOK(n), NEW e, IsType(e), Convertible(n, e), n.kind = "neg" => ~e.ref
  PROVE  /\ ValueOf(Converted(n, e)).kind \in Printable /\ ValueOf(Converted(n, e)).type = e
         /\ Fits(ValueOf(Converted(n, e)), Llvm(NoRef(e)))
         /\ EmitValueOf(Converted(n, e)) = {}
<1> DEFINE c == Converted(n, e)
<1>1. c.kind = n.kind /\ c.own = e /\ c.text = n.text
  BY ConvertedFields
<1> HIDE DEF c
<1>2. CASE n.kind = "nil"
  <2>1. n.text = NoText /\ IsPointer(e)
    BY <1>2, NodeKinds, ConvertibleNodes DEF NilNode
  <2>2. ValueOf(c) = NilValue(e) /\ EmitValueOf(c) = {}
    BY <1>1, <1>2, <2>1 DEF ValueOf, EmitValueOf
  <2>3. Fits(NilValue(e), Llvm(NoRef(e))) /\ NilValue(e).type = e /\ NilValue(e).kind = "nil"
    BY <2>1, NilFits
  <2> QED
    BY <2>2, <2>3 DEF c, Printable
<1>3. CASE n.kind # "nil"
  <2>1. /\ n.kind \in {"number", "neg"} /\ ~IsPointer(e)
        /\ \/ IsInteger(e) /\ IsInteger(n.type)
           \/ IsFloat(e) /\ IsFloat(n.type)
    BY <1>3, ConvertibleNodes
  <2>2. /\ n.text \in {"int", "float"} /\ n.text # NoText
        /\ (IsInteger(e) /\ n.text = "int") \/ IsFloat(e)
    BY <2>1, NodeKinds, NumberNodeTypes
  <2>3. Fits(Number(n.text, e), Llvm(NoRef(e)))
    BY <2>1, <2>2, NumberStands
  <2>4. Number(n.text, e).type = e /\ Number(n.text, e).kind \in Printable
    BY <2>2, NumberValue
  <2>5. CASE n.kind = "number"
    <3>1. ValueOf(c) = Number(n.text, e) /\ EmitValueOf(c) = {}
      BY <1>1, <2>2, <2>5 DEF ValueOf, EmitValueOf
    <3> QED
      BY <2>3, <2>4, <3>1 DEF c
  <2>6. CASE n.kind = "neg"
    <3>1. ValueOf(c) = Variable(e, Llvm(e)) /\ EmitValueOf(c) = EmitUnary("neg", Number(n.text, e))
      BY <1>1, <2>6 DEF ValueOf, EmitValueOf, Claimed
    <3>2. NoRef(e) = e /\ ~e.ref
      BY <2>6, NoRefType
    <3>3. Fits(Variable(e, Llvm(e)), Llvm(e)) /\ Variable(e, Llvm(e)).kind \in Printable /\ Variable(e, Llvm(e)).type = e
      BY VariableFields DEF Fits, Printable
    <3>4. Operates(Instruction("add", e), e, <<Number(n.text, e)>>)
      <4>1. CASE IsInteger(e)
        <5>1. IsLlvmInt(Llvm(e)) /\ Instruction("add", e) = "add"
          BY <2>1, <3>2, <4>1, IntegerLlvm DEF Instruction
        <5> QED
          BY <2>3, <3>2, <5>1 DEF Operates
      <4>2. CASE IsFloat(e)
        <5>1. IsLlvmFloat(Llvm(e)) /\ Instruction("add", e) = "fadd"
          BY <2>1, <3>2, <4>2, FloatLlvm DEF Instruction
        <5> QED
          BY <2>3, <3>2, <5>1 DEF Operates
      <4> QED
        BY <2>1, <4>1, <4>2
    <3>5. EmitUnary("neg", Number(n.text, e)) = {}
      BY <2>4, <3>4 DEF EmitUnary, Refused
    <3> QED
      BY <3>1, <3>2, <3>3, <3>5 DEF c
  <2> QED
    BY <2>1, <2>5, <2>6
<1> QED
  BY <1>2, <1>3

-----------------------------------------------------------------------------
\* What is written where a value of the type t is wanted.
Suits(v, t) == v.kind \in Printable /\ Llvm(v.type) = Llvm(t) /\ Fits(v, Llvm(t))

LEMMA AssignAgrees ==
  ASSUME NEW n, NodeOK(n), NEW t, IsType(t), Agrees(n, t)
  PROVE  n.kind # "assign"
<1>1. SUFFICES ASSUME n.kind = "assign"
               PROVE  FALSE
  OBVIOUS
<1>2. n.type = RestrictType
  BY <1>1, NodeKinds DEF AssignNode
<1>3. Same(n.type, t)
  BY <1>1 DEF Agrees, Convertible, IsNumber, IsNegatedNumber
<1>4. t.base = "<restrict>"
  BY <1>2, <1>3 DEF Same, RestrictType, Type
<1> QED
  BY <1>4, NoSuchName, TypeRecord

LEMMA AdjustedSuits ==
  ASSUME NEW n, NodeOK(n), NEW t, IsType(t), ~IsVoid(t), ~t.ref, Agrees(n, t), ValueGaps(n) = {}
  PROVE  /\ Suits(ValueOf(Adjusted(n, t)), t) /\ EmitValueOf(Adjusted(n, t)) = {}
         /\ Same(ValueOf(Adjusted(n, t)).type, t)
<1>1. CASE Same(n.type, t)
  <2>1. n.kind # "assign"
    BY AssignAgrees
  <2>2. IsType(n.type) /\ ~IsVoid(n.type)
    BY <1>1, <2>1, NodeType, SamePredicates
  <2>3. Stands(ValueOf(n), NoRef(n.type)) /\ EmitValueOf(n) = {}
    BY <2>1, <2>2, ValueStands
  <2>4. IsType(NoRef(n.type)) /\ ~NoRef(n.type).ref /\ Same(NoRef(n.type), n.type)
    BY <2>2, NoRefType
  <2>5. Llvm(NoRef(n.type)) = Llvm(t)
    <3>1. Same(NoRef(n.type), t)
      BY <1>1, <2>4 DEF Same
    <3>2. NoRef(n.type).ref = t.ref
      BY <2>4, TypeFields
    <3> QED
      BY <3>1, <3>2, SameLlvm
  <2>6. Llvm(ValueOf(n).type) = Llvm(NoRef(n.type)) /\ Fits(ValueOf(n), Llvm(NoRef(n.type)))
    BY <2>3, <2>4, StandsLlvm DEF Stands
  <2>7. Adjusted(n, t) = n
    BY <1>1 DEF Adjusted
  <2>8. Same(ValueOf(n).type, t)
    BY <1>1, <2>3, <2>4 DEF Stands, Same
  <2> QED
    BY <2>3, <2>5, <2>6, <2>7, <2>8 DEF Suits, Stands
<1>2. CASE ~Same(n.type, t)
  <2>1. Convertible(n, t) /\ Adjusted(n, t) = Converted(n, t)
    BY <1>2 DEF Agrees, Adjusted
  <2>2. NoRef(t) = t
    BY NoRefType
  <2> QED
    BY <2>1, <2>2, ConvertedFits DEF Suits, Same
<1> QED
  BY <1>1, <1>2

\* A call with an address leaves it where a reference is wanted.
LEMMA AddressSuits ==
  ASSUME NEW n, NodeOK(n), NEW t, IsType(t), t.ref, Same(n.type, t), HasAddress(n)
  PROVE  /\ Suits(PlaceOf(n, TRUE), t) /\ EmitPlaceOf(n, TRUE) = {}
         /\ n.kind = "call" /\ PlaceOf(n, TRUE) = n.vals[1]
<1> DEFINE p == n.vals[1]
           u == NoRef(n.type)
<1>1. n.kind = "call" /\ IsPointer(p.type) /\ ~InPlace(p)
  BY DEF HasAddress
<1>2. Held(p, u) /\ IsType(n.type)
  BY <1>1, NodeKinds DEF CallNode
<1>3. IsType(u) /\ ~u.ref /\ u.base = t.base /\ u.ptr = t.ptr
  BY <1>2, NoRefType DEF Same
<1> HIDE DEF u
<1>4. Place(p, u)
  <2>1. p # Flag(u) \/ u.ptr # 0
    <3>1. SUFFICES ASSUME p = Flag(u), u.ptr = 0
                   PROVE  FALSE
      OBVIOUS
    <3>2. p.type = u
      BY <3>1 DEF Flag, Value
    <3> QED
      BY <1>1, <3>1, <3>2 DEF IsPointer
  <2>2. p # Symbol("none", u) \/ ~IsVoid(u)
    <3>1. SUFFICES ASSUME p = Symbol("none", u), IsVoid(u)
                   PROVE  FALSE
      OBVIOUS
    <3>2. p.type = u /\ u.ptr = 0
      BY <3>1 DEF Symbol, Value, IsVoid, Same, Void, Type
    <3> QED
      BY <1>1, <3>2 DEF IsPointer
  <2> QED
    BY <1>2, <2>1, <2>2 DEF Held
<1>5. p.real = Star(Llvm(u))
  <2>1. p.real.in # "array"
    BY <1>1 DEF InPlace
  <2>2. Star(LlvmArray(u)).in = "array"
    BY LlvmArrayFields
  <2> QED
    BY <1>4, <2>1, <2>2 DEF Place
<1>6. p.kind = "variable" /\ p.type \in TypeRecords /\ p.type.base = u.base /\ p.type.ptr = u.ptr + 1 /\ p.type.ref = u.ref
  BY <1>3, <1>4, PlaceFields
<1>7. u.ptr \in Int /\ t.ptr \in Int /\ u.ref = FALSE /\ t.ref = TRUE
  BY <1>3, TypeFields
<1>8. Llvm(p.type) = Star(Llvm(u))
  BY <1>6, <1>7, LlvmStar
<1>9. Llvm(p.type) = Llvm(t)
  BY <1>3, <1>6, <1>7, LlvmReference
<1>10. PlaceOf(n, TRUE) = p /\ EmitPlaceOf(n, TRUE) = {}
  BY <1>1 DEF PlaceOf, EmitPlaceOf, CallValue
<1> QED
  BY <1>1, <1>5, <1>6, <1>8, <1>9, <1>10 DEF Suits, Fits, Printable

\* What the analysis lets stand for a value or reference of type t is one.
LEMMA PlaceSuits ==
  ASSUME NEW n, NodeOK(n), NEW t, IsType(t), ~IsVoid(t), Agrees(n, t), PlaceGaps(t, n) = {}
  PROVE  /\ Suits(PlaceOf(Adjusted(n, t), t.ref), t)
         /\ EmitPlaceOf(Adjusted(n, t), t.ref) = {}
<1>1. CASE t.ref
  <2>1. HasAddress(n)
    BY <1>1 DEF PlaceGaps, Gap
  <2>2. Same(n.type, t)
    BY <2>1 DEF HasAddress, Agrees, Convertible, IsNumber, IsNegatedNumber
  <2>3. Adjusted(n, t) = n /\ t.ref = TRUE
    BY <1>1, <2>2, TypeFields DEF Adjusted
  <2> QED
    BY <1>1, <2>1, <2>2, <2>3, AddressSuits
<1>2. CASE ~t.ref
  <2>1. ValueGaps(n) = {}
    BY <1>2 DEF PlaceGaps
  <2>2. PlaceOf(Adjusted(n, t), t.ref) = ValueOf(Adjusted(n, t))
        /\ EmitPlaceOf(Adjusted(n, t), t.ref) = EmitValueOf(Adjusted(n, t))
    BY <1>2 DEF PlaceOf, EmitPlaceOf
  <2> QED
    BY <1>2, <2>1, <2>2, AdjustedSuits
<1> QED
  BY <1>1, <1>2

-----------------------------------------------------------------------------
(***************************************************************************)
(* Operators.  Expressions that are made, and what the operators do with   *)
(* their operands.                                                         *)
(***************************************************************************)
LEMMA NodeRecord ==
  ASSUME NEW n, NEW kind, NEW t, NEW text, NEW vals, n = Node(kind, t, text, vals)
  PROVE  /\ IsNode(n)
         /\ n.kind = kind /\ n.type = t /\ n.text = text /\ n.vals = vals
<1>1. n = [kind |-> kind, type |-> t, own |-> t, text |-> text, vals |-> vals, place |-> FALSE]
  BY DEF Node
<1>2. /\ n.kind = kind /\ n.type = t /\ n.own = t /\ n.text = text /\ n.vals = vals /\ n.place = FALSE
  BY <1>1
<1> QED
  BY <1>1, <1>2 DEF IsNode

LEMMA MadeNode ==
  ASSUME NEW n, NEW kind \in {"literal", "op", "convert"}, NEW t, IsType(t), ~IsVoid(t), ~t.ref, NEW v,
         v = Value(v.kind, t, v.real), v.kind \in {"variable", "int"}, Fits(v, Llvm(t)),
         n = Node(kind, t, NoText, <<v>>)
  PROVE  NodeOK(n)
<1>1. IsNode(n) /\ n.kind = kind /\ n.type = t /\ n.text = NoText /\ n.vals = <<v>>
  BY NodeRecord
<1>2. n.vals[1] = v
  BY <1>1
<1>3. ValueNode(n)
  BY <1>1, <1>2 DEF ValueNode, Declared
<1> QED
  BY <1>1, <1>3 DEF NodeOK

LEMMA ClaimedNode ==
  ASSUME NEW n, NEW kind \in {"literal", "op", "convert"}, NEW t, IsType(t), ~IsVoid(t), ~t.ref,
         n = Node(kind, t, NoText, <<Variable(t, Llvm(t))>>)
  PROVE  NodeOK(n)
<1> DEFINE v == Variable(t, Llvm(t))
<1>1. v.kind = "variable" /\ v.real = Llvm(t) /\ v = Value(v.kind, t, v.real)
  BY VariableFields DEF Variable
<1>2. Fits(v, Llvm(t))
  BY <1>1 DEF Fits
<1>3. n = Node(kind, t, NoText, <<v>>)
  OBVIOUS
<1> HIDE DEF v
<1> QED
  BY <1>1, <1>2, <1>3, MadeNode

\* Only pointers are read as arrays.
LEMMA NoArrayGap ==
  ASSUME NEW n, NodeOK(n), ~IsPointer(n.type)
  PROVE  ValueGaps(n) = {}
<1>1. CASE n.kind # "call"
  BY <1>1 DEF ValueGaps
<1>2. CASE n.kind = "call"
  <2> DEFINE v == n.vals[1]
             u == NoRef(n.type)
  <2>1. Held(v, u) /\ IsType(n.type)
    BY <1>2, NodeKinds DEF CallNode
  <2>2. IsType(u) /\ Same(u, n.type)
    BY <2>1, NoRefType
  <2>3. ~u.arr
    BY <2>2, SamePredicates DEF IsType
  <2>4. ~v.type.arr
    <3>1. CASE Place(v, u)
      BY <2>3, <3>1 DEF Place
    <3>2. CASE v = Flag(u) \/ v = Symbol("none", u)
      <4>1. v.type = u
        BY <3>2 DEF Flag, Symbol, Value
      <4> QED
        BY <2>3, <4>1
    <3> QED
      BY <2>1, <3>1, <3>2 DEF Held
  <2> QED
    BY <1>2, <2>4 DEF ValueGaps, ReadAsArray, Gap
<1> QED
  BY <1>1, <1>2

LEMMA RestrictIs ==
  ASSUME NEW n, NodeOK(n), n.kind = "assign"
  PROVE  /\ n.type.base = "<restrict>" /\ ~IsInteger(n.type) /\ ~IsFloat(n.type) /\ ~IsBoolean(n.type)
         /\ ~IsPointer(n.type) /\ ~CanBitwise(n.type) /\ ~IsVoid(n.type) /\ ~n.type.ref
<1>1. n.type = RestrictType
  BY NodeKinds DEF AssignNode
<1>2. RestrictType.base = "<restrict>" /\ RestrictType.ptr = 0 /\ ~RestrictType.ref
  BY DEF RestrictType, Type
<1>3. "<restrict>" \notin Enums /\ "<restrict>" \notin Ints
  BY NoSuchName DEF Bases, SymbolNames, Primitives
<1> QED
  BY <1>1, <1>2, <1>3 DEF IsInteger, IsFloat, Floats, IsBoolean, IsPointer, CanBitwise, IsVoid, Same, Void, Type

LEMMA VoidIs ==
  ASSUME NEW t, IsVoid(t)
  PROVE  /\ ~IsInteger(t) /\ ~IsFloat(t) /\ ~IsBoolean(t) /\ ~IsPointer(t) /\ ~CanBitwise(t)
         /\ SymbolKind(t) = "error"
<1>1. t.base = "void" /\ t.ptr = 0
  BY DEF IsVoid, Same, Void, Type
<1>2. "void" \notin Enums /\ "void" \notin Structs /\ "void" \notin Unions /\ "void" \notin Primitives
  BY NamesApart DEF SymbolNames
<1>3. "void" \notin Ints
  BY DEF Ints, Signed, Unsigned
<1> QED
  BY <1>1, <1>2, <1>3 DEF IsInteger, IsFloat, Floats, IsBoolean, IsPointer, CanBitwise, SymbolKind

\* The instructions there are for a type.
LEMMA OperatesOn ==
  ASSUME NEW inst, NEW t, Operates(inst, t, << >>), NEW u, Llvm(u) = Llvm(t), NEW a, NEW b,
         Fits(a, Llvm(t)), Fits(b, Llvm(t))
  PROVE  Operates(inst, u, <<a, b>>) /\ Operates(inst, u, <<a>>)
  BY DEF Operates

LEMMA BitsOn ==
  ASSUME NEW t, IsType(t), ~t.ref, CanBitwise(t)
  PROVE  Operates("bits", t, << >>)
<1>1. IsLlvmInt(Llvm(t))
  BY IntegerLlvm, BooleanLlvm DEF CanBitwise
<1> QED
  BY <1>1 DEF Operates

LEMMA ArithmeticOn ==
  ASSUME NEW t, IsType(t), ~t.ref, Arithmetic(t), NEW opr \in {"add", "div"}
  PROVE  Operates(Instruction(opr, t), t, << >>)
<1>1. CASE IsInteger(t)
  <2>1. IsLlvmInt(Llvm(t))
    BY <1>1, IntegerLlvm DEF Arithmetic
  <2>2. Instruction(opr, t) \in {"add", "sdiv", "udiv"}
    BY <1>1 DEF Instruction
  <2> QED
    BY <2>1, <2>2 DEF Operates
<1>2. CASE ~IsInteger(t)
  <2>1. IsLlvmFloat(Llvm(t))
    BY <1>2, FloatLlvm DEF Arithmetic
  <2>2. Instruction(opr, t) \in {"fadd", "fdiv"}
    BY <1>2 DEF Instruction
  <2> QED
    BY <2>1, <2>2 DEF Operates
<1> QED
  BY <1>1, <1>2

LEMMA ComparisonOn ==
  ASSUME NEW t, IsType(t), ~t.ref, NEW opr \in {"eq", "less"},
         opr = "eq" => IsInteger(t) \/ IsFloat(t) \/ IsPointer(t) \/ IsBoolean(t) \/ SymbolKind(t) = "enum",
         opr = "less" => IsInteger(t) \/ IsFloat(t)
  PROVE  Operates(Instruction(opr, t), t, << >>)
<1>1. CASE IsInteger(t) \/ (opr = "eq" /\ (IsPointer(t) \/ IsBoolean(t) \/ SymbolKind(t) = "enum"))
  <2>1. Instruction(opr, t) = "icmp"
    BY <1>1 DEF Instruction
  <2>2. IsLlvmInt(Llvm(t)) \/ IsLlvmPointer(Llvm(t))
    <3>1. CASE IsPointer(t)
      BY <3>1, PointerLlvm
    <3>2. CASE ~IsPointer(t)
      <4>1. SymbolKind(t) = "enum" => IsInteger(t) \/ IsBoolean(t)
        BY <3>2, NamesApart DEF SymbolKind, IsInteger
      <4> QED
        BY <1>1, <3>2, <4>1, IntegerLlvm, BooleanLlvm
    <3> QED
      BY <3>1, <3>2
  <2> QED
    BY <2>1, <2>2 DEF Operates
<1>2. CASE ~(IsInteger(t) \/ (opr = "eq" /\ (IsPointer(t) \/ IsBoolean(t) \/ SymbolKind(t) = "enum")))
  <2>1. IsLlvmFloat(Llvm(t))
    BY <1>2, FloatLlvm
  <2>2. Instruction(opr, t) = "fcmp"
    BY <1>2 DEF Instruction
  <2> QED
    BY <2>1, <2>2 DEF Operates
<1> QED
  BY <1>1, <1>2

\* A comparison, a calculation: both operands are of the type the instruction is for.
LEMMA BinaryEmits ==
  ASSUME NEW opr, NEW t, NEW lv, NEW rv, Same(lv.type, t), Llvm(lv.type) = Llvm(t),
         Fits(lv, Llvm(t)), Fits(rv, Llvm(t)), Operates(Instruction(opr, t), t, << >>)
  PROVE  EmitBinary(opr, lv, rv) = {}
<1>1. Instruction(opr, lv.type) = Instruction(opr, t)
  BY SameInstruction
<1>2. Operates(Instruction(opr, t), lv.type, <<lv, rv>>)
  BY OperatesOn
<1> QED
  BY <1>1, <1>2 DEF EmitBinary, Refused
-----------------------------------------------------------------------------
\* What a unary operator leaves, and the wrong instructions of it.
UnaryMade(opr, n) == Variable(ResolveUnary(opr, n).type, Llvm(ValueOf(n).type))
UnaryBad(opr, n) ==
  EmitValueOf(n) \cup EmitUnary(opr, ValueOf(n)) \cup EmitClaim(UnaryMade(opr, n))

LEMMA NegatedNumber ==
  ASSUME NEW n, NodeOK(n), IsNumber(n), NEW m, m = Node("neg", ResolveUnary("neg", n).type, n.text, << >>)
  PROVE  NodeOK(m)
<1>1. ResolveUnary("neg", n).type = n.type
  BY DEF ResolveUnary, Checked
<1>2. IsNode(m) /\ m.kind = "neg" /\ m.type = n.type /\ m.text = n.text
  BY <1>1, NodeRecord
<1>3. NumberNode(m)
  BY <1>2, NodeKinds DEF NumberNode, IsNumber
<1> QED
  BY <1>2, <1>3 DEF NodeOK

\* Operators are given what they take, and leave good expressions.
LEMMA UnaryRight ==
  ASSUME NEW n, NodeOK(n), NEW opr \in {"neg", "bnot", "lnot"},
         ResolveUnary(opr, n).ok, UnaryGaps(opr, n) = {}
  PROVE  UnaryBad(opr, n) = {} /\ NodeOK(Node("op", ResolveUnary(opr, n).type, NoText, <<UnaryMade(opr, n)>>))
<1> DEFINE t == n.type
           u == NoRef(t)
           v == ValueOf(n)
<1>1. /\ opr = "neg" => (IsInteger(t) \/ IsFloat(t)) /\ ~IsPointer(t) /\ ~t.ref
      /\ opr = "bnot" => CanBitwise(t) /\ ~IsPointer(t) /\ ~t.ref
      /\ opr = "lnot" => IsBoolean(t) /\ ~IsPointer(t)
      /\ ResolveUnary(opr, n).type = IF opr = "lnot" THEN Bool ELSE t
  BY DEF ResolveUnary, Checked, UnaryGaps, ReferenceResult, Gap, CanBitwise
<1>2. n.kind # "assign" /\ ~IsVoid(t)
  BY <1>1, RestrictIs, VoidIs
<1>3. Stands(v, u) /\ EmitValueOf(n) = {}
  BY <1>1, <1>2, NoArrayGap, ValueStands
<1>4. IsType(t) /\ IsType(u) /\ ~u.ref /\ Same(u, t) /\ (~t.ref => u = t)
  BY <1>2, NodeType, NoRefType
<1>5. Llvm(v.type) = Llvm(u) /\ Fits(v, Llvm(u)) /\ Same(v.type, u)
  BY <1>3, <1>4, StandsLlvm DEF Stands
<1> HIDE DEF v, u, t
<1>6. EmitUnary(opr, v) = {}
  <2>1. CASE opr = "neg"
    <3>1. Arithmetic(t) /\ u = t
      BY <1>1, <1>4, <2>1 DEF Arithmetic
    <3>2. Operates(Instruction("add", t), t, << >>)
      BY <1>1, <1>4, <2>1, <3>1, ArithmeticOn
    <3>3. Instruction("add", v.type) = Instruction("add", t)
      BY <1>5, <3>1, SameInstruction
    <3>4. Operates(Instruction("add", v.type), v.type, <<v>>)
      BY <1>5, <3>1, <3>2, <3>3, OperatesOn
    <3> QED
      BY <2>1, <3>4 DEF EmitUnary, Refused
  <2>2. CASE opr # "neg"
    <3>1. CanBitwise(u)
      <4>1. CanBitwise(t)
        BY <1>1, <2>2 DEF CanBitwise
      <4> QED
        BY <1>4, <4>1, SamePredicates
    <3>2. Operates("bits", v.type, <<v>>)
      BY <1>4, <1>5, <3>1, BitsOn, OperatesOn
    <3> QED
      BY <2>2, <3>2 DEF EmitUnary, Refused
  <2> QED
    BY <2>1, <2>2
<1> DEFINE m == UnaryMade(opr, n)
           w == ResolveUnary(opr, n).type
<1>7. IsType(w) /\ ~IsVoid(w) /\ ~w.ref /\ Llvm(v.type) = Llvm(w)
  <2>1. CASE opr = "lnot"
    <3>1. w = Bool
      BY <1>1, <2>1
    <3>2. IsBoolean(u) /\ ~IsPointer(u)
      BY <1>1, <1>4, <2>1, SamePredicates
    <3>3. Llvm(u) = Llvm(Bool)
      BY <1>4, <3>2, BooleanLlvm
    <3>4. ~Bool.ref
      BY DEF Bool, Type
    <3> QED
      BY <1>5, <3>1, <3>3, <3>4, LiteralTypes
  <2>2. CASE opr # "lnot"
    <3>1. w = t /\ u = t /\ ~t.ref
      BY <1>1, <1>4, <2>2
    <3> QED
      BY <1>2, <1>4, <1>5, <3>1 DEF t
  <2> QED
    BY <2>1, <2>2
<1>8. m = Variable(w, Llvm(w))
  BY <1>7 DEF UnaryMade, v
<1> HIDE DEF w, m
<1>9. EmitClaim(m) = {}
  BY <1>8, VariableFields DEF EmitClaim, Refused
<1>10. NodeOK(Node("op", w, NoText, <<m>>))
  BY <1>7, <1>8, ClaimedNode
<1>11. UnaryBad(opr, n) = {}
  BY <1>3, <1>6, <1>9 DEF UnaryBad, v, m
<1> QED
  BY <1>10, <1>11 DEF w, m

\* The operands of a binary operator as converted, what it leaves, and its wrong
\* instructions.
Both(opr, l, r) == IF opr = "and" THEN <<l, r>> ELSE Meet(l, r)
BinaryMade(opr, l, r) ==
  IF opr = "and" THEN Claimed(Bool)
  ELSE Computed(opr, ValueOf(Both(opr, l, r)[1]), ResolveBinary(opr, l, r).type)
BinaryBad(opr, l, r) ==
  EmitValueOf(Both(opr, l, r)[1]) \cup EmitValueOf(Both(opr, l, r)[2])
  \cup (IF opr = "and" THEN EmitLogical(ValueOf(Both(opr, l, r)[1]), ValueOf(Both(opr, l, r)[2]))
        ELSE EmitBinary(opr, ValueOf(Both(opr, l, r)[1]), ValueOf(Both(opr, l, r)[2]))
             \cup EmitResult(opr, ValueOf(Both(opr, l, r)[1]), ResolveBinary(opr, l, r).type))

\* A Boolean that is no pointer.
LEMMA BooleanStands ==
  ASSUME NEW n, NodeOK(n), IsBoolean(n.type), ~IsPointer(n.type)
  PROVE  Fits(ValueOf(n), Llvm(Bool)) /\ EmitValueOf(n) = {}
<1>1. n.kind # "assign" /\ ~IsVoid(n.type)
  BY RestrictIs, VoidIs
<1>2. IsType(n.type)
  BY <1>1, NodeType
<1> DEFINE u == NoRef(n.type)
<1>3. Stands(ValueOf(n), u) /\ EmitValueOf(n) = {}
  BY <1>1, NoArrayGap, ValueStands
<1>4. IsType(u) /\ ~u.ref /\ Same(u, n.type)
  BY <1>2, NoRefType
<1>5. IsBoolean(u) /\ ~IsPointer(u)
  BY <1>4, SamePredicates
<1>6. Llvm(u) = Llvm(Bool)
  BY <1>4, <1>5, BooleanLlvm
<1> QED
  BY <1>3, <1>6 DEF Stands

LEMMA LogicalRight ==
  ASSUME NEW l, NEW r, NodeOK(l), NodeOK(r), ResolveBinary("and", l, r).ok, BinaryGaps("and", l, r) = {}
  PROVE  BinaryBad("and", l, r) = {} /\ ResolveBinary("and", l, r).type = Bool
         /\ BinaryMade("and", l, r) = Variable(Bool, Llvm(Bool))
<1>1. IsBoolean(l.type) /\ IsBoolean(r.type) /\ ~IsPointer(l.type) /\ ~IsPointer(r.type)
      /\ ResolveBinary("and", l, r).type = Bool
  BY DEF ResolveBinary, ResolveLogical, Checked, BinaryGaps, Gap
<1>2. /\ Fits(ValueOf(l), Llvm(Bool)) /\ EmitValueOf(l) = {}
      /\ Fits(ValueOf(r), Llvm(Bool)) /\ EmitValueOf(r) = {}
  BY <1>1, BooleanStands
<1>3. Both("and", l, r)[1] = l /\ Both("and", l, r)[2] = r
  BY DEF Both
<1> QED
  BY <1>1, <1>2, <1>3 DEF BinaryBad, BinaryMade, EmitLogical, Refused, Claimed

\* The operands as they are written: one of them may be a literal that got the
\* type of the other.
LEMMA MeetCases ==
  ASSUME NEW l, NEW r, Meets(l, r)
  PROVE  \/ Same(l.type, r.type) /\ Meet(l, r)[1] = l /\ Meet(l, r)[2] = r
         \/ ~Same(l.type, r.type) /\ Convertible(r, l.type) /\ Meet(l, r)[1] = l /\ Meet(l, r)[2] = Converted(r, l.type)
         \/ LeftConverted(l, r) /\ Meet(l, r)[1] = Converted(l, r.type) /\ Meet(l, r)[2] = r
  BY DEF Meets, Meet, LeftConverted

LEMMA AdjustedRight ==
  ASSUME NEW l, NEW r, Meets(l, r), ~LeftConverted(l, r)
  PROVE  Agrees(r, l.type) /\ Meet(l, r)[1] = l /\ Meet(l, r)[2] = Adjusted(r, l.type)
<1>1. Same(l.type, r.type) <=> Same(r.type, l.type)
  BY DEF Same
<1> QED
  BY <1>1, MeetCases DEF Agrees, Adjusted

\* What NoRef leaves of a type without reference.
LEMMA PlainStands ==
  ASSUME NEW n, NodeOK(n), n.kind # "assign", ~IsVoid(n.type), ~n.type.ref, ValueGaps(n) = {}
  PROVE  /\ Stands(ValueOf(n), n.type) /\ EmitValueOf(n) = {}
         /\ Llvm(ValueOf(n).type) = Llvm(n.type)
<1>1. IsType(n.type) /\ NoRef(n.type) = n.type
  BY NodeType, NoRefType
<1>2. Stands(ValueOf(n), n.type) /\ EmitValueOf(n) = {}
  BY <1>1, ValueStands
<1> QED
  BY <1>1, <1>2, StandsLlvm

\* Calculations.  The right operand has the left one's type, or gets it.
LEMMA CalculationRight ==
  ASSUME NEW opr \in {"add", "div", "bits"}, NEW l, NEW r, NodeOK(l), NodeOK(r),
         Meets(l, r), ~LeftConverted(l, r), ~IsPointer(l.type), ~l.type.ref,
         l.kind # "assign", ~IsVoid(l.type), Operates(Instruction(opr, l.type), l.type, << >>),
         NEW b, b = Meet(l, r)
  PROVE  /\ EmitValueOf(b[1]) = {} /\ EmitValueOf(b[2]) = {}
         /\ EmitBinary(opr, ValueOf(b[1]), ValueOf(b[2])) = {}
         /\ EmitResult(opr, ValueOf(b[1]), l.type) = {}
         /\ Computed(opr, ValueOf(b[1]), l.type) = Variable(l.type, Llvm(l.type))
<1> DEFINE t == l.type
           rr == Adjusted(r, t)
<1>1. b[1] = l /\ b[2] = rr /\ Agrees(r, t)
  BY AdjustedRight
<1>2. IsType(t)
  BY NodeType
<1>3. ValueGaps(l) = {}
  BY NoArrayGap
<1>4. ValueGaps(r) = {}
  <2>1. CASE Same(r.type, t)
    BY <2>1, SamePredicates, NoArrayGap
  <2>2. CASE Convertible(r, t)
    BY <2>2, ConvertibleNodes
  <2> QED
    BY <1>1, <2>1, <2>2 DEF Agrees
<1>5. Stands(ValueOf(l), t) /\ EmitValueOf(l) = {} /\ Llvm(ValueOf(l).type) = Llvm(t)
  BY <1>3, PlainStands
<1>6. Suits(ValueOf(rr), t) /\ EmitValueOf(rr) = {}
  BY <1>1, <1>2, <1>4, AdjustedSuits
<1> HIDE DEF rr
<1>7. Same(ValueOf(l).type, t) /\ Fits(ValueOf(l), Llvm(t)) /\ Fits(ValueOf(rr), Llvm(t))
  BY <1>5, <1>6 DEF Stands, Suits
<1>8. EmitBinary(opr, ValueOf(l), ValueOf(rr)) = {}
  BY <1>5, <1>7, BinaryEmits
<1>9. IsUnsigned(ValueOf(l).type) = IsUnsigned(t)
  BY <1>7, SamePredicates
<1>10. EmitResult(opr, ValueOf(l), t) = {}
  BY <1>5, <1>9 DEF EmitResult, Refused
<1>11. Computed(opr, ValueOf(l), t) = Variable(t, Llvm(t))
  BY <1>5 DEF Computed
<1> QED
  BY <1>1, <1>5, <1>6, <1>8, <1>10, <1>11

\* The one literal on the left that may become what the right operand is: an
\* i64 beside a member of an enum.
LEMMA BitsOfEnum ==
  ASSUME NEW l, NEW r, NodeOK(l), NodeOK(r), LeftConverted(l, r), Meets(l, r),
         CanBitwise(l.type), CanBitwise(r.type), SymbolKind(r.type) = "enum", Same(l.type, I64),
         ~r.type.ref, ~l.type.ref,
         NEW b, b = Meet(l, r)
  PROVE  /\ EmitValueOf(b[1]) = {} /\ EmitValueOf(b[2]) = {}
         /\ EmitBinary("bits", ValueOf(b[1]), ValueOf(b[2])) = {}
         /\ EmitResult("bits", ValueOf(b[1]), l.type) = {}
         /\ Computed("bits", ValueOf(b[1]), l.type) = Variable(l.type, Llvm(l.type))
<1> DEFINE t == r.type
           ll == Converted(l, t)
<1>1. b[1] = ll /\ b[2] = r /\ Convertible(l, t)
  BY MeetCases DEF LeftConverted
<1>2. l.kind # "assign" /\ r.kind # "assign" /\ ~IsVoid(l.type) /\ ~IsVoid(t) /\ ~IsPointer(t)
  BY RestrictIs, VoidIs DEF CanBitwise
<1>3. IsType(t) /\ IsType(l.type) /\ NoRef(t) = t
  BY <1>2, NodeType, NoRefType
<1>4. Stands(ValueOf(r), t) /\ EmitValueOf(r) = {}
  BY <1>2, NoArrayGap, PlainStands
<1>5. ValueOf(ll).type = t /\ Fits(ValueOf(ll), Llvm(t)) /\ EmitValueOf(ll) = {}
  BY <1>1, <1>3, ConvertedFits
<1> HIDE DEF ll
<1>6. Instruction("bits", t) = "bits" /\ Operates("bits", t, << >>)
  BY <1>3, BitsOn DEF Instruction
<1>7. Same(ValueOf(ll).type, t) /\ Llvm(ValueOf(ll).type) = Llvm(t) /\ Fits(ValueOf(r), Llvm(t))
  BY <1>4, <1>5 DEF Same, Stands
<1>8. EmitBinary("bits", ValueOf(ll), ValueOf(r)) = {}
  BY <1>5, <1>6, <1>7, BinaryEmits
<1>9. Llvm(l.type) = Llvm(t)
  <2>1. t.base \in Enums /\ t.ptr = 0
    BY <1>2, <1>3, TypeFields DEF SymbolKind, IsPointer
  <2>2. l.type.base = "i64" /\ l.type.ptr = 0
    BY DEF Same, I64, Type
  <2>3. LlvmBase(t) = "i64"
    BY <2>1, NamesApart DEF LlvmBase, Ints, Signed, Unsigned
  <2>4. LlvmBase(l.type) = "i64"
    BY <2>2, NamesApart DEF LlvmBase, Ints, Signed, Unsigned
  <2> QED
    BY <2>1, <2>2, <2>3, <2>4 DEF Llvm
<1>10. ~IsUnsigned(l.type) /\ ~IsUnsigned(t)
  <2>1. t.base \in Enums /\ ~IsPointer(t)
    BY <1>2 DEF SymbolKind
  <2>2. l.type.base = "i64" /\ ~IsPointer(l.type)
    BY DEF Same, I64, Type, IsPointer
  <2> QED
    BY <2>1, <2>2, NamesApart DEF IsUnsigned, Unsigned
<1>11. EmitResult("bits", ValueOf(ll), l.type) = {}
  BY <1>5, <1>9, <1>10 DEF EmitResult, Refused
<1>12. Computed("bits", ValueOf(ll), l.type) = Variable(l.type, Llvm(l.type))
  BY <1>5, <1>9 DEF Computed
<1> QED
  BY <1>1, <1>4, <1>5, <1>8, <1>11, <1>12

LEMMA MeetsType ==
  ASSUME NEW l, NEW r, NodeOK(l), NodeOK(r), Convertible(l, r.type)
  PROVE  /\ r.kind # "assign" /\ ~IsVoid(r.type)
         /\ IsInteger(r.type) \/ IsFloat(r.type) \/ IsPointer(r.type)
<1>1. IsInteger(r.type) \/ IsFloat(r.type) \/ IsPointer(r.type)
  BY ConvertibleNodes
<1> QED
  BY <1>1, RestrictIs, VoidIs

\* Comparisons, by the operand that gets the other one's type.
LEMMA ComparisonOfSame ==
  ASSUME NEW opr \in {"eq", "less"}, NEW l, NEW r, NodeOK(l), NodeOK(r), Same(l.type, r.type),
         ResolveComparison(opr, l, r).ok, ValueGaps(l) = {}, ValueGaps(r) = {},
         opr = "less" => IsInteger(l.type) \/ IsFloat(l.type)
  PROVE  /\ EmitValueOf(l) = {} /\ EmitValueOf(r) = {}
         /\ EmitBinary(opr, ValueOf(l), ValueOf(r)) = {}
<1> DEFINE t == l.type
           u == NoRef(t)
           ru == NoRef(r.type)
<1>1. \/ SymbolKind(t) = "enum" /\ opr = "eq"
      \/ IsInteger(t) \/ IsFloat(t) \/ IsPointer(t) \/ IsBoolean(t)
  BY DEF ResolveComparison, Checked
<1>2. l.kind # "assign" /\ ~IsVoid(t)
  <2>1. SymbolKind(t) = "enum" => t.base # "<restrict>"
    BY NoSuchName DEF SymbolKind, Bases, SymbolNames, Primitives
  <2> QED
    BY <1>1, <2>1, RestrictIs, VoidIs
<1>3. r.kind # "assign" /\ ~IsVoid(r.type)
  <2>1. SymbolKind(t) = "enum" => t.base # "<restrict>"
    BY NoSuchName DEF SymbolKind, Bases, SymbolNames, Primitives
  <2>2. r.type.base = t.base /\ IsInteger(r.type) = IsInteger(t) /\ IsFloat(r.type) = IsFloat(t)
        /\ IsPointer(r.type) = IsPointer(t) /\ IsBoolean(r.type) = IsBoolean(t) /\ IsVoid(r.type) = IsVoid(t)
    BY SamePredicates DEF Same
  <2> QED
    BY <1>1, <1>2, <2>1, <2>2, RestrictIs
<1>4. Stands(ValueOf(l), u) /\ EmitValueOf(l) = {}
  BY <1>2, ValueStands
<1>5. Stands(ValueOf(r), ru) /\ EmitValueOf(r) = {}
  BY <1>3, ValueStands
<1>6. IsType(u) /\ ~u.ref /\ Same(u, t)
  BY <1>2, NodeType, NoRefType
<1>7. IsType(ru) /\ ~ru.ref /\ Same(ru, r.type)
  BY <1>3, NodeType, NoRefType
<1> HIDE DEF u, ru
<1>8. Llvm(ru) = Llvm(u)
  <2>1. Same(ru, u) /\ ru.ref = u.ref
    BY <1>6, <1>7, TypeFields DEF Same
  <2> QED
    BY <2>1, SameLlvm
<1>9. Same(ValueOf(l).type, u) /\ Llvm(ValueOf(l).type) = Llvm(u) /\ Fits(ValueOf(l), Llvm(u)) /\ Fits(ValueOf(r), Llvm(u))
  BY <1>4, <1>5, <1>6, <1>8, StandsLlvm DEF Stands
<1>10. /\ opr = "eq" => IsInteger(u) \/ IsFloat(u) \/ IsPointer(u) \/ IsBoolean(u) \/ SymbolKind(u) = "enum"
       /\ opr = "less" => IsInteger(u) \/ IsFloat(u)
  BY <1>1, <1>6, SamePredicates, SameKind
<1>11. Operates(Instruction(opr, u), u, << >>)
  BY <1>6, <1>10, ComparisonOn
<1>12. EmitBinary(opr, ValueOf(l), ValueOf(r)) = {}
  BY <1>9, <1>11, BinaryEmits
<1> QED
  BY <1>4, <1>5, <1>12

LEMMA ComparisonRightConverted ==
  ASSUME NEW opr \in {"eq", "less"}, NEW l, NEW r, NodeOK(l), NodeOK(r), Convertible(r, l.type),
         ValueGaps(l) = {}, r.kind = "neg" => ~l.type.ref,
         opr = "less" => IsInteger(l.type) \/ IsFloat(l.type)
  PROVE  /\ EmitValueOf(l) = {} /\ EmitValueOf(Converted(r, l.type)) = {}
         /\ EmitBinary(opr, ValueOf(l), ValueOf(Converted(r, l.type))) = {}
<1> DEFINE t == l.type
           u == NoRef(t)
           v == ValueOf(Converted(r, t))
<1>1. l.kind # "assign" /\ ~IsVoid(t) /\ (IsInteger(t) \/ IsFloat(t) \/ IsPointer(t))
  BY MeetsType
<1>2. IsType(t) /\ IsType(u) /\ ~u.ref /\ Same(u, t)
  BY <1>1, NodeType, NoRefType
<1>3. Stands(ValueOf(l), u) /\ EmitValueOf(l) = {}
  BY <1>1, ValueStands
<1>4. Fits(v, Llvm(u)) /\ EmitValueOf(Converted(r, t)) = {}
  BY <1>2, ConvertedFits
<1> HIDE DEF u, v
<1>5. Same(ValueOf(l).type, u) /\ Llvm(ValueOf(l).type) = Llvm(u) /\ Fits(ValueOf(l), Llvm(u))
  BY <1>2, <1>3, StandsLlvm DEF Stands
<1>6. IsInteger(u) = IsInteger(t) /\ IsFloat(u) = IsFloat(t) /\ IsPointer(u) = IsPointer(t)
  BY <1>2, SamePredicates
<1>7. Operates(Instruction(opr, u), u, << >>)
  BY <1>1, <1>2, <1>6, ComparisonOn
<1>8. EmitBinary(opr, ValueOf(l), v) = {}
  BY <1>4, <1>5, <1>7, BinaryEmits
<1> QED
  BY <1>3, <1>4, <1>8 DEF v

LEMMA ComparisonLeftConverted ==
  ASSUME NEW opr \in {"eq", "less"}, NEW l, NEW r, NodeOK(l), NodeOK(r), Convertible(l, r.type),
         ValueGaps(r) = {}, ~r.type.ref,
         opr = "less" => IsInteger(r.type) \/ IsFloat(r.type)
  PROVE  /\ EmitValueOf(r) = {} /\ EmitValueOf(Converted(l, r.type)) = {}
         /\ EmitBinary(opr, ValueOf(Converted(l, r.type)), ValueOf(r)) = {}
<1> DEFINE t == r.type
           v == ValueOf(Converted(l, t))
<1>1. r.kind # "assign" /\ ~IsVoid(t) /\ (IsInteger(t) \/ IsFloat(t) \/ IsPointer(t))
  BY MeetsType
<1>2. IsType(t) /\ NoRef(t) = t
  BY <1>1, NodeType, NoRefType
<1>3. Stands(ValueOf(r), t) /\ EmitValueOf(r) = {}
  BY <1>1, PlainStands
<1>4. v.type = t /\ Fits(v, Llvm(t)) /\ EmitValueOf(Converted(l, t)) = {}
  BY <1>2, ConvertedFits
<1> HIDE DEF v
<1>5. Same(v.type, t) /\ Llvm(v.type) = Llvm(t) /\ Fits(ValueOf(r), Llvm(t))
  BY <1>3, <1>4 DEF Same, Stands
<1>7. Operates(Instruction(opr, t), t, << >>)
  BY <1>1, <1>2, ComparisonOn
<1>8. EmitBinary(opr, v, ValueOf(r)) = {}
  BY <1>4, <1>5, <1>7, BinaryEmits
<1> QED
  BY <1>3, <1>4, <1>8 DEF v

LEMMA ComparisonRight ==
  ASSUME NEW opr \in {"eq", "less"}, NEW l, NEW r, NodeOK(l), NodeOK(r),
         ResolveBinary(opr, l, r).ok, BinaryGaps(opr, l, r) = {}
  PROVE  /\ BinaryBad(opr, l, r) = {} /\ ResolveBinary(opr, l, r).type = Bool
         /\ BinaryMade(opr, l, r) = Variable(Bool, Llvm(Bool))
<1> DEFINE b == Meet(l, r)
<1>1. ResolveComparison(opr, l, r).ok /\ ResolveBinary(opr, l, r).type = Bool
  BY DEF ResolveBinary, ResolveComparison, Checked
<1>2. /\ ValueGaps(l) = {} /\ ValueGaps(r) = {}
      /\ AsReference(l, r) = {}
      /\ opr = "less" => Gap("order", ~IsInteger(b[1].own) /\ ~IsFloat(b[1].own)) = {}
  BY DEF BinaryGaps
<1>3. /\ LeftConverted(l, r) => ~r.type.ref
      /\ r.kind = "neg" /\ ~Same(l.type, r.type) /\ Convertible(r, l.type) => ~l.type.ref
      /\ opr = "less" => IsInteger(b[1].own) \/ IsFloat(b[1].own)
  BY <1>2 DEF AsReference, Gap
<1>4. Meets(l, r)
  BY <1>1 DEF ResolveComparison, Checked, Meets
<1>5. EmitValueOf(b[1]) = {} /\ EmitValueOf(b[2]) = {} /\ EmitBinary(opr, ValueOf(b[1]), ValueOf(b[2])) = {}
  <2>1. CASE Same(l.type, r.type)
    <3>1. b[1] = l /\ b[2] = r /\ b[1].own = l.type
      BY <2>1, NodeFields DEF Meet
    <3> QED
      BY <1>1, <1>2, <1>3, <2>1, <3>1, ComparisonOfSame
  <2>2. CASE ~Same(l.type, r.type) /\ Convertible(r, l.type)
    <3>1. b[1] = l /\ b[2] = Converted(r, l.type) /\ b[1].own = l.type
      BY <2>2, NodeFields DEF Meet
    <3> QED
      BY <1>2, <1>3, <2>2, <3>1, ComparisonRightConverted
  <2>3. CASE LeftConverted(l, r)
    <3>1. b[1] = Converted(l, r.type) /\ b[2] = r /\ Convertible(l, r.type)
      BY <2>3 DEF Meet, LeftConverted
    <3>2. b[1].own = r.type
      BY <3>1, ConvertedFields
    <3> QED
      BY <1>2, <1>3, <2>3, <3>1, <3>2, ComparisonLeftConverted
  <2> QED
    BY <1>4, <2>1, <2>2, <2>3, MeetCases
<1> HIDE DEF b
<1>6. Both(opr, l, r) = b
  BY DEF Both, b
<1>7. EmitResult(opr, ValueOf(b[1]), Bool) = {} /\ Computed(opr, ValueOf(b[1]), Bool) = Variable(Bool, Llvm(Bool))
  BY DEF EmitResult, Computed, Refused
<1> QED
  BY <1>1, <1>5, <1>6, <1>7 DEF BinaryBad, BinaryMade

LEMMA ArithmeticRight ==
  ASSUME NEW opr \in {"add", "div", "bits"}, NEW l, NEW r, NodeOK(l), NodeOK(r),
         ResolveBinary(opr, l, r).ok, BinaryGaps(opr, l, r) = {}
  PROVE  /\ BinaryBad(opr, l, r) = {} /\ ResolveBinary(opr, l, r).type = l.type
         /\ BinaryMade(opr, l, r) = Variable(l.type, Llvm(l.type))
         /\ IsType(l.type) /\ ~IsVoid(l.type) /\ ~l.type.ref
<1> DEFINE b == Meet(l, r)
<1>1. /\ Meets(l, r) /\ ResolveBinary(opr, l, r).type = l.type
      /\ opr # "bits" => Calculable(r.type)
      /\ opr = "bits" => CanBitwise(l.type) /\ CanBitwise(r.type)
  BY DEF ResolveBinary, ResolveArithmetic, ResolveBitwise, Checked
<1>2. /\ ReferenceResult(opr, l.type) = {}
      /\ Gap("left literal", /\ LeftConverted(l, r)
                             /\ SymbolKind(r.type) = "enum" /\ Same(l.type, I64) => r.type.ref) = {}
      /\ Gap("no arithmetic", opr # "bits" /\ ~Arithmetic(l.type)) = {}
  BY DEF BinaryGaps
<1>3. /\ ~l.type.ref
      /\ LeftConverted(l, r) => SymbolKind(r.type) = "enum" /\ Same(l.type, I64) /\ ~r.type.ref
      /\ opr # "bits" => Arithmetic(l.type)
  BY <1>2 DEF ReferenceResult, Gap
<1>4. l.kind # "assign" /\ ~IsVoid(l.type) /\ ~IsPointer(l.type)
  BY <1>1, <1>3, RestrictIs, VoidIs DEF Arithmetic, CanBitwise
<1>5. IsType(l.type)
  BY <1>4, NodeType
<1>6. Operates(Instruction(opr, l.type), l.type, << >>)
  <2>1. CASE opr = "bits"
    <3>1. Instruction(opr, l.type) = "bits"
      BY <2>1 DEF Instruction
    <3> QED
      BY <1>1, <1>3, <1>5, <2>1, <3>1, BitsOn
  <2>2. CASE opr # "bits"
    <3>1. opr \in {"add", "div"} /\ Arithmetic(l.type)
      BY <1>3, <2>2
    <3> QED
      BY <1>3, <1>5, <3>1, ArithmeticOn
  <2> QED
    BY <2>1, <2>2
<1>8. Both(opr, l, r) = b
  BY DEF Both
<1>9. b = Meet(l, r)
  OBVIOUS
<1> HIDE DEF b
<1>7. /\ EmitValueOf(b[1]) = {} /\ EmitValueOf(b[2]) = {} /\ EmitBinary(opr, ValueOf(b[1]), ValueOf(b[2])) = {}
      /\ EmitResult(opr, ValueOf(b[1]), l.type) = {} /\ Computed(opr, ValueOf(b[1]), l.type) = Variable(l.type, Llvm(l.type))
  <2>1. CASE ~LeftConverted(l, r)
    <3>1. Meets(l, r) /\ ~IsPointer(l.type) /\ ~l.type.ref
      BY <1>1, <1>3, <1>4
    <3>2. l.kind # "assign" /\ ~IsVoid(l.type)
      BY <1>4
    <3> QED
      BY ONLY opr \in {"add", "div", "bits"}, NodeOK(l), NodeOK(r), <1>6, <1>9, <2>1, <3>1, <3>2, CalculationRight
  <2>2. CASE LeftConverted(l, r)
    <3>1. opr = "bits"
      BY <1>1, <1>3, <2>2 DEF Calculable
    <3> QED
      BY <1>1, <1>3, <1>9, <2>2, <3>1, BitsOfEnum
  <2> QED
    BY <2>1, <2>2
<1> QED
  BY <1>1, <1>3, <1>4, <1>5, <1>7, <1>8, <1>9 DEF BinaryBad, BinaryMade

\* The same of the binary ones.
LEMMA BinaryRight ==
  ASSUME NEW opr \in {"add", "div", "bits", "eq", "less", "and"}, NEW l, NEW r, NodeOK(l), NodeOK(r),
         ResolveBinary(opr, l, r).ok, BinaryGaps(opr, l, r) = {}
  PROVE  /\ BinaryBad(opr, l, r) = {}
         /\ NodeOK(Node("op", ResolveBinary(opr, l, r).type, NoText, <<BinaryMade(opr, l, r)>>))
<1>1. CASE opr \in {"add", "div", "bits"}
  BY <1>1, ArithmeticRight, ClaimedNode
<1>2. IsType(Bool) /\ ~IsVoid(Bool) /\ ~Bool.ref
  <2>1. ~Bool.ref
    BY DEF Bool, Type
  <2> QED
    BY <2>1, LiteralTypes
<1>3. CASE opr \in {"eq", "less"}
  BY <1>2, <1>3, ComparisonRight, ClaimedNode
<1>4. CASE opr = "and"
  BY <1>2, <1>4, LogicalRight, ClaimedNode
<1> QED
  BY <1>1, <1>3, <1>4

-----------------------------------------------------------------------------
(***************************************************************************)
(* Conversions and array literals.                                         *)
(***************************************************************************)
\* A type of values: no struct or union, and not nothing.
Scalar(t) == IsPointer(t) \/ IsInteger(t) \/ IsFloat(t) \/ IsBoolean(t)

LEMMA ScalarType ==
  ASSUME NEW t, IsType(t), ~IsVoid(t), ~IsPlainStruct(t), ~(SymbolKind(t) = "union" /\ ~IsPointer(t))
  PROVE  Scalar(t)
<1>1. SUFFICES ASSUME ~IsPointer(t)
               PROVE  IsInteger(t) \/ IsFloat(t) \/ IsBoolean(t)
  BY DEF Scalar
<1>2. t.base # "void"
  BY <1>1, TypeFields DEF IsVoid, Same, Void, Type, IsPointer
<1>3. t.base \notin Structs
  <2>1. t.base \in Structs => SymbolKind(t) = "struct"
    BY NamesApart DEF SymbolKind
  <2> QED
    BY <1>1, <2>1 DEF IsPlainStruct
<1>4. t.base \notin Unions
  <2>1. t.base \in Unions => SymbolKind(t) = "union"
    BY NamesApart DEF SymbolKind
  <2> QED
    BY <1>1, <2>1
<1>5. t.base \in Primitives \cup Enums
  BY <1>2, <1>3, <1>4, TypeFields DEF Bases, SymbolNames
<1> QED
  BY <1>1, <1>5 DEF Primitives, IsInteger, IsFloat, IsBoolean

LEMMA ScalarLlvm ==
  ASSUME NEW t, IsType(t), ~t.ref, Scalar(t)
  PROVE  /\ IsPointer(t) => IsLlvmPointer(Llvm(t))
         /\ ~IsPointer(t) /\ ~IsFloat(t) => IsLlvmInt(Llvm(t))
         /\ IsFloat(t) => IsLlvmFloat(Llvm(t))
  BY PointerLlvm, IntegerLlvm, FloatLlvm, BooleanLlvm DEF Scalar

LEMMA ScalarsConvert ==
  ASSUME NEW u, NEW t, IsType(u), ~u.ref, Scalar(u), IsType(t), ~t.ref, Scalar(t),
         ~(IsFloat(u) /\ IsPointer(t)), ~(IsPointer(u) /\ IsFloat(t))
  PROVE  Converts(Llvm(u), Llvm(t))
<1>1. /\ IsPointer(t) => IsLlvmPointer(Llvm(t))
      /\ ~IsPointer(t) /\ ~IsFloat(t) => IsLlvmInt(Llvm(t))
      /\ IsFloat(t) => IsLlvmFloat(Llvm(t))
  BY ScalarLlvm
<1>2. /\ IsPointer(u) => IsLlvmPointer(Llvm(u))
      /\ ~IsPointer(u) /\ ~IsFloat(u) => IsLlvmInt(Llvm(u))
      /\ IsFloat(u) => IsLlvmFloat(Llvm(u))
  BY ScalarLlvm
<1> QED
  BY <1>1, <1>2 DEF Converts, IsLlvmNumber

\* A conversion has an instruction, and leaves a value of the type.
LEMMA ConvertRight ==
  ASSUME NEW n, NodeOK(n), NEW t, IsType(t), ~t.ref, ResolveConvert(n, t).ok, ConvertGaps(n, t) = {}
  PROVE  /\ EmitValueOf(n) \cup EmitConvert(ValueOf(n), t) = {}
         /\ NodeOK(Node("convert", t, NoText, <<Claimed(t)>>))
<1>1. /\ ValueGaps(n) = {}
      /\ \A u \in {n.type, t} : ~Valueless(u) /\ ~(SymbolKind(u) = "union" /\ ~IsPointer(u))
  BY DEF ConvertGaps, Gap
<1>2. /\ ~(IsFloat(n.type) /\ IsPointer(t)) /\ ~(IsPointer(n.type) /\ IsFloat(t))
      /\ ~IsPlainStruct(n.type) /\ ~IsPlainStruct(t)
  BY DEF ResolveConvert, Checked
<1>3. n.kind # "assign" /\ ~IsVoid(n.type) /\ ~IsVoid(t)
  BY <1>1, RestrictIs DEF Valueless
<1> DEFINE u == NoRef(n.type)
<1>4. IsType(n.type) /\ IsType(u) /\ ~u.ref /\ Same(u, n.type)
  BY <1>3, NodeType, NoRefType
<1>5. Stands(ValueOf(n), u) /\ EmitValueOf(n) = {}
  BY <1>1, <1>3, ValueStands
<1> HIDE DEF u
<1>6. Scalar(t)
  BY <1>1, <1>2, <1>3, ScalarType
<1>7. Scalar(n.type)
  BY <1>1, <1>2, <1>3, <1>4, ScalarType
<1>8. Scalar(u) /\ IsFloat(u) = IsFloat(n.type) /\ IsPointer(u) = IsPointer(n.type)
  BY <1>4, <1>7, SamePredicates DEF Scalar
<1>9. Converts(Llvm(u), Llvm(t))
  BY <1>2, <1>4, <1>6, <1>8, ScalarsConvert
<1>10. Llvm(ValueOf(n).type) = Llvm(u) /\ Fits(ValueOf(n), Llvm(ValueOf(n).type))
  BY <1>4, <1>5, StandsLlvm
<1>11. EmitConvert(ValueOf(n), t) = {}
  BY <1>9, <1>10 DEF EmitConvert, Refused
<1>12. NodeOK(Node("convert", t, NoText, <<Claimed(t)>>))
  BY <1>3, ClaimedNode DEF Claimed
<1> QED
  BY <1>5, <1>11, <1>12

\* A folded conversion leaves a number of the type.
LEMMA FoldRight ==
  ASSUME NEW n, NodeOK(n), NEW t, IsType(t), ~t.ref, Folds(n, t), ConvertGaps(n, t) = {},
         NEW m, m = Node("convert", t, n.text, << >>)
  PROVE  /\ Refused("value", Fits(Number(n.text, t), Llvm(t))) = {}
         /\ NodeOK(m)
<1>1. (n.kind = "number" \/ (n.kind = "convert" /\ n.text # NoText)) /\ ~IsPointer(t)
  BY DEF Folds, IsNumber
<1>2. n.text \in {"int", "float"}
  <2>1. CASE n.kind = "number"
    BY <2>1, NodeKinds, NumberNodeTypes
  <2>2. CASE n.kind = "convert" /\ n.text # NoText
    BY <2>2, NodeKinds DEF FoldedNode, ValueNode
  <2> QED
    BY <1>1, <2>1, <2>2
<1>3. n.text # NoText /\ n.kind # "neg"
  BY <1>1, <1>2 DEF NoText
<1>4. /\ (IsInteger(t) /\ n.text = "int") \/ IsFloat(t)
      /\ ~IsVoid(t)
  BY <1>1, <1>2, <1>3 DEF ConvertGaps, Gap, Valueless
<1>5. NoRef(t) = t
  BY NoRefType
<1>6. Fits(Number(n.text, t), Llvm(t))
  <2>1. Fits(Number(n.text, t), Llvm(NoRef(t)))
    BY <1>1, <1>2, <1>4, NumberStands
  <2> QED
    BY <1>5, <2>1
<1>7. IsNode(m) /\ m.kind = "convert" /\ m.type = t /\ m.text = n.text
  BY NodeRecord
<1>8. FoldedNode(m)
  BY <1>1, <1>2, <1>4, <1>6, <1>7 DEF FoldedNode, Declared
<1> QED
  BY <1>6, <1>7, <1>8 DEF NodeOK, Refused
-----------------------------------------------------------------------------
\* The wrong instructions of an array literal.
ArrayBad(args) ==
  EmitArray(ResolveArray(args).type,
            [i \in DOMAIN ArrayElements(args) |-> ValueOf(ArrayElements(args)[i])])
  \cup (UNION {EmitValueOf(ArrayElements(args)[i]) : i \in DOMAIN ArrayElements(args)})

LEMMA ArrayRecord ==
  ASSUME NEW t \in TypeRecords, NEW a, a = [PointerCopy(t) EXCEPT !.arr = TRUE]
  PROVE  a \in TypeRecords /\ a.base = t.base /\ a.ptr = t.ptr + 1 /\ a.ref = t.ref /\ a.arr = TRUE
<1> DEFINE p == PointerCopy(t)
<1>1. p \in TypeRecords /\ p.base = t.base /\ p.ptr = t.ptr + 1 /\ p.ref = t.ref
  BY PointerRecord
<1> HIDE DEF p
<1>2. a = [p EXCEPT !.arr = TRUE]
  BY DEF p
<1> QED
  BY <1>1, <1>2 DEF TypeRecords

\* The elements of an array literal are stored as the first one's type.
LEMMA ArrayRight ==
  ASSUME NEW args, NEW k \in Nat \ {0}, DOMAIN args = 1..k, \A i \in 1..k : NodeOK(args[i]),
         ResolveArray(args).ok, ArrayGaps(args) = {}
  PROVE  /\ ArrayBad(args) = {}
         /\ NodeOK(Node("literal", ResolveArray(args).type, NoText, <<Claimed(ResolveArray(args).type)>>))
<1> DEFINE t == args[1].type
           a == ResolveArray(args).type
           e == ArrayElements(args)
<1>1. /\ \A i \in 1..k : Agrees(args[i], t)
      /\ a = [PointerCopy(t) EXCEPT !.arr = TRUE]
      /\ DOMAIN e = 1..k /\ \A i \in 1..k : e[i] = Adjusted(args[i], t)
  BY DEF ResolveArray, Checked, ArrayElements
<1>2. /\ \A i \in 1..k : ValueGaps(args[i]) = {}
      /\ ~t.ref /\ ~IsVoid(t) /\ t.base # "<restrict>"
  <2>1. /\ UNION {ValueGaps(args[i]) : i \in DOMAIN args} = {}
        /\ Gap("array of references", t.ref) = {} /\ Gap("array of nothing", Valueless(t)) = {}
    BY DEF ArrayGaps
  <2>2. \A i \in 1..k : ValueGaps(args[i]) = {}
    BY <2>1
  <2> QED
    BY <2>1, <2>2 DEF Gap, Valueless
<1>3. NodeOK(args[1]) /\ args[1].kind # "assign"
  BY <1>2, RestrictIs
<1>4. IsType(t) /\ t \in TypeRecords /\ t.ptr \in Nat
  BY <1>3, NodeType, TypeRecord
<1> HIDE DEF t, a, e
<1>5. a \in TypeRecords /\ a.base = t.base /\ a.ptr = t.ptr + 1 /\ a.ref = t.ref /\ a.arr = TRUE
  BY <1>1, <1>4, ArrayRecord
<1>6. RefCopy(a).base = t.base /\ RefCopy(a).ptr = t.ptr /\ RefCopy(a).ref = t.ref
  BY <1>4, <1>5, RefRecord
<1>7. Llvm(RefCopy(a)) = Llvm(t)
  BY <1>6, LlvmSame
<1>8. \A i \in 1..k : Fits(ValueOf(e[i]), Llvm(t)) /\ EmitValueOf(e[i]) = {}
  BY <1>1, <1>2, <1>4, AdjustedSuits DEF Suits
<1>9. ArrayBad(args) = {}
  <2>1. EmitArray(a, [i \in DOMAIN e |-> ValueOf(e[i])]) = {}
    BY <1>1, <1>7, <1>8 DEF EmitArray, Refused
  <2>2. UNION {EmitValueOf(e[i]) : i \in DOMAIN e} = {}
    BY <1>1, <1>8
  <2> QED
    BY <2>1, <2>2 DEF ArrayBad, a, e
<1>10. IsType(a) /\ ~IsVoid(a) /\ ~a.ref
  <2>1. a.ptr > 0 /\ a.ptr \in Nat /\ ~a.ref /\ a.base \in SymbolNames \cup {"void"}
    BY <1>2, <1>4, <1>5, TypeFields DEF Bases
  <2>2. ~IsVoid(a)
    BY <2>1 DEF IsVoid, Same, Void, Type
  <2>3. a \in [base : SymbolNames \cup {"void"}, ptr : Nat, ref : BOOLEAN, arr : BOOLEAN, const : BOOLEAN]
    BY <1>5, <2>1 DEF TypeRecords
  <2> QED
    BY <2>1, <2>2, <2>3 DEF IsType, IsPointer
<1>11. NodeOK(Node("literal", a, NoText, <<Claimed(a)>>))
  BY <1>10, ClaimedNode DEF Claimed
<1> QED
  BY <1>9, <1>11 DEF a

-----------------------------------------------------------------------------
(***************************************************************************)
(* Call chains.  The links, and the chain behind a step.                   *)
(***************************************************************************)
LEMMA LinkFields ==
  ASSUME NEW t, NEW l, l = Link(t)
  PROVE  ValueLink(l) /\ l.type = t
  BY DEF Link, ValueLink

LEMMA GlobalLinkFields ==
  ASSUME NEW t, NEW l, l = GlobalLink(t)
  PROVE  SymbolLink(l) /\ l.type = t
  BY DEF Link, GlobalLink, SymbolLink

LEMMA TagLinkFields ==
  ASSUME NEW t, NEW l, l = [GlobalLink(t) EXCEPT !.tag = TRUE]
  PROVE  TagLink(l) /\ l.type = t
  BY DEF Link, GlobalLink, TagLink

LEMMA FuncLinkFields ==
  ASSUME NEW o, NEW name, NEW l, l = FuncLink(o, name)
  PROVE  l.global /\ ~l.tag /\ l.func = <<o, name>> /\ l.type = Type(o, 0)
  BY DEF Link, FuncLink

\* The chain behind a step.
Extended(c, l, v, x) == [c EXCEPT !.link = l, !.vals = v, !.last = x]
Called(c, l, x, b, v) == [c EXCEPT !.link = l, !.last = x, !.init = @ \/ b, !.vals = v]
Initialized(c, l, v, x) == [c EXCEPT !.link = l, !.vals = v, !.init = TRUE, !.last = x]

LEMMA ExtendedFields ==
  ASSUME NEW c, IsChain(c), NEW l, NEW v, NEW x
  PROVE  \A d : d = Extended(c, l, v, x) =>
                 /\ IsChain(d) /\ d.head = c.head /\ d.link = l /\ d.vals = v /\ d.last = x
                 /\ d.init = c.init
<1> TAKE d
<1> HAVE d = Extended(c, l, v, x)
<1> QED
  BY DEF IsChain, Extended

LEMMA CalledFields ==
  ASSUME NEW c, IsChain(c), NEW l, NEW v, NEW x, NEW b
  PROVE  \A d : d = Called(c, l, x, b, v) =>
                 /\ IsChain(d) /\ d.head = c.head /\ d.link = l /\ d.vals = v /\ d.last = x
                 /\ d.init <=> c.init \/ b
<1> TAKE d
<1> HAVE d = Called(c, l, x, b, v)
<1> QED
  BY DEF IsChain, Called

LEMMA InitializedFields ==
  ASSUME NEW c, IsChain(c), NEW l, NEW v, NEW x
  PROVE  \A d : d = Initialized(c, l, v, x) =>
                 /\ IsChain(d) /\ d.head = c.head /\ d.link = l /\ d.vals = v /\ d.last = x
                 /\ d.init
<1> TAKE d
<1> HAVE d = Initialized(c, l, v, x)
<1> QED
  BY DEF IsChain, Initialized

LEMMA MadeValueChain ==
  ASSUME NEW d, IsChain(d), NEW t, IsType(t), NEW v, d.link = Link(t), d.vals = <<v>>,
         Held(v, t), IsPlace(d) => Place(v, t)
  PROVE  GoodChain(d)
<1>1. ValueLink(d.link) /\ d.link.type = t
  BY LinkFields
<1>2. d.vals[1] = v
  OBVIOUS
<1>3. ValueChain(d)
  BY <1>1, <1>2 DEF ValueChain
<1> QED
  BY <1>3 DEF GoodChain

LEMMA MadeMethodChain ==
  ASSUME NEW d, IsChain(d), NEW o, NEW name, NEW v, d.link = FuncLink(o, name),
         <<o, name>> \in DOMAIN Funcs, Funcs[<<o, name>>].kind = "method",
         d.vals = <<v, Symbol("method", Type(o, 0))>>,
         v = Variable(v.type, Llvm(v.type)), ~v.type.ref, Llvm(v.type) = Llvm(RefType(o, 0))
  PROVE  GoodChain(d)
<1> DEFINE f == <<o, name>>
<1>1. d.link.func = f /\ d.link.global /\ ~d.link.tag
  BY FuncLinkFields
<1>2. f[1] = o
  OBVIOUS
<1>3. d.vals[1] = v /\ d.vals = <<d.vals[1], Symbol("method", Type(o, 0))>>
  OBVIOUS
<1>4. v = Variable(v.type, Llvm(RefType(o, 0)))
  OBVIOUS
<1>6. f \in DOMAIN Funcs /\ Funcs[f].kind = "method"
  BY <1>2
<1> HIDE DEF f
<1>5. FuncChain(d)
  <2>1. /\ d.vals = <<d.vals[1], Symbol("method", Type(f[1], 0))>>
        /\ d.vals[1] = Variable(d.vals[1].type, Llvm(RefType(f[1], 0)))
        /\ ~d.vals[1].type.ref /\ Llvm(d.vals[1].type) = Llvm(RefType(f[1], 0))
    BY <1>2, <1>3, <1>4
  <2> QED
    BY <1>1, <1>6, <2>1 DEF FuncChain
<1> QED
  BY <1>5 DEF GoodChain

LEMMA MadeStaticChain ==
  ASSUME NEW d, IsChain(d), NEW o, NEW name, d.link = FuncLink(o, name),
         <<o, name>> \in DOMAIN Funcs, Funcs[<<o, name>>].kind # "method",
         d.vals = <<Symbol("func", Type(o, 0))>>
  PROVE  GoodChain(d)
<1> DEFINE f == <<o, name>>
<1>1. d.link.func = f /\ d.link.global /\ ~d.link.tag
  BY FuncLinkFields
<1>2. f[1] = o
  OBVIOUS
<1>6. f \in DOMAIN Funcs /\ Funcs[f].kind # "method"
  BY <1>2
<1> HIDE DEF f
<1>5. FuncChain(d)
  BY <1>1, <1>2, <1>6 DEF FuncChain
<1> QED
  BY <1>5 DEF GoodChain

\* A member that is found is a field of a struct or union, or a method that may
\* be called here.
FoundField(t, name) ==
  /\ t.base \in Structs \cup Unions /\ Declared(FieldsOf(t)[name])
  /\ ResolveMember(t, name).link = Link(FieldsOf(t)[name])
FoundMethod(t, name) ==
  /\ t.base \in Primitives \cup Structs \cup Unions
  /\ <<t.base, name>> \in DOMAIN Funcs /\ Funcs[<<t.base, name>>].kind = "method"
  /\ ResolveMember(t, name).link = FuncLink(t.base, name)

LEMMA FieldDeclared ==
  ASSUME NEW t, NEW name, name \in DOMAIN FieldsOf(t)
  PROVE  /\ t.base \in Structs \cup Unions /\ Declared(FieldsOf(t)[name])
         /\ t.base \in Unions => ~FieldsOf(t)[name].ref
<1>1. CASE t.base \in Structs
  BY <1>1, ProgramAssumption, NamesApart DEF FieldsOf
<1>2. CASE t.base \notin Structs /\ t.base \in Unions
  BY <1>2, ProgramAssumption DEF FieldsOf
<1>3. CASE t.base \notin Structs \cup Unions
  BY <1>3 DEF FieldsOf
<1> QED
  BY <1>1, <1>2, <1>3

LEMMA FunctionOwner ==
  ASSUME NEW o, NEW name, <<o, name>> \in DOMAIN Funcs
  PROVE  /\ o \in Primitives \cup Structs \cup Unions \cup {Module}
         /\ o = Module <=> Funcs[<<o, name>>].kind = "func"
         /\ <<o, name>> # NoFunc
<1> DEFINE f == <<o, name>>
<1>1. f[1] = o
  OBVIOUS
<1>2. /\ f[1] \in Primitives \cup Structs \cup Unions \cup {Module}
      /\ f[1] = Module <=> Funcs[f].kind = "func"
      /\ f # NoFunc
  BY ProgramAssumption
<1> QED
  BY <1>1, <1>2

LEMMA MemberFound ==
  ASSUME NEW t, NEW name, ResolveMember(t, name).ok
  PROVE  FoundField(t, name) \/ FoundMethod(t, name)
<1>1. CASE name \in DOMAIN FieldsOf(t)
  <2>1. ResolveMember(t, name).link = Link(FieldsOf(t)[name])
    BY <1>1 DEF ResolveMember
  <2> QED
    BY <1>1, <2>1, FieldDeclared DEF FoundField
<1>2. CASE name \notin DOMAIN FieldsOf(t)
  <2>1. /\ HasMethod(t, name) /\ FuncOf(t, name).kind = "method"
        /\ ResolveMember(t, name).link = FuncLink(t.base, name)
    BY <1>2 DEF ResolveMember
  <2>2. <<t.base, name>> \in DOMAIN Funcs /\ Funcs[<<t.base, name>>].kind = "method"
    BY <2>1 DEF HasMethod, FuncOf
  <2>3. t.base \in Primitives \cup Structs \cup Unions
    BY <2>2, FunctionOwner
  <2> QED
    BY <2>1, <2>2, <2>3 DEF FoundMethod
<1> QED
  BY <1>1, <1>2

LEMMA GetFieldResult ==
  ASSUME NEW c, NEW name
  PROVE  /\ ResolveGetField(c, name).link = ResolveMember(c.type, name).link
         /\ ResolvePtrGetField(c, name).link = ResolveMember(c.type, name).link
         /\ ResolveGetField(c, name).ok => /\ ResolveMember(c.type, name).ok
                                           /\ ~c.global /\ ~IsPointer(c.type)
         /\ ResolvePtrGetField(c, name).ok => /\ ResolveMember(c.type, name).ok
                                              /\ ~c.global /\ c.type.ptr = 1
<1> DEFINE found == ResolveMember(c.type, name)
<1>1. \E a, l : found = [ok |-> a, link |-> l]
  <2>1. CASE name \in DOMAIN FieldsOf(c.type)
    BY <2>1 DEF ResolveMember
  <2>2. CASE name \notin DOMAIN FieldsOf(c.type)
    BY <2>2 DEF ResolveMember
  <2> QED
    BY <2>1, <2>2
<1>2. PICK a, l : found = [ok |-> a, link |-> l]
  BY <1>1
<1>3. /\ ResolveGetField(c, name) = [found EXCEPT !.ok = @ /\ ~c.global /\ ~IsPointer(c.type)]
      /\ ResolvePtrGetField(c, name) = [found EXCEPT !.ok = @ /\ ~c.global /\ c.type.ptr = 1]
  BY DEF ResolveGetField, ResolvePtrGetField
<1>5. found.ok = a /\ found.link = l
  BY <1>2
<1> HIDE DEF found
<1>4. /\ ResolveGetField(c, name).link = found.link
      /\ ResolvePtrGetField(c, name).link = found.link
      /\ ResolveGetField(c, name).ok => found.ok /\ ~c.global /\ ~IsPointer(c.type)
      /\ ResolvePtrGetField(c, name).ok => found.ok /\ ~c.global /\ c.type.ptr = 1
  BY <1>2, <1>3
<1> QED
  BY <1>4 DEF found

-----------------------------------------------------------------------------
(***************************************************************************)
(* Members of objects.                                                     *)
(***************************************************************************)
LEMMA ChainCases ==
  ASSUME NEW c, GoodChain(c), c # NoChain
  PROVE  /\ IsChain(c)
         /\ ~c.link.global => ValueChain(c)
         /\ ~IsFunction(c.link) => ValueChain(c) \/ SymbolChain(c) \/ TagChain(c)
         /\ IsFunction(c.link) => FuncChain(c)
<1>1. ValueChain(c) => ~c.link.global /\ ~IsFunction(c.link)
  BY DEF ValueChain, ValueLink, IsFunction
<1>2. SymbolChain(c) => c.link.global /\ ~IsFunction(c.link)
  BY DEF SymbolChain, SymbolLink, IsFunction
<1>3. TagChain(c) => c.link.global /\ ~IsFunction(c.link)
  BY DEF TagChain, TagLink, IsFunction
<1>4. FuncChain(c) => c.link.global /\ IsFunction(c.link)
  <2>1. \A f \in DOMAIN Funcs : f # NoFunc
    BY ProgramAssumption
  <2> QED
    BY <2>1 DEF FuncChain, IsFunction
<1> QED
  BY <1>1, <1>2, <1>3, <1>4 DEF GoodChain

LEMMA OneValue ==
  ASSUME NEW v, NEW s, s = <<v>>
  PROVE  Top(s) = v
  BY DEF Top

LEMMA ValueChainFields ==
  ASSUME NEW c, ValueChain(c)
  PROVE  /\ IsType(c.link.type) /\ Held(Top(c.vals), c.link.type)
         /\ EmitDeReference(Top(c.vals)) = {}
         /\ Held(DeReference(Top(c.vals)), NoRef(c.link.type))
         /\ Top(c.vals) = c.vals[1]
<1>1. Top(c.vals) = c.vals[1]
  BY OneValue DEF ValueChain
<1>2. IsType(c.link.type) /\ Held(c.vals[1], c.link.type)
  BY DEF ValueChain
<1> QED
  BY <1>1, <1>2, DeReferenceHeld

\* The object of a member: a register with the address of a struct or union.
Object(o, t) ==
  /\ o = Variable(o.type, Llvm(o.type)) /\ o.type \in TypeRecords
  /\ o.type.base = t.base /\ o.type.ptr = 1 /\ o.type.ref = FALSE

LEMMA MemberRight ==
  ASSUME NEW t, NEW name, FoundField(t, name) \/ FoundMethod(t, name),
         NEW o, Object(o, t), NEW res, res.link = ResolveMember(t, name).link,
         NEW d, IsChain(d), d.link = res.link, d.vals = Member(res, o)
  PROVE  EmitMember(res, o) = {} /\ GoodChain(d)
<1>0. /\ o.real = Llvm(o.type) /\ o.type \in TypeRecords
      /\ o.type.base = t.base /\ o.type.ptr = 1 /\ o.type.ref = FALSE
  BY VariableFields DEF Object
<1>1. IsChain(d) /\ d.link = res.link /\ d.vals = Member(res, o)
  OBVIOUS
<1>2. CASE FoundField(t, name)
  <2> DEFINE f == FieldsOf(t)[name]
  <2>1. Declared(f) /\ res.link = Link(f) /\ t.base \in Structs \cup Unions
    BY <1>2 DEF FoundField
  <2>2. ~IsFunction(res.link) /\ res.link.type = f
    BY <2>1, LinkFields DEF IsFunction, ValueLink
  <2>3. IsType(f) /\ ~IsVoid(f)
    BY <2>1 DEF Declared
  <2> HIDE DEF f
  <2>4. Member(res, o) = <<FieldAt(o.type, f)>> /\ EmitMember(res, o) = EmitField(o)
    BY <2>2 DEF Member, EmitMember
  <2>5. Place(FieldAt(o.type, f), f)
    BY <2>3, FieldIsPlace
  <2>6. Held(FieldAt(o.type, f), f)
    BY <2>3, <2>5 DEF Held
  <2>7. GoodChain(d)
    BY <1>1, <2>1, <2>3, <2>4, <2>5, <2>6, MadeValueChain
  <2>8. EmitField(o) = {}
    <3> DEFINE e == RefCopy(o.type)
    <3>1. e \in TypeRecords /\ e.base = t.base /\ e.ptr = 0 /\ e.ref = FALSE
      BY <1>0, RefRecord
    <3> HIDE DEF e
    <3>3. o.type.base = e.base /\ o.type.ptr = e.ptr + 1 /\ o.type.ref = e.ref /\ e.ptr \in Int
      <4>1. e.ptr + 1 = 1 /\ e.ptr \in Int
        BY ONLY <3>1
      <4> QED
        BY ONLY <4>1, <1>0, <3>1
    <3>4. Llvm(o.type) = Star(Llvm(e))
      BY <3>3, LlvmStar
    <3> QED
      BY <1>0, <2>1, <3>1, <3>4 DEF EmitField, Refused, e
  <2> QED
    BY <2>4, <2>7, <2>8
<1>3. CASE FoundMethod(t, name)
  <2>1. /\ res.link = FuncLink(t.base, name)
        /\ <<t.base, name>> \in DOMAIN Funcs /\ Funcs[<<t.base, name>>].kind = "method"
    BY <1>3 DEF FoundMethod
  <2>2. IsFunction(res.link) /\ res.link.type = Type(t.base, 0)
    BY <2>1, FuncLinkFields, FunctionOwner DEF IsFunction
  <2>3. Member(res, o) = <<o, Symbol("method", Type(t.base, 0))>> /\ EmitMember(res, o) = {}
    BY <2>2 DEF Member, EmitMember
  <2>4. Llvm(o.type) = Llvm(RefType(t.base, 0))
    <3>1. RefType(t.base, 0).base = t.base /\ RefType(t.base, 0).ptr = 0 /\ RefType(t.base, 0).ref = TRUE
      BY DEF RefType, Type
    <3>2. /\ o.type.base = RefType(t.base, 0).base /\ o.type.ptr = RefType(t.base, 0).ptr + 1
          /\ RefType(t.base, 0).ptr \in Int
      BY <1>0, <3>1
    <3> QED
      BY <1>0, <3>1, <3>2, LlvmReference
  <2>5. o = Variable(o.type, Llvm(o.type)) /\ ~o.type.ref
    BY DEF Object
  <2> QED
    BY <1>1, <2>1, <2>3, <2>4, <2>5, MadeMethodChain
<1> QED
  BY <1>2, <1>3

\* The place of a value that is no pointer, and the pointer in a place.
LEMMA FoundIsPlace ==
  ASSUME NEW t, IsType(t), NEW name, FoundField(t, name) \/ FoundMethod(t, name),
         NEW p, Held(p, NoRef(t))
  PROVE  Place(p, NoRef(t))
<1>1. t.base \in Primitives \cup Structs \cup Unions
  BY DEF FoundField, FoundMethod
<1>2. t.base \notin Enums /\ t.base # "void"
  BY <1>1, NamesApart DEF SymbolNames
<1>3. NoRef(t).base = t.base
  BY NoRefRecord, TypeRecord
<1> QED
  BY <1>2, <1>3 DEF Held, IsVoid, Same, Void, Type

\* Members are taken from the address of an object, and leave a place or a method.
LEMMA GetFieldRight ==
  ASSUME NEW c, GoodChain(c), c # NoChain, NEW name, NEW res, res = ResolveGetField(c.link, name), res.ok,
         NEW p, p = DeReference(Top(c.vals)),
         NEW d, d = Extended(c, res.link, Member(res, p), "field")
  PROVE  EmitDeReference(Top(c.vals)) \cup EmitMember(res, p) = {} /\ GoodChain(d)
<1> DEFINE t == c.link.type
<1>1. /\ res.link = ResolveMember(t, name).link /\ ResolveMember(t, name).ok
      /\ ~c.link.global /\ ~IsPointer(t)
  BY GetFieldResult
<1>2. ValueChain(c) /\ IsChain(c)
  BY <1>1, ChainCases
<1>3. IsType(t) /\ EmitDeReference(Top(c.vals)) = {} /\ Held(p, NoRef(t))
  BY <1>2, ValueChainFields
<1> HIDE DEF t
<1>4. FoundField(t, name) \/ FoundMethod(t, name)
  BY <1>1, MemberFound
<1>5. Place(p, NoRef(t))
  BY <1>3, <1>4, FoundIsPlace
<1>6. Object(p, t)
  <2> DEFINE u == NoRef(t)
  <2>1. t.ptr = 0 /\ ~t.arr
    BY <1>1, <1>3, TypeFields DEF IsPointer, IsType
  <2>2. u.base = t.base /\ u.ptr = 0 /\ u.ref = FALSE /\ ~u.arr
    BY <2>1, <1>3, NoRefRecord, TypeRecord
  <2> HIDE DEF u
  <2>3. /\ p = Variable(p.type, p.real) /\ p.type \in TypeRecords
        /\ p.type.base = u.base /\ p.type.ptr = u.ptr + 1 /\ p.type.ref = u.ref
        /\ p.real = Star(Llvm(u))
    BY <1>5, <2>2 DEF Place, u
  <2>4. u.ptr \in Int
    BY <2>2
  <2>5. Llvm(p.type) = Star(Llvm(u))
    BY ONLY <2>3, <2>4, LlvmStar
  <2> QED
    BY <2>2, <2>3, <2>5 DEF Object
<1>8. IsChain(d) /\ d.link = res.link /\ d.vals = Member(res, p)
  BY <1>2, ExtendedFields
<1>7. EmitMember(res, p) = {} /\ GoodChain(d)
  BY <1>1, <1>4, <1>6, <1>8, MemberRight
<1> QED
  BY <1>3, <1>7

LEMMA PtrGetFieldRight ==
  ASSUME NEW c, GoodChain(c), c # NoChain, NEW name, NEW res, res = ResolvePtrGetField(c.link, name), res.ok,
         NEW p, p = DeReference(Top(c.vals)), ArrowGaps(p) = {},
         NEW d, d = Extended(c, res.link, Member(res, Pointed(p)), "field")
  PROVE  /\ EmitDeReference(Top(c.vals)) \cup EmitPointed(p) \cup EmitMember(res, Pointed(p)) = {}
         /\ GoodChain(d)
<1> DEFINE t == c.link.type
<1>1. /\ res.link = ResolveMember(t, name).link /\ ResolveMember(t, name).ok
      /\ ~c.link.global /\ t.ptr = 1
  BY GetFieldResult
<1>2. ValueChain(c) /\ IsChain(c)
  BY <1>1, ChainCases
<1>3. IsType(t) /\ EmitDeReference(Top(c.vals)) = {} /\ Held(p, NoRef(t))
  BY <1>2, ValueChainFields
<1> HIDE DEF t
<1>4. FoundField(t, name) \/ FoundMethod(t, name)
  BY <1>1, MemberFound
<1>5. Place(p, NoRef(t))
  BY <1>3, <1>4, FoundIsPlace
<1>6. Object(Pointed(p), t) /\ EmitPointed(p) = {}
  <2> DEFINE u == NoRef(t)
             e == RefCopy(p.type)
  <2>2. u.base = t.base /\ u.ptr = 1 /\ u.ref = FALSE
    BY <1>1, <1>3, NoRefRecord, TypeRecord
  <2> HIDE DEF u
  <2>3. /\ p.kind = "variable" /\ p.type \in TypeRecords
        /\ p.type.base = u.base /\ p.type.ptr = u.ptr + 1 /\ p.type.ref = u.ref
        /\ (p.real = Star(Llvm(u)) \/ p.real = Star(LlvmArray(u)))
    BY <1>5, VariableFields DEF Place, u
  <2>4. p.real = Star(Llvm(u))
    <3>1. p.real.in # "array"
      BY DEF ArrowGaps, Gap, InPlace
    <3> QED
      BY <2>3, <3>1, LlvmArrayFields
  <2>5. e \in TypeRecords /\ e.base = u.base /\ e.ptr = 1 /\ e.ref = FALSE
    BY <2>2, <2>3, RefRecord
  <2>6. Pointed(p) = Variable(e, Llvm(e)) /\ EmitPointed(p) = EmitLoad(e, p)
    BY DEF Pointed, EmitPointed, Loaded, Claimed
  <2> HIDE DEF e
  <2>7. Llvm(e) = Llvm(u)
    BY <2>2, <2>5, LlvmSame
  <2>8. EmitPointed(p) = {}
    BY <2>3, <2>4, <2>6, <2>7 DEF EmitLoad, Refused
  <2> QED
    BY <2>2, <2>5, <2>6, <2>8, VariableFields DEF Object
<1>8. IsChain(d) /\ d.link = res.link /\ d.vals = Member(res, Pointed(p))
  BY <1>2, ExtendedFields
<1>7. EmitMember(res, Pointed(p)) = {} /\ GoodChain(d)
  BY <1>1, <1>4, <1>6, <1>8, MemberRight
<1> QED
  BY <1>3, <1>6, <1>7

-----------------------------------------------------------------------------
(***************************************************************************)
(* Paths.                                                                  *)
(***************************************************************************)
LEMMA SymbolTypes ==
  ASSUME NEW s \in SymbolNames
  PROVE  /\ IsType(Type(s, 0)) /\ ~IsVoid(Type(s, 0)) /\ ~Type(s, 0).ref
         /\ SymbolKind(Type(s, 0)) \in {"basic", "struct", "union", "enum"}
         /\ SymbolKind(Type(s, 0)) = "enum" <=> s \in Enums
<1>1. Type(s, 0).base = s /\ Type(s, 0).ptr = 0 /\ ~Type(s, 0).ref /\ ~Type(s, 0).arr
  BY PlainTypes
<1>2. Type(s, 0) \in [base : SymbolNames \cup {"void"}, ptr : Nat, ref : BOOLEAN, arr : BOOLEAN, const : BOOLEAN]
  BY DEF Type
<1>3. ~IsVoid(Type(s, 0))
  BY <1>1, NamesApart DEF IsVoid, Same, Void, Type
<1>4. IsType(Type(s, 0))
  BY <1>1, <1>2 DEF IsType
<1>5. /\ SymbolKind(Type(s, 0)) \in {"basic", "struct", "union", "enum"}
      /\ SymbolKind(Type(s, 0)) = "enum" <=> s \in Enums
  BY <1>1, NamesApart DEF SymbolKind, SymbolNames
<1> QED
  BY <1>1, <1>3, <1>4, <1>5

LEMMA SymbolFields ==
  ASSUME NEW kind, NEW t
  PROVE  Symbol(kind, t).kind = kind /\ Symbol(kind, t).type = t
  BY ValueFields DEF Symbol

\* What a path leaves.
PathMade(symbol, t) == IF symbol.kind = "enum" THEN Flag(t) ELSE Symbol("func", t)

\* A path leaves a constant, a member of a union or a static method that may be called.
LEMMA CallPathRight ==
  ASSUME NEW c, GoodChain(c), c # NoChain, ~IsFunction(c.link), NEW name,
         NEW res, res = ResolveCallPath(c.link, name), res.ok, PathGaps(c.link) = {},
         NEW d, d = Extended(c, res.link, <<PathMade(Top(c.vals), res.link.type)>>, "path")
  PROVE  Refused("path", Top(c.vals).kind # "func") = {} /\ GoodChain(d)
<1> DEFINE t == c.link.type
           made == PathMade(Top(c.vals), res.link.type)
<1>1. c.link.global
  <2>1. CASE t.base \in Enums
    BY <2>1, TypesAssumption DEF ResolveCallPath
  <2>2. CASE t.base \notin Enums /\ t.base \in Unions /\ name \in DOMAIN Members[t.base]
    BY <2>2 DEF ResolveCallPath
  <2>3. CASE t.base \notin Enums /\ ~(t.base \in Unions /\ name \in DOMAIN Members[t.base])
    BY <2>3 DEF ResolveCallPath
  <2> QED
    BY <2>1, <2>2, <2>3
<1>2. SymbolChain(c)
  <2>1. ~c.link.tag
    BY DEF PathGaps, Gap
  <2> QED
    BY <1>1, <2>1, ChainCases DEF ValueChain, ValueLink, TagChain, TagLink
<1>3. PICK s \in SymbolNames :
        /\ t = Type(s, 0) /\ c.head = Type(s, 0)
        /\ c.vals = <<Symbol(SymbolKind(Type(s, 0)), Type(s, 0))>>
  BY <1>2 DEF SymbolChain
<1>4. Top(c.vals) = Symbol(SymbolKind(Type(s, 0)), Type(s, 0))
  BY <1>3, OneValue
<1>5. Top(c.vals).kind = SymbolKind(Type(s, 0))
  BY <1>4, SymbolFields
<1>6. /\ Top(c.vals).kind \in {"basic", "struct", "union", "enum"}
      /\ Top(c.vals).kind = "enum" <=> s \in Enums
  BY <1>5, SymbolTypes
<1>7. /\ IsChain(d) /\ d.head = c.head /\ d.link = res.link /\ d.vals = <<made>> /\ d.last = "path"
  BY ChainCases, ExtendedFields
<1>8. t.base = s /\ t.ptr = 0 /\ ~t.ref /\ IsType(t)
  <2>1. Type(s, 0).base = s /\ Type(s, 0).ptr = 0 /\ ~Type(s, 0).ref
    BY ONLY PlainTypes
  <2>2. IsType(Type(s, 0))
    BY SymbolTypes
  <2>3. t = Type(s, 0)
    BY <1>3
  <2> HIDE DEF t
  <2> QED
    BY ONLY <2>1, <2>2, <2>3
<1>9. Refused("path", Top(c.vals).kind # "func") = {}
  BY <1>6 DEF Refused
<1>10. CASE s \in Enums
  <2>1. res.link = Link(t)
    BY <1>8, <1>10, TypesAssumption DEF ResolveCallPath
  <2>2. made = Flag(t)
    BY <1>6, <1>10, <2>1, LinkFields DEF PathMade
  <2> HIDE DEF t, made
  <2>3. Held(made, t)
    BY <1>8, <1>10, <2>2 DEF Held
  <2>4. ~IsPlace(d)
    BY <1>7, <1>8, <2>1, LinkFields DEF IsPlace
  <2>5. GoodChain(d)
    BY <1>7, <1>8, <2>1, <2>3, <2>4, MadeValueChain
  <2> QED
    BY <1>9, <2>5
<1>11. CASE s \notin Enums /\ s \in Unions /\ name \in DOMAIN Members[s]
  <2> DEFINE m == Members[s][name]
  <2>1. res.link = [GlobalLink(m) EXCEPT !.tag = TRUE]
    BY <1>8, <1>11 DEF ResolveCallPath
  <2>2. TagLink(res.link) /\ res.link.type = m
    BY <2>1, TagLinkFields
  <2>3. Declared(m) /\ ~m.ref
    BY <1>11, ProgramAssumption
  <2>4. made = Symbol("func", m)
    BY <1>6, <1>11, <2>2 DEF PathMade
  <2> HIDE DEF m, made
  <2>5. \E u \in Unions : d.head = Type(u, 0)
    BY <1>3, <1>7, <1>11
  <2>6. TagChain(d)
    BY <1>7, <2>2, <2>3, <2>4, <2>5 DEF TagChain
  <2> QED
    BY <1>7, <1>9, <2>6 DEF GoodChain
<1>12. CASE s \notin Enums /\ ~(s \in Unions /\ name \in DOMAIN Members[s])
  <2>1. /\ HasMethod(t, name) /\ FuncOf(t, name).kind = "static"
        /\ res.link = FuncLink(s, name)
    BY <1>8, <1>12 DEF ResolveCallPath
  <2>2. <<s, name>> \in DOMAIN Funcs /\ Funcs[<<s, name>>].kind = "static"
    BY <1>8, <2>1 DEF HasMethod, FuncOf
  <2>3. made = Symbol("func", Type(s, 0))
    BY <1>6, <1>12, <2>1, FuncLinkFields DEF PathMade
  <2> HIDE DEF t, made
  <2>4. GoodChain(d)
    BY <1>7, <2>1, <2>2, <2>3, MadeStaticChain
  <2> QED
    BY <1>9, <2>4
<1> QED
  BY <1>10, <1>11, <1>12

-----------------------------------------------------------------------------
(***************************************************************************)
(* Calls.                                                                  *)
(***************************************************************************)
LEMMA Joined ==
  ASSUME NEW n \in Nat, NEW m \in Nat, NEW a, NEW b, a = [i \in 1..n |-> a[i]], b = [i \in 1..m |-> b[i]]
  PROVE  /\ Len(a \o b) = n + m /\ DOMAIN (a \o b) = 1..(n + m)
         /\ \A i \in 1..n : (a \o b)[i] = a[i]
         /\ \A i \in (n + 1)..(n + m) : (a \o b)[i] = b[i - n]
<1> DEFINE S == {a[i] : i \in 1..n} \cup {b[i] : i \in 1..m}
<1>1. a \in Seq(S) /\ b \in Seq(S) /\ Len(a) = n /\ Len(b) = m
  <2>1. \A i \in 1..n : a[i] \in S
    OBVIOUS
  <2>2. \A i \in 1..m : b[i] \in S
    OBVIOUS
  <2> HIDE DEF S
  <2>3. a \in [1..n -> S] /\ b \in [1..m -> S]
    BY <2>1, <2>2
  <2> QED
    BY <2>3, SeqDef
<1> HIDE DEF S
<1> QED
  BY <1>1, ConcatProperties

LEMMA FreshField ==
  ASSUME NEW t, IsType(t), t.ptr = 0, t.base \in Structs \cup Unions
  PROVE  EmitField(Fresh(t)) = {} /\ Place(Fresh(t), t)
<1> DEFINE p == PointerCopy(t)
           e == RefCopy(p)
<1>1. p \in TypeRecords /\ p.base = t.base /\ p.ptr = 1 /\ p.ref = t.ref
  BY TypeRecord, PointerRecord
<1>2. Fresh(t).type = p /\ Fresh(t).real = Star(Llvm(t))
  BY VariableFields DEF Fresh
<1> HIDE DEF p
<1>3. e.base = t.base /\ e.ptr = 0 /\ e.ref = t.ref
  BY <1>1, RefRecord
<1>4. EmitField(Fresh(t)) = Refused("get_field", Star(Llvm(t)) = Star(Llvm(e)) /\ e.ptr = 0 /\ e.base \in Structs \cup Unions)
  BY <1>2 DEF EmitField
<1> HIDE DEF e
<1>5. Llvm(e) = Llvm(t)
  BY <1>3, LlvmSame
<1>6. EmitField(Fresh(t)) = {}
  BY <1>3, <1>4, <1>5 DEF Refused
<1> QED
  BY <1>6, RegisterIsPlace DEF Fresh

LEMMA StoreField ==
  ASSUME NEW s, NEW m, NEW v, Suits(v, m), s.base \in Unions \/ ~m.arr
  PROVE  EmitStore(v.type, v, FieldAt(s, m)) = {}
<1>1. FieldAt(s, m).kind = "variable" /\ FieldAt(s, m).real = Star(Llvm(m))
  BY VariableFields DEF FieldAt, FieldLlvm
<1>2. Llvm(v.type) = Llvm(m) /\ Fits(v, Llvm(m))
  BY DEF Suits
<1> QED
  BY <1>1, <1>2 DEF EmitStore, Refused

\* A member's value given like an argument.
LEMMA MemberArgument ==
  ASSUME NEW c, TagChain(c), NEW n, NodeOK(n), Agrees(n, c.link.type), ValueGaps(n) = {},
         NEW v, v = Adjusted(n, c.link.type)
  PROVE  EmitValueOf(v) \cup EmitFieldInit(c.head, c.link.type, ValueOf(v)) = {}
<1> DEFINE t == c.link.type
<1>1. IsType(t) /\ ~IsVoid(t) /\ ~t.ref
  BY DEF TagChain, Declared
<1>2. PICK u \in Unions : c.head = Type(u, 0)
  BY DEF TagChain
<1>3. IsType(Type(u, 0)) /\ Type(u, 0).ptr = 0 /\ Type(u, 0).base = u
  <2>1. Type(u, 0).ptr = 0 /\ Type(u, 0).base = u
    BY ONLY PlainTypes
  <2> QED
    BY <2>1, SymbolTypes DEF SymbolNames
<1>4. EmitField(Fresh(c.head)) = {}
  BY <1>2, <1>3, FreshField
<1>5. Suits(ValueOf(v), t) /\ EmitValueOf(v) = {}
  BY <1>1, AdjustedSuits
<1> HIDE DEF t
<1>6. EmitStore(ValueOf(v).type, ValueOf(v), FieldAt(c.head, t)) = {}
  BY <1>2, <1>3, <1>5, StoreField
<1> QED
  BY <1>4, <1>5, <1>6 DEF EmitFieldInit, t

LEMMA FunctionFields ==
  ASSUME NEW f \in DOMAIN Funcs
  PROVE  /\ IsType(Funcs[f].ret)
         /\ Len(Funcs[f].params) \in Nat /\ DOMAIN Funcs[f].params = 1..Len(Funcs[f].params)
         /\ \A i \in 1..Len(Funcs[f].params) : Declared(Funcs[f].params[i])
         /\ Funcs[f].kind = "method" => Funcs[f].params[1] = RefType(f[1], 0)
<1> DEFINE p == Funcs[f].params
           S == {Funcs[f].params[i] : i \in DOMAIN Funcs[f].params}
<1>1. /\ IsType(Funcs[f].ret) /\ p \in Seq(S) /\ \A i \in DOMAIN p : Declared(p[i])
      /\ Funcs[f].kind = "method" => p[1] = RefType(f[1], 0)
  BY ProgramAssumption
<1> HIDE DEF p, S
<1>2. Len(p) \in Nat /\ DOMAIN p = 1..Len(p)
  BY <1>1, LenProperties
<1> QED
  BY <1>1, <1>2 DEF p

\* The object and the arguments of a call, as nodes and as values.
SelfOf(c, f) == IF f.kind = "method" THEN <<Receiver(c.vals)>> ELSE << >>
SelfArgs(c, f) == [i \in DOMAIN SelfOf(c, f) |-> DeReference(SelfOf(c, f)[i])]
ArgNode(f, args, i) == Adjusted(args[i], ParamOf(f, i))
PlainArgs(f, args, k) == [i \in 1..k |-> PlaceOf(ArgNode(f, args, i), ParamOf(f, i).ref)]

\* How many parameters the object takes.
SelfCount(f) == IF f.kind = "method" THEN 1 ELSE 0

\* The object s leaves the n values a that fit the first parameters.
SelfOK(f, s, a, n) ==
  /\ \A i \in DOMAIN s : EmitDeReference(s[i]) = {}
  /\ a = [i \in 1..n |-> a[i]]
  /\ \A i \in 1..n : Fits(a[i], Llvm(f.params[i])) /\ Llvm(a[i].type) = Llvm(f.params[i])
\* k good expressions.
ArgsOK(args, k) == Len(args) = k /\ DOMAIN args = 1..k /\ \A i \in 1..k : NodeOK(args[i])
\* The analysis accepts the arguments, and no gap applies to one.
AgreesWith(f, args, k) ==
  /\ IF f.kind = "method" THEN CheckMethodCallArgs(f, args) ELSE CheckStaticCallArgs(f, args)
  /\ \A i \in 1..k : PlaceGaps(ParamOf(f, i), args[i]) = {}
\* The k arguments fit the parameters behind the n first.
ArgumentsOK(f, args, k, n) ==
  /\ Len(f.params) = n + k
  /\ \A i \in 1..k :
       /\ EmitPlaceOf(ArgNode(f, args, i), ParamOf(f, i).ref) = {}
       /\ Suits(PlainArgs(f, args, k)[i], f.params[n + i])

\* The object of a method is the first argument.
LEMMA SelfRight ==
  ASSUME NEW c, FuncChain(c)
  PROVE  SelfOK(Funcs[c.link.func], SelfOf(c, Funcs[c.link.func]), SelfArgs(c, Funcs[c.link.func]),
                SelfCount(Funcs[c.link.func]))
<1> DEFINE f == Funcs[c.link.func]
           s == SelfOf(c, f)
           a == SelfArgs(c, f)
           n == SelfCount(f)
<1> SUFFICES /\ DOMAIN s = 1..n /\ \A i \in DOMAIN s : EmitDeReference(s[i]) = {}
             /\ a = [i \in 1..n |-> a[i]]
             /\ \A i \in 1..n : Fits(a[i], Llvm(f.params[i])) /\ Llvm(a[i].type) = Llvm(f.params[i])
  BY DEF SelfOK
<1>0. /\ f = Funcs[c.link.func] /\ s = SelfOf(c, f) /\ a = SelfArgs(c, f)
      /\ n = IF f.kind = "method" THEN 1 ELSE 0
  BY DEF SelfCount
<1> HIDE DEF f, s, a, n
<1>1. PICK o \in DOMAIN Funcs :
        /\ c.link.func = o
        /\ f.kind = "method" =>
             /\ c.vals = <<c.vals[1], Symbol("method", Type(o[1], 0))>>
             /\ c.vals[1] = Variable(c.vals[1].type, Llvm(RefType(o[1], 0)))
             /\ ~c.vals[1].type.ref /\ Llvm(c.vals[1].type) = Llvm(RefType(o[1], 0))
  BY <1>0 DEF FuncChain
<1>2. CASE f.kind # "method"
  <2>1. s = << >> /\ n = 0
    BY <1>0, <1>2 DEF SelfOf
  <2>2. DOMAIN s = 1..0 /\ a = [i \in DOMAIN s |-> DeReference(s[i])]
    BY <1>0, <2>1 DEF SelfArgs
  <2>3. DOMAIN a = 1..0 /\ a = [i \in 1..0 |-> a[i]]
    BY <2>2
  <2> QED
    BY <2>1, <2>2, <2>3
<1>3. CASE f.kind = "method"
  <2> DEFINE v == c.vals[1]
  <2>1. Len(c.vals) = 2
    <3>1. c.vals = <<v, Symbol("method", Type(o[1], 0))>>
      BY <1>1, <1>3
    <3> HIDE DEF v
    <3> QED
      BY ONLY <3>1
  <2>2. s = <<v>> /\ n = 1
    BY <1>0, <1>3, <2>1 DEF SelfOf, Receiver
  <2>3. /\ v = Variable(v.type, Llvm(RefType(o[1], 0)))
        /\ ~v.type.ref /\ Llvm(v.type) = Llvm(RefType(o[1], 0))
    BY <1>1, <1>3
  <2>4. f.params[1] = RefType(o[1], 0)
    BY <1>0, <1>1, <1>3, FunctionFields
  <2>5. a = [i \in DOMAIN s |-> DeReference(s[i])]
    BY <1>0 DEF SelfArgs
  <2> HIDE DEF v
  <2>6. DeReference(v) = v /\ EmitDeReference(v) = {}
    BY <2>3 DEF DeReference, EmitDeReference
  <2>7. DOMAIN s = 1..1 /\ s[1] = v
    BY <2>2
  <2>8. DOMAIN a = 1..1 /\ a[1] = v /\ a = [i \in 1..1 |-> a[i]]
    BY <2>5, <2>6, <2>7
  <2>9. v.kind = "variable" /\ v.real = Llvm(RefType(o[1], 0))
    BY <2>3, VariableFields
  <2>10. Fits(v, Llvm(f.params[1])) /\ Llvm(v.type) = Llvm(f.params[1])
    BY <2>3, <2>4, <2>9 DEF Fits
  <2>11. \A i \in 1..1 : i = 1
    OBVIOUS
  <2> QED
    BY <2>2, <2>6, <2>7, <2>8, <2>10, <2>11
<1> QED
  BY <1>2, <1>3

\* Every argument suits its parameter.
LEMMA ArgumentsRight ==
  ASSUME NEW o \in DOMAIN Funcs, NEW f, f = Funcs[o], NEW k \in Nat, NEW args, ArgsOK(args, k),
         AgreesWith(f, args, k)
  PROVE  ArgumentsOK(f, args, k, SelfCount(f))
<1> DEFINE n == SelfCount(f)
<1>0. /\ Len(args) = k /\ DOMAIN args = 1..k /\ \A i \in 1..k : NodeOK(args[i])
      /\ n = IF f.kind = "method" THEN 1 ELSE 0
      /\ IF f.kind = "method" THEN CheckMethodCallArgs(f, args) ELSE CheckStaticCallArgs(f, args)
      /\ \A i \in 1..k : PlaceGaps(ParamOf(f, i), args[i]) = {}
  BY DEF ArgsOK, AgreesWith, SelfCount
<1> HIDE DEF n
<1>1. /\ Len(f.params) = n + k
      /\ \A i \in 1..k : Agrees(args[i], f.params[n + i]) /\ ParamOf(f, i) = f.params[n + i]
  <2>1. CASE f.kind = "method"
    <3>1. Len(f.params) = k + 1 /\ \A i \in 1..k : Agrees(args[i], f.params[i + 1])
      BY <1>0, <2>1 DEF CheckMethodCallArgs, FitsParam
    <3>2. \A i \in 1..k : i + 1 = n + i /\ ParamOf(f, i) = f.params[i + 1]
      BY <1>0, <2>1 DEF ParamOf
    <3> QED
      BY <1>0, <2>1, <3>1, <3>2
  <2>2. CASE f.kind # "method"
    <3>1. Len(f.params) = k /\ \A i \in 1..k : Agrees(args[i], f.params[i])
      BY <1>0, <2>2 DEF CheckStaticCallArgs, FitsParam
    <3>2. \A i \in 1..k : i = n + i /\ ParamOf(f, i) = f.params[i]
      BY <1>0, <2>2 DEF ParamOf
    <3> QED
      BY <1>0, <2>2, <3>1, <3>2
  <2> QED
    BY <2>1, <2>2
<1>2. ASSUME NEW i \in 1..k
      PROVE  /\ EmitPlaceOf(ArgNode(f, args, i), ParamOf(f, i).ref) = {}
             /\ Suits(PlainArgs(f, args, k)[i], f.params[n + i])
  <2> DEFINE p == f.params[n + i]
  <2>1. Declared(p)
    <3>1. n + i \in 1..Len(f.params)
      BY <1>0, <1>1
    <3> QED
      BY <3>1, FunctionFields
  <2>2. IsType(p) /\ ~IsVoid(p) /\ Agrees(args[i], p) /\ PlaceGaps(p, args[i]) = {}
    BY <1>0, <1>1, <2>1 DEF Declared
  <2>3. ParamOf(f, i) = p
    BY <1>1
  <2> HIDE DEF p
  <2>4. /\ Suits(PlaceOf(Adjusted(args[i], p), p.ref), p)
        /\ EmitPlaceOf(Adjusted(args[i], p), p.ref) = {}
    BY <1>0, <2>2, PlaceSuits
  <2>5. PlainArgs(f, args, k)[i] = PlaceOf(Adjusted(args[i], p), p.ref)
    BY <2>3 DEF PlainArgs, ArgNode
  <2> QED
    BY <2>3, <2>4, <2>5 DEF p, ArgNode
<1> QED
  BY <1>1, <1>2 DEF ArgumentsOK, n

\* The wrong instructions of a call, and what it leaves.
FunctionBad(c, f, args, k) ==
  (UNION {EmitDeReference(SelfOf(c, f)[i]) : i \in DOMAIN SelfOf(c, f)})
  \cup (UNION {EmitPlaceOf(ArgNode(f, args, i), ParamOf(f, i).ref) : i \in 1..k})
  \cup EmitCallFunc(SelfArgs(c, f) \o PlainArgs(f, args, k), f.params)
MemberBad(c, v) == EmitValueOf(v) \cup EmitFieldInit(c.head, c.link.type, ValueOf(v))
CallBad(c, args, k) ==
  IF IsFunction(c.link) THEN FunctionBad(c, Funcs[c.link.func], args, k)
                        ELSE MemberBad(c, Adjusted(args[1], c.link.type))
CallMade(c, t) == IF c.link.tag THEN <<Fresh(t)>> ELSE <<Result(t)>>

LEMMA FunctionRight ==
  ASSUME NEW c, FuncChain(c), NEW k \in Nat, NEW args, ArgsOK(args, k),
         NEW f, f = Funcs[c.link.func], IsFunction(c.link),
         ResolveCallFuncArgs(c.link, c.head, args).ok, ArgsGaps(c.link, args) = {}
  PROVE  FunctionBad(c, f, args, k) = {}
<1> DEFINE n == SelfCount(f)
           a == SelfArgs(c, f)
           b == PlainArgs(f, args, k)
           s == SelfOf(c, f)
<1>1. PICK o \in DOMAIN Funcs : c.link.func = o
  BY DEF FuncChain
<1>2. AgreesWith(f, args, k)
  <2>1. IF f.kind = "method" THEN CheckMethodCallArgs(f, args) ELSE CheckStaticCallArgs(f, args)
    BY DEF ResolveCallFuncArgs
  <2>2. \A i \in 1..k : PlaceGaps(ParamOf(f, i), args[i]) = {}
    BY DEF ArgsGaps, ArgsOK
  <2> QED
    BY <2>1, <2>2 DEF AgreesWith
<1>3. ArgumentsOK(f, args, k, n) /\ SelfOK(f, s, a, n)
  BY <1>1, <1>2, ArgumentsRight, SelfRight
<1>n. n \in Nat
  BY DEF SelfCount
<1>6. b = [i \in 1..k |-> b[i]]
  BY DEF PlainArgs
<1>4. /\ Len(f.params) = n + k
      /\ \A i \in 1..k : /\ EmitPlaceOf(ArgNode(f, args, i), ParamOf(f, i).ref) = {}
                         /\ Suits(b[i], f.params[n + i])
  BY <1>3 DEF ArgumentsOK
<1> HIDE DEF n, a, b, s
<1>5. /\ \A i \in DOMAIN s : EmitDeReference(s[i]) = {}
      /\ a = [i \in 1..n |-> a[i]]
      /\ \A i \in 1..n : Fits(a[i], Llvm(f.params[i])) /\ Llvm(a[i].type) = Llvm(f.params[i])
  BY <1>3 DEF SelfOK
<1>7. /\ Len(a \o b) = n + k /\ DOMAIN (a \o b) = 1..(n + k)
      /\ \A i \in 1..n : (a \o b)[i] = a[i]
      /\ \A i \in (n + 1)..(n + k) : (a \o b)[i] = b[i - n]
  BY ONLY <1>n, k \in Nat, <1>5, <1>6, Joined
<1>8. ASSUME NEW i \in 1..(n + k)
      PROVE  Fits((a \o b)[i], Llvm((a \o b)[i].type)) /\ Llvm((a \o b)[i].type) = Llvm(f.params[i])
  <2>1. CASE i \in 1..n
    BY <2>1, <1>5, <1>7
  <2>2. CASE i \notin 1..n
    <3>1. i \in (n + 1)..(n + k) /\ i - n \in 1..k /\ n + (i - n) = i
      BY <2>2, <1>n
    <3>2. Suits(b[i - n], f.params[i])
      BY <3>1, <1>4
    <3> QED
      BY <3>1, <3>2, <1>7 DEF Suits
  <2> QED
    BY <2>1, <2>2
<1>9. EmitCallFunc(a \o b, f.params) = {}
  <2> DEFINE w == a \o b
  <2>1. Len(w) = Len(f.params) /\ DOMAIN w = 1..(n + k)
    BY <1>4, <1>7
  <2>2. \A i \in 1..(n + k) : Fits(w[i], Llvm(w[i].type)) /\ Llvm(w[i].type) = Llvm(f.params[i])
    BY <1>8
  <2> HIDE DEF w
  <2>3. EmitCallFunc(w, f.params) = {}
    BY <2>1, <2>2 DEF EmitCallFunc, Refused
  <2> QED
    BY <2>3 DEF w
<1>10. UNION {EmitDeReference(s[i]) : i \in DOMAIN s} = {}
  BY <1>5
<1>11. UNION {EmitPlaceOf(ArgNode(f, args, i), ParamOf(f, i).ref) : i \in 1..k} = {}
  BY <1>4
<1> QED
  BY <1>9, <1>10, <1>11, <1>3 DEF FunctionBad, s, a, b

LEMMA ResultHeld ==
  ASSUME NEW t, IsType(t)
  PROVE  /\ Held(Result(t), t)
         /\ t.ref => Place(Result(t), t)
<1>1. CASE IsVoid(t)
  <2>1. Result(t) = Symbol("none", t) /\ ~t.ref
    BY <1>1 DEF Result, IsVoid, IsType
  <2> QED
    BY <1>1, <2>1 DEF Held
<1>2. CASE ~IsVoid(t)
  <2>1. Result(t) = Variable(PointerCopy(t), Star(Llvm(t)))
    BY <1>2 DEF Result, IsVoid
  <2>2. Place(Result(t), t)
    BY <2>1, RegisterIsPlace
  <2> QED
    BY <1>2, <2>2 DEF Held
<1> QED
  BY <1>1, <1>2

\* A call passes what its function takes, and leaves its result.
LEMMA CallArgsRight ==
  ASSUME NEW c, GoodChain(c), c # NoChain, NEW k \in Nat, NEW args, ArgsOK(args, k),
         NEW res, res = ResolveCallFuncArgs(c.link, c.head, args),
         res.ok, ArgsGaps(c.link, args) = {},
         NEW d, d = Called(c, res.link, "args", c.link.tag, CallMade(c, res.link.type))
  PROVE  CallBad(c, args, k) = {} /\ GoodChain(d)
<1>0. IsChain(c)
  BY ChainCases
<1>1. CASE IsFunction(c.link)
  <2>1. FuncChain(c)
    BY <1>1, ChainCases
  <2>2. CallBad(c, args, k) = {}
    BY <1>1, <2>1, FunctionRight DEF CallBad
  <2>3. PICK f \in DOMAIN Funcs : c.link.func = f /\ c.link.tag = FALSE
    <3>1. PICK f \in DOMAIN Funcs : c.link.func = f /\ ~c.link.tag
      BY <2>1 DEF FuncChain
    <3> QED
      BY <3>1
  <2> DEFINE t == Funcs[f].ret
  <2>4. res.link = Link(t) /\ IsType(t)
    BY <1>1, <2>3, FunctionFields DEF ResolveCallFuncArgs
  <2>5. res.link.type = t
    BY <2>4, LinkFields
  <2>6. CallMade(c, res.link.type) = <<Result(t)>>
    BY <2>3, <2>5 DEF CallMade
  <2> HIDE DEF t
  <2>7. /\ IsChain(d) /\ d.link = Link(t) /\ d.vals = <<Result(t)>> /\ d.last = "args"
    BY <1>0, <2>3, <2>4, <2>6, CalledFields
  <2>8. IsPlace(d) => t.ref
    BY <2>7, LinkFields DEF IsPlace
  <2>9. GoodChain(d)
    BY <2>4, <2>7, <2>8, ResultHeld, MadeValueChain
  <2> QED
    BY <2>2, <2>9
<1>2. CASE ~IsFunction(c.link)
  <2>1. c.link.tag /\ Len(args) = 1 /\ Agrees(args[1], c.link.type) /\ res.link = Link(c.head)
    <3>1. res = [ok |-> c.link.tag /\ Len(args) = 1 /\ \A i \in DOMAIN args : Agrees(args[i], c.link.type),
                 link |-> Link(c.head)]
      BY <1>2 DEF ResolveCallFuncArgs
    <3>2. res.link = Link(c.head)
      BY <3>1
    <3>3. c.link.tag /\ Len(args) = 1 /\ \A i \in DOMAIN args : Agrees(args[i], c.link.type)
      BY <1>2 DEF ResolveCallFuncArgs
    <3>4. Agrees(args[1], c.link.type)
      BY <3>3 DEF ArgsOK
    <3> QED
      BY <3>2, <3>3, <3>4
  <2>2. TagChain(c)
    BY <1>2, <2>1, ChainCases DEF ValueChain, ValueLink, SymbolChain, SymbolLink
  <2>3. NodeOK(args[1]) /\ ValueGaps(args[1]) = {}
    BY <1>2, <2>1 DEF ArgsGaps, ArgsOK
  <2>4. CallBad(c, args, k) = {}
    BY <1>2, <2>1, <2>2, <2>3, MemberArgument DEF CallBad, MemberBad
  <2>5. PICK u \in Unions : c.head = Type(u, 0)
    BY <2>2 DEF TagChain
  <2> DEFINE t == Type(u, 0)
  <2>6. IsType(t) /\ ~IsVoid(t) /\ t.ptr = 0 /\ t.base = u
    <3>1. t.ptr = 0 /\ t.base = u
      BY ONLY PlainTypes
    <3> QED
      BY <3>1, SymbolTypes DEF SymbolNames
  <2> HIDE DEF t
  <2>7. res.link = Link(t) /\ res.link.type = t
    BY <2>1, <2>5, LinkFields DEF t
  <2>8. CallMade(c, res.link.type) = <<Fresh(t)>>
    BY <2>1, <2>7 DEF CallMade
  <2>9. Place(Fresh(t), t) /\ Held(Fresh(t), t)
    BY <2>6, FreshField DEF Held
  <2>10. c.link.tag = TRUE
    BY <2>2 DEF TagChain, TagLink
  <2>11. IsChain(d) /\ d.link = Link(t) /\ d.vals = <<Fresh(t)>>
    BY <1>0, <2>7, <2>8, <2>10, CalledFields
  <2>12. GoodChain(d)
    BY <2>6, <2>9, <2>11, MadeValueChain
  <2> QED
    BY <2>4, <2>12
<1> QED
  BY <1>1, <1>2

-----------------------------------------------------------------------------
(***************************************************************************)
(* Elements.                                                               *)
(***************************************************************************)
\* The element of what a place of the pointer or array type t holds.
LEMMA IndexRight ==
  ASSUME NEW t, IsType(t), ~t.ref, IsPointer(t), ~IsVoid(RefCopy(t)), NEW p, Place(p, t), ReadAsArray(p) = {},
         NEW x, Fits(x, Llvm(x.type)), IsLlvmInt(Llvm(x.type)), NEW u, u = NoArray(RefCopy(t))
  PROVE  /\ EmitIndex(p, x) = {} /\ EmitClaim(IndexedAt(u, p)) = {}
         /\ IsType(u) /\ ~IsVoid(u) /\ Place(IndexedAt(u, p), u)
<1> DEFINE es == RefCopy(p.type)
           e == RefCopy(es)
           r == RefCopy(t)
<1>1. /\ t \in TypeRecords /\ t.ptr \in Nat /\ t.ptr > 0 /\ t.base \in Bases /\ t.ref = FALSE
  BY TypeRecord, TypeFields DEF IsPointer
<1>2. /\ p.type \in TypeRecords /\ p.type.base = t.base /\ p.type.ptr = t.ptr + 1 /\ p.type.ref = FALSE
      /\ p.kind = "variable" /\ (p.real = Star(Llvm(t)) \/ (p.type.arr /\ p.real = Star(LlvmArray(t))))
  <2>1. /\ p.type \in TypeRecords /\ p.type.base = t.base /\ p.type.ptr = t.ptr + 1 /\ p.type.ref = t.ref
        /\ p.kind = "variable"
    BY PlaceFields
  <2>2. p.real = Star(Llvm(t)) \/ (p.type.arr /\ p.real = Star(LlvmArray(t)))
    BY DEF Place
  <2> QED
    BY <1>1, <2>1, <2>2
<1>3. es \in TypeRecords /\ es.base = t.base /\ es.ptr = t.ptr /\ es.ref = FALSE
  BY <1>1, <1>2, RefRecord
<1>r. r \in TypeRecords /\ r.base = t.base /\ r.ptr = t.ptr - 1 /\ r.ref = FALSE
  BY <1>1, RefRecord
<1> HIDE DEF es
<1>4. e \in TypeRecords /\ e.base = t.base /\ e.ptr = t.ptr - 1 /\ e.ref = FALSE
  BY <1>3, RefRecord
<1> HIDE DEF e
<1>5. u \in TypeRecords /\ u.base = t.base /\ u.ptr = t.ptr - 1 /\ u.ref = FALSE /\ u.arr = FALSE
  BY <1>r, NoArrayRecord
<1>6. ~IsVoid(r)
  OBVIOUS
<1> HIDE DEF r
<1>7. ~IsVoid(e) /\ ~IsVoid(u)
  BY <1>6, <1>r, <1>4, <1>5 DEF IsVoid, Same
<1>8. IsType(u)
  <2>1. u.ptr \in Nat /\ u.base \in SymbolNames \cup {"void"}
    BY <1>1, <1>5 DEF Bases
  <2>2. u \in [base : SymbolNames \cup {"void"}, ptr : Nat, ref : BOOLEAN, arr : BOOLEAN, const : BOOLEAN]
    BY <1>5, <2>1 DEF TypeRecords
  <2> QED
    BY <1>5, <1>7, <2>2 DEF IsType
<1>9. Llvm(es) = Llvm(t) /\ Llvm(e) = Llvm(u)
  BY <1>1, <1>3, <1>4, <1>5, LlvmSame
<1>10. Llvm(es) = Star(Llvm(e))
  <2>1. es.base = e.base /\ es.ptr = e.ptr + 1 /\ es.ref = e.ref /\ e.ptr \in Int
    <3>1. e.ptr + 1 = t.ptr /\ e.ptr \in Int
      BY ONLY <1>1, <1>4
    <3> QED
      BY ONLY <1>3, <1>4, <3>1
  <2> QED
    BY <2>1, LlvmStar
<1>13. EmitIndex(p, x) = {} /\ IndexedAt(u, p) = Variable(PointerCopy(u), Star(Llvm(u)))
  <2>1. CASE p.type.arr
    <3>1. p.real.in = "array"
      BY <2>1 DEF ReadAsArray, Gap, InPlace
    <3>2. p.real = Star(LlvmArray(t))
      BY <1>2, <3>1, InValue
    <3>3. LlvmArray(es) = LlvmArray(t)
      BY <1>1, <1>3, LlvmArraySame
    <3>4. EmitIndex(p, x) = {}
      BY <1>7, <1>10, <2>1, <3>2, <3>3 DEF EmitIndex, Refused, es, e
    <3>5. IndexedAt(u, p) = Variable(PointerCopy(u), Star(Llvm(u)))
      BY <1>9, <2>1 DEF IndexedAt, es, e
    <3> QED
      BY <3>4, <3>5
  <2>2. CASE ~p.type.arr
    <3>1. EmitLoad(es, p) = {}
      BY <1>2, <1>9, <2>2 DEF EmitLoad, Refused
    <3>2. EmitIndex(p, x) = {}
      BY <1>7, <1>10, <2>2, <3>1 DEF EmitIndex, Refused, es, e
    <3>3. IndexedAt(u, p) = Variable(PointerCopy(u), Star(Llvm(u)))
      BY <1>9, <1>10, <2>2 DEF IndexedAt, es
    <3> QED
      BY <3>2, <3>3
  <2> QED
    BY <2>1, <2>2
<1>14. EmitClaim(IndexedAt(u, p)) = {}
  <2>1. Llvm(PointerCopy(u)) = Star(Llvm(u))
    <3>1. PointerCopy(u).base = u.base /\ PointerCopy(u).ptr = u.ptr + 1 /\ PointerCopy(u).ref = u.ref
      BY <1>5, PointerRecord
    <3>2. u.ptr \in Int
      BY <1>1, <1>5
    <3> QED
      BY <3>1, <3>2, LlvmStar
  <2> QED
    BY <1>13, <2>1, VariableFields DEF EmitClaim, Refused
<1>15. Place(IndexedAt(u, p), u)
  BY <1>8, <1>13, RegisterIsPlace
<1> QED
  BY <1>7, <1>8, <1>13, <1>14, <1>15

LEMMA IndexValue ==
  ASSUME NEW n, NodeOK(n), IsInteger(n.type), ~IsPointer(n.type)
  PROVE  /\ EmitValueOf(n) = {} /\ Fits(ValueOf(n), Llvm(ValueOf(n).type))
         /\ IsLlvmInt(Llvm(ValueOf(n).type))
<1> DEFINE t == NoRef(n.type)
<1>1. n.kind # "assign" /\ ~IsVoid(n.type) /\ ValueGaps(n) = {}
  BY RestrictIs, VoidIs, NoArrayGap
<1>2. Stands(ValueOf(n), t) /\ EmitValueOf(n) = {}
  BY <1>1, ValueStands
<1>3. IsType(t) /\ ~t.ref /\ Same(t, n.type)
  BY <1>1, NodeType, NoRefType
<1> HIDE DEF t
<1>4. IsInteger(t) /\ ~IsPointer(t)
  BY <1>3, SamePredicates
<1>5. IsLlvmInt(Llvm(t))
  BY <1>3, <1>4, IntegerLlvm
<1> QED
  BY <1>2, <1>3, <1>5, StandsLlvm

\* An element is taken from an array or pointer, and leaves a place.
LEMMA CallIndexRight ==
  ASSUME NEW c, GoodChain(c), c # NoChain, NEW n, NodeOK(n),
         NEW res, res = ResolveCallIndex(c.link, n), res.ok,
         NEW p, p = DeReference(Top(c.vals)), IndexGaps(c.link, p) = {},
         NEW d, d = Extended(c, res.link, <<IndexedAt(res.link.type, p)>>, "index")
  PROVE  /\ EmitDeReference(Top(c.vals)) \cup EmitValueOf(n) \cup EmitIndex(p, ValueOf(n))
            \cup EmitClaim(IndexedAt(res.link.type, p)) = {}
         /\ GoodChain(d)
<1> DEFINE t == c.link.type
           u == NoArray(RefCopy(t))
<1>1. ~c.link.global /\ IsPointer(t) /\ IsInteger(n.type) /\ ~IsPointer(n.type) /\ res.link = Link(u)
  BY DEF ResolveCallIndex
<1>2. ValueChain(c) /\ IsChain(c)
  BY <1>1, ChainCases
<1>3. IsType(t) /\ EmitDeReference(Top(c.vals)) = {} /\ Held(p, NoRef(t))
  BY <1>2, ValueChainFields
<1>4. ~t.ref /\ ~IsVoid(RefCopy(t)) /\ ReadAsArray(p) = {}
  BY DEF IndexGaps, Gap
<1>5. NoRef(t) = t
  BY <1>3, <1>4, NoRefType
<1>u. res.link.type = u /\ u = NoArray(RefCopy(t))
  BY <1>1, LinkFields
<1> HIDE DEF t, u
<1>6. Place(p, t)
  <2>1. t.ptr # 0
    BY <1>1 DEF IsPointer
  <2> QED
    BY <1>3, <1>5, <2>1 DEF Held, IsVoid, Same, Void, Type
<1>7. /\ EmitValueOf(n) = {} /\ Fits(ValueOf(n), Llvm(ValueOf(n).type))
      /\ IsLlvmInt(Llvm(ValueOf(n).type))
  BY <1>1, IndexValue
<1>8. /\ EmitIndex(p, ValueOf(n)) = {} /\ EmitClaim(IndexedAt(u, p)) = {}
      /\ IsType(u) /\ ~IsVoid(u) /\ Place(IndexedAt(u, p), u)
  BY <1>1, <1>3, <1>4, <1>6, <1>7, <1>u, IndexRight
<1>9. Held(IndexedAt(u, p), u)
  BY <1>8 DEF Held
<1>10. IsChain(d) /\ d.link = Link(u) /\ d.vals = <<IndexedAt(u, p)>>
  BY <1>1, <1>2, <1>u, ExtendedFields
<1>11. GoodChain(d)
  BY <1>8, <1>9, <1>10, MadeValueChain
<1> QED
  BY <1>3, <1>7, <1>8, <1>11, <1>u

-----------------------------------------------------------------------------
(***************************************************************************)
(* Initializers.                                                           *)
(***************************************************************************)
\* One field of an initializer: its node, whether its address is stored, its wrong
\* instructions and the gaps that apply to it.
InitNode(t, n, field) == IF t.base \in Structs THEN FieldNode(n, field) ELSE Adjusted(n, field)
InitPlace(t, node) == t.base \in Structs /\ node.own.ref
FieldBad(t, field, node) ==
  EmitPlaceOf(node, InitPlace(t, node)) \cup EmitFieldInit(t, field, PlaceOf(node, InitPlace(t, node)))
FieldGaps(t, field, n) ==
  PlaceGaps(field, n)
  \cup Gap("array field", t.base \in Structs /\ field.arr)
  \cup Gap("reference into a field",
           t.base \in Structs /\ ~field.ref /\ HasAddress(n) /\ n.type.ref)

LEMMA FieldStored ==
  ASSUME NEW t, IsType(t), t.ptr = 0, t.base \in Structs \cup Unions, NEW f, NEW v, Suits(v, f),
         t.base \in Structs => ~f.arr
  PROVE  EmitFieldInit(t, f, v) = {}
<1>1. EmitField(Fresh(t)) = {}
  BY FreshField
<1>2. t.base \in Unions \/ ~f.arr
  OBVIOUS
<1>3. EmitStore(v.type, v, FieldAt(t, f)) = {}
  BY <1>2, StoreField
<1> QED
  BY <1>1, <1>3 DEF EmitFieldInit

\* A value that has no address is the same where an address is wanted.
LEMMA NoAddressSame ==
  ASSUME NEW n, NodeOK(n), ~HasAddress(n), n.type.ref
  PROVE  PlaceOf(n, TRUE) = ValueOf(n) /\ EmitPlaceOf(n, TRUE) = EmitValueOf(n)
<1>1. CASE n.kind # "call"
  BY <1>1 DEF PlaceOf, EmitPlaceOf
<1>2. CASE n.kind = "call"
  <2> DEFINE v == n.vals[1]
             t == NoRef(n.type)
  <2>1. CallNode(n)
    BY <1>2, NodeKinds
  <2>2. IsType(n.type) /\ Held(v, t) /\ n.text = NoText
    BY <2>1 DEF CallNode
  <2>3. ~n.type.arr
    BY <2>2 DEF IsType
  <2>4. IsType(t) /\ ~t.arr
    BY <2>2, <2>3, NoRefType
  <2> HIDE DEF v, t
  <2>5. ~InPlace(v) \/ ~IsPointer(v.type)
    <3>1. CASE Place(v, t)
      <4>1. v.real = Star(Llvm(t))
        BY <2>4, <3>1 DEF Place
      <4> QED
        BY <4>1, InValue DEF InPlace
    <3>2. CASE v = Flag(t) /\ t.ptr = 0
      BY <3>2, ValueFields DEF Flag, IsPointer
    <3>3. CASE v = Symbol("none", t) /\ IsVoid(t)
      BY <3>3, SymbolFields, VoidIs
    <3> QED
      BY <2>2, <3>1, <3>2, <3>3 DEF Held
  <2>6. ~IsPointer(v.type)
    BY <1>2, <2>5 DEF HasAddress, v
  <2>7. CallValue(v, TRUE) = v /\ CallValue(v, FALSE) = v /\ EmitCallValue(v, FALSE) = {}
    BY <2>6 DEF CallValue, EmitCallValue
  <2>8. PlaceOf(n, TRUE) = CallValue(v, TRUE) /\ EmitPlaceOf(n, TRUE) = {}
    BY <1>2 DEF PlaceOf, EmitPlaceOf, v
  <2>9. ValueOf(n) = CallValue(v, FALSE) /\ EmitValueOf(n) = EmitCallValue(v, FALSE)
    BY <1>2, <2>2 DEF ValueOf, EmitValueOf, v
  <2> QED
    BY <2>7, <2>8, <2>9
<1> QED
  BY <1>1, <1>2

LEMMA FieldNodeSuits ==
  ASSUME NEW n, NodeOK(n), NEW f, IsType(f), ~IsVoid(f), Agrees(n, f), NEW t, t.base \in Structs,
         FieldGaps(t, f, n) = {}, NEW m, m = FieldNode(n, f)
  PROVE  /\ EmitPlaceOf(m, InitPlace(t, m)) = {}
         /\ Suits(PlaceOf(m, InitPlace(t, m)), f)
<1>0. /\ PlaceGaps(f, n) = {}
      /\ ~(~f.ref /\ HasAddress(n) /\ n.type.ref)
  BY DEF FieldGaps, Gap
<1>1. CASE f.ref
  <2>1. HasAddress(n)
    BY <1>0, <1>1 DEF PlaceGaps, Gap
  <2>2. n.kind = "call" /\ Same(n.type, f)
    BY <2>1, ConvertibleNodes DEF HasAddress, Agrees
  <2>3. m = [n EXCEPT !.own = [n.type EXCEPT !.ref = TRUE]]
    BY <1>1, <2>2 DEF FieldNode, Adjusted
  <2>4. m.kind = n.kind /\ m.vals = n.vals /\ m.own.ref = TRUE
    <3>1. IsNode(n) /\ IsType(n.type)
      BY <2>2, NodeType DEF NodeOK
    <3>2. n.type \in TypeRecords
      BY <3>1, TypeRecord
    <3> DEFINE u == [n.type EXCEPT !.ref = TRUE]
    <3>3. u.ref = TRUE
      BY <3>2 DEF TypeRecords
    <3>4. m = [n EXCEPT !.own = u]
      BY <2>3
    <3> HIDE DEF u
    <3> QED
      BY <3>1, <3>3, <3>4 DEF IsNode
  <2>5. PlaceOf(m, TRUE) = PlaceOf(n, TRUE) /\ EmitPlaceOf(m, TRUE) = EmitPlaceOf(n, TRUE)
    BY <2>2, <2>4 DEF PlaceOf, EmitPlaceOf
  <2>6. InitPlace(t, m) = TRUE
    BY <2>4 DEF InitPlace
  <2> QED
    BY <1>1, <2>1, <2>2, <2>5, <2>6, AddressSuits
<1>2. CASE ~f.ref
  <2>1. m = Adjusted(n, f)
    BY <1>2 DEF FieldNode
  <2>2. ValueGaps(n) = {}
    BY <1>0, <1>2 DEF PlaceGaps
  <2>3. Suits(ValueOf(m), f) /\ EmitValueOf(m) = {}
    BY <1>2, <2>1, <2>2, AdjustedSuits
  <2>4. PlaceOf(m, FALSE) = ValueOf(m) /\ EmitPlaceOf(m, FALSE) = EmitValueOf(m)
    BY DEF PlaceOf, EmitPlaceOf
  <2>5. CASE m.own.ref
    <3>1. Same(n.type, f) /\ m = n
      <4>1. CASE ~Same(n.type, f)
        <5>1. m.own = f
          BY <2>1, <4>1, ConvertedFields DEF Adjusted
        <5> QED
          BY <1>2, <2>5, <5>1
      <4>2. CASE Same(n.type, f)
        BY <2>1, <4>2 DEF Adjusted
      <4> QED
        BY <4>1, <4>2
    <3>2. n.type.ref /\ ~HasAddress(n)
      BY <1>0, <1>2, <2>5, <3>1, NodeFields
    <3>3. PlaceOf(m, TRUE) = ValueOf(m) /\ EmitPlaceOf(m, TRUE) = EmitValueOf(m)
      BY <3>1, <3>2, NoAddressSame
    <3>4. InitPlace(t, m) = TRUE
      BY <2>5 DEF InitPlace
    <3> QED
      BY <2>3, <3>3, <3>4
  <2>6. CASE ~m.own.ref
    <3>1. InitPlace(t, m) = FALSE
      BY <2>6 DEF InitPlace
    <3> QED
      BY <2>3, <2>4, <3>1
  <2> QED
    BY <2>5, <2>6
<1> QED
  BY <1>1, <1>2

\* The wrong instructions of an initializer.
InitBad(c, names, values, k) ==
  LET t == c.link.type
      field(i) == FieldsOf(t)[names[i]]
      node(i) == IF t.base \in Structs THEN FieldNode(values[i], field(i)) ELSE Adjusted(values[i], field(i))
      asPlace(i) == t.base \in Structs /\ node(i).own.ref
  IN  (UNION {EmitPlaceOf(node(i), asPlace(i))
              \cup EmitFieldInit(t, field(i), PlaceOf(node(i), asPlace(i))) : i \in 1..k})
      \cup (IF c.link.tag THEN Desugared(c.head, t) ELSE {})

LEMMA FieldRight ==
  ASSUME NEW t, IsType(t), ~t.ref, t.ptr = 0, t.base \in Structs \cup Unions, NEW f, Declared(f),
         t.base \in Unions => ~f.ref, NEW n, NodeOK(n), Agrees(n, f), FieldGaps(t, f, n) = {}
  PROVE  FieldBad(t, f, InitNode(t, n, f)) = {}
<1> DEFINE m == InitNode(t, n, f)
<1>1. IsType(f) /\ ~IsVoid(f)
  BY DEF Declared
<1>2. t.base \in Structs => ~f.arr
  BY DEF FieldGaps, Gap
<1>3. /\ EmitPlaceOf(m, InitPlace(t, m)) = {}
      /\ Suits(PlaceOf(m, InitPlace(t, m)), f)
  <2>1. CASE t.base \in Structs
    <3>1. m = FieldNode(n, f)
      BY <2>1 DEF InitNode
    <3> HIDE DEF m
    <3> QED
      BY <1>1, <2>1, <3>1, FieldNodeSuits
  <2>2. CASE t.base \notin Structs
    <3>1. m = Adjusted(n, f) /\ InitPlace(t, m) = FALSE
      BY <2>2 DEF InitNode, InitPlace
    <3>2. ~f.ref
      BY <2>2
    <3>3. ValueGaps(n) = {}
      BY <3>2 DEF FieldGaps, PlaceGaps
    <3> HIDE DEF m
    <3>4. Suits(ValueOf(m), f) /\ EmitValueOf(m) = {}
      BY <1>1, <3>1, <3>2, <3>3, AdjustedSuits
    <3>5. PlaceOf(m, FALSE) = ValueOf(m) /\ EmitPlaceOf(m, FALSE) = EmitValueOf(m)
      BY DEF PlaceOf, EmitPlaceOf
    <3> QED
      BY <3>1, <3>4, <3>5
  <2> QED
    BY <2>1, <2>2
<1> HIDE DEF m
<1>4. EmitFieldInit(t, f, PlaceOf(m, InitPlace(t, m))) = {}
  BY <1>2, <1>3, FieldStored
<1> QED
  BY <1>3, <1>4 DEF FieldBad, m

LEMMA DesugaredRight ==
  ASSUME NEW t, Declared(t), ~t.ref, ~t.arr, NEW u \in Unions
  PROVE  Desugared(Type(u, 0), t) = {}
<1> DEFINE v == CallValue(Fresh(t), FALSE)
           h == Type(u, 0)
<1>1. IsType(t) /\ ~IsVoid(t)
  BY DEF Declared
<1>2. Place(Fresh(t), t)
  BY <1>1, RegisterIsPlace DEF Fresh
<1>3. Fresh(t).type = PointerCopy(t)
  BY VariableFields DEF Fresh
<1>4. ReadAsArray(Fresh(t)) = {}
  <2>1. PointerCopy(t).arr = t.arr
    BY <1>1, TypeRecord, PointerRecord
  <2> QED
    BY <1>3, <2>1 DEF ReadAsArray, Gap
<1>5. Stands(v, t) /\ EmitCallValue(Fresh(t), FALSE) = {}
  BY <1>1, <1>2, <1>4, CallPlaceStands
<1>6. Suits(v, t)
  BY <1>1, <1>5, StandsLlvm DEF Suits, Stands
<1>7. h.ptr = 0 /\ h.base = u
  BY ONLY PlainTypes
<1>8. IsType(h)
  BY SymbolTypes DEF SymbolNames
<1> HIDE DEF v, h
<1>9. u \notin Structs
  BY NamesApart
<1>10. EmitFieldInit(h, t, v) = {}
  BY <1>6, <1>7, <1>8, <1>9, FieldStored
<1> QED
  BY <1>5, <1>10 DEF Desugared, v, h

LEMMA InitializerLink ==
  ASSUME NEW c, GoodChain(c), c # NoChain, NEW names, NEW values,
         ResolveInitializer(c.link, c.head, names, values).ok
  PROVE  /\ IsType(c.link.type) /\ ~IsVoid(c.link.type) /\ ~c.link.type.ref
         /\ c.link.type.base \in Structs \cup Unions
         /\ InitsFields(c.link.type, names, values) \/ InitsMember(c.link.type, names, values)
         /\ c.link.tag => \E u \in Unions : c.head = Type(u, 0)
         /\ ~c.link.tag => c.link.type.ptr = 0
<1>1. /\ c.link.global /\ ~IsFunction(c.link)
      /\ InitsFields(c.link.type, names, values) \/ InitsMember(c.link.type, names, values)
  BY DEF ResolveInitializer
<1>2. SymbolChain(c) \/ TagChain(c)
  BY <1>1, ChainCases DEF ValueChain, ValueLink
<1>3. c.link.type.base \in Structs \cup Unions
  BY <1>1 DEF InitsFields, InitsMember
<1>4. CASE SymbolChain(c)
  <2>1. PICK s \in SymbolNames : c.link.type = Type(s, 0) /\ ~c.link.tag
    BY <1>4 DEF SymbolChain, SymbolLink
  <2>2. IsType(Type(s, 0)) /\ ~IsVoid(Type(s, 0)) /\ ~Type(s, 0).ref
    BY SymbolTypes
  <2>3. Type(s, 0).ptr = 0
    BY ONLY PlainTypes
  <2> QED
    BY <1>1, <1>3, <2>1, <2>2, <2>3
<1>5. CASE TagChain(c)
  <2>1. /\ Declared(c.link.type) /\ ~c.link.type.ref /\ c.link.tag
        /\ \E u \in Unions : c.head = Type(u, 0)
    BY <1>5 DEF TagChain, TagLink
  <2> QED
    BY <1>1, <1>3, <2>1 DEF Declared
<1> QED
  BY <1>2, <1>4, <1>5

\* The values fit the fields they are given for.
LEMMA InitialAgrees ==
  ASSUME NEW t, NEW names, NEW values, NEW k \in Nat, Len(names) = k, DOMAIN names = 1..k,
         InitsFields(t, names, values) \/ InitsMember(t, names, values)
  PROVE  \A i \in 1..k : /\ Declared(FieldsOf(t)[names[i]])
                         /\ t.base \in Unions => ~FieldsOf(t)[names[i]].ref
                         /\ Agrees(values[i], FieldsOf(t)[names[i]])
<1>1. ASSUME NEW i \in 1..k
      PROVE  names[i] \in DOMAIN FieldsOf(t) /\ Agrees(values[i], FieldsOf(t)[names[i]])
  <2>1. CASE InitsFields(t, names, values)
    BY <2>1 DEF InitsFields, FieldsOf
  <2>2. CASE InitsMember(t, names, values)
    <3>1. t.base \in Unions /\ t.base \notin Structs /\ k = 1
      BY <2>2, NamesApart DEF InitsMember
    <3>2. i = 1 /\ FieldsOf(t) = Members[t.base]
      BY <3>1 DEF FieldsOf
    <3> QED
      BY <2>2, <3>2 DEF InitsMember
  <2> QED
    BY <2>1, <2>2
<1> QED
  BY <1>1, FieldDeclared

\* No gap applies to an initializer.
NoInitGaps(t, names, values) ==
  /\ ~(IsPointer(t) /\ (names # << >> \/ t.arr))
  /\ \A i \in DOMAIN names : FieldGaps(t, FieldsOf(t)[names[i]], values[i]) = {}

LEMMA InitGapsParts ==
  ASSUME NEW t, NEW names, NEW values, InitGaps(t, names, values) = {}
  PROVE  NoInitGaps(t, names, values)
<1>1. ~(IsPointer(t) /\ (names # << >> \/ t.arr))
  BY DEF InitGaps, Gap
<1>2. \A i \in DOMAIN names : FieldGaps(t, FieldsOf(t)[names[i]], values[i]) = {}
  BY DEF InitGaps, FieldGaps
<1> QED
  BY <1>1, <1>2 DEF NoInitGaps

LEMMA InitBadParts ==
  ASSUME NEW c, NEW names, NEW values, NEW k \in Nat, NEW t, t = c.link.type,
         \A i \in 1..k : FieldBad(t, FieldsOf(t)[names[i]],
                                  InitNode(t, values[i], FieldsOf(t)[names[i]])) = {},
         c.link.tag => Desugared(c.head, t) = {}
  PROVE  InitBad(c, names, values, k) = {}
  BY DEF InitBad, FieldBad, InitNode, InitPlace

\* An initializer stores what the fields take, and leaves the object.
LEMMA InitializerRight ==
  ASSUME NEW c, GoodChain(c), c # NoChain, NEW k \in Nat, NEW names, Len(names) = k, DOMAIN names = 1..k,
         k = 0 <=> names = << >>,
         NEW values, ArgsOK(values, k),
         NEW res, res = ResolveInitializer(c.link, c.head, names, values), res.ok,
         InitGaps(c.link.type, names, values) = {},
         NEW d, d = Initialized(c, res.link, <<Fresh(res.link.type)>>, "init")
  PROVE  InitBad(c, names, values, k) = {} /\ GoodChain(d)
<1> DEFINE t == c.link.type
<1>1. /\ IsType(t) /\ ~IsVoid(t) /\ ~t.ref /\ t.base \in Structs \cup Unions
      /\ InitsFields(t, names, values) \/ InitsMember(t, names, values)
      /\ c.link.tag => \E u \in Unions : c.head = Type(u, 0)
      /\ ~c.link.tag => t.ptr = 0
  BY InitializerLink
<1>2. /\ ~(IsPointer(t) /\ (names # << >> \/ t.arr))
      /\ \A i \in 1..k : FieldGaps(t, FieldsOf(t)[names[i]], values[i]) = {}
  <2>1. NoInitGaps(t, names, values)
    BY InitGapsParts
  <2> QED
    BY <2>1 DEF NoInitGaps
<1>3. res.link = Link(IF c.link.tag THEN c.head ELSE t)
  BY DEF ResolveInitializer
<1>n. t = c.link.type
  OBVIOUS
<1> HIDE DEF t
<1>4. \A i \in 1..k : /\ Declared(FieldsOf(t)[names[i]])
                      /\ t.base \in Unions => ~FieldsOf(t)[names[i]].ref
                      /\ Agrees(values[i], FieldsOf(t)[names[i]])
  BY <1>1, InitialAgrees
<1>5. ASSUME NEW i \in 1..k
      PROVE  FieldBad(t, FieldsOf(t)[names[i]], InitNode(t, values[i], FieldsOf(t)[names[i]])) = {}
  <2>1. t.ptr = 0
    BY <1>1, <1>2, TypeFields DEF IsPointer
  <2>2. NodeOK(values[i])
    BY DEF ArgsOK
  <2> DEFINE f == FieldsOf(t)[names[i]]
             n == values[i]
  <2>3. /\ IsType(t) /\ ~t.ref /\ t.ptr = 0 /\ t.base \in Structs \cup Unions /\ Declared(f)
        /\ t.base \in Unions => ~f.ref
        /\ NodeOK(n) /\ Agrees(n, f) /\ FieldGaps(t, f, n) = {}
    BY <1>1, <1>2, <1>4, <2>1, <2>2
  <2> HIDE DEF f, n
  <2>4. FieldBad(t, f, InitNode(t, n, f)) = {}
    BY <2>3, FieldRight
  <2> QED
    BY <2>4 DEF f, n
<1>6. c.link.tag => Desugared(c.head, t) = {}
  <2>1. HAVE c.link.tag
  <2>2. PICK u \in Unions : c.head = Type(u, 0)
    BY <1>1, <2>1
  <2>3. ~t.arr
    BY <1>1, <1>2 DEF IsType
  <2> QED
    BY <1>1, <2>2, <2>3, DesugaredRight DEF Declared
<1>7. InitBad(c, names, values, k) = {}
  BY <1>5, <1>6, <1>n, InitBadParts
<1> DEFINE h == IF c.link.tag THEN c.head ELSE t
<1>8. IsType(h) /\ ~IsVoid(h)
  <2>1. CASE c.link.tag
    BY <1>1, <2>1, SymbolTypes DEF SymbolNames
  <2>2. CASE ~c.link.tag
    BY <1>1, <2>2
  <2> QED
    BY <2>1, <2>2
<1>9. res.link = Link(h)
  BY <1>3
<1> HIDE DEF h
<1>10. Place(Fresh(h), h)
  BY <1>8, RegisterIsPlace DEF Fresh
<1>11. Held(Fresh(h), h)
  BY <1>8, <1>10 DEF Held
<1>12. res.link.type = h
  BY <1>9, LinkFields
<1>13. IsChain(d) /\ d.link = Link(h) /\ d.vals = <<Fresh(h)>>
  BY <1>9, <1>12, ChainCases, InitializedFields
<1> QED
  BY <1>7, <1>8, <1>10, <1>11, <1>13, MadeValueChain

\* A call that is ended, and may be a place.
Placed(t, vals, p) == [Node("call", t, NoText, vals) EXCEPT !.place = p]
CallMadeNode(c) == Placed(c.link.type, <<DeReference(Top(c.vals))>>, IsPlace(c))

LEMMA PlacedFields ==
  ASSUME NEW t, NEW vals, NEW p \in BOOLEAN
  PROVE  /\ IsNode(Placed(t, vals, p)) /\ Placed(t, vals, p).kind = "call"
         /\ Placed(t, vals, p).type = t /\ Placed(t, vals, p).text = NoText
         /\ Placed(t, vals, p).vals = vals /\ Placed(t, vals, p).place = p
<1> DEFINE n == Placed(t, vals, p)
<1>1. n = [kind |-> "call", type |-> t, own |-> t, text |-> NoText, vals |-> vals, place |-> p]
  BY DEF Node, Placed
<1> HIDE DEF n
<1>2. IsNode(n) /\ n.kind = "call" /\ n.type = t /\ n.text = NoText /\ n.vals = vals /\ n.place = p
  BY <1>1 DEF IsNode
<1> QED
  BY <1>2 DEF n

\* A finished chain is a good expression.
LEMMA EndCallRight ==
  ASSUME NEW c, GoodChain(c), c # NoChain, ~IsFunction(c.link), ~c.link.global
  PROVE  EmitDeReference(Top(c.vals)) = {} /\ NodeOK(CallMadeNode(c))
<1> DEFINE t == c.link.type
           v == Top(c.vals)
           w == DeReference(v)
           n == CallMadeNode(c)
           p == IsPlace(c)
<1>1. ValueChain(c)
  BY ChainCases
<1>2. IsType(t) /\ EmitDeReference(v) = {} /\ Held(w, NoRef(t)) /\ v = c.vals[1]
  BY <1>1, ValueChainFields
<1>3. p \in BOOLEAN
  BY DEF IsPlace
<1>4. p => Place(w, NoRef(t))
  <2>1. HAVE p
  <2>2. Place(v, t)
    BY <1>1, <1>2, <2>1 DEF ValueChain
  <2> HIDE DEF p, v, t
  <2> QED
    BY <1>2, <2>2, DeReferencePlace
<1>5. n = Placed(t, <<w>>, p)
  BY DEF CallMadeNode
<1> HIDE DEF n, p, w, t
<1>6. /\ IsNode(n) /\ n.kind = "call" /\ n.type = t /\ n.text = NoText /\ n.vals = <<w>>
      /\ n.place = p
  BY <1>3, <1>5, PlacedFields
<1>7. n.vals[1] = w
  BY <1>6
<1>8. CallNode(n)
  BY <1>2, <1>4, <1>6, <1>7 DEF CallNode
<1>9. NodeOK(n)
  BY <1>6, <1>8 DEF NodeOK
<1> QED
  BY <1>2, <1>9 DEF n

-----------------------------------------------------------------------------
(***************************************************************************)
(* Assignments, definitions, results and conditions.                       *)
(***************************************************************************)
\* What a place on the left of an assignment has.
LEMMA LeftPlace ==
  ASSUME NEW l, NodeOK(l), l.kind = "call", l.place, ~l.type.arr
  PROVE  /\ IsType(l.type) /\ ~IsVoid(l.type)
         /\ l.vals[1].kind = "variable" /\ l.vals[1].real = Star(Llvm(NoRef(l.type)))
         /\ l.vals[1].type.base = l.type.base /\ l.vals[1].type.ptr = l.type.ptr + 1
         /\ IsPointer(l.vals[1].type)
<1> DEFINE u == NoRef(l.type)
           v == l.vals[1]
<1>1. IsType(l.type) /\ Place(v, u) /\ Held(v, u)
  BY NodeKinds DEF CallNode
<1>2. IsType(u) /\ Same(u, l.type) /\ u.arr = l.type.arr
  BY <1>1, NoRefType
<1> HIDE DEF u, v
<1>3. v.kind = "variable" /\ v.type.base = u.base /\ v.type.ptr = u.ptr + 1 /\ IsPointer(v.type)
  BY <1>1, <1>2, PlaceFields
<1>4. ~IsVoid(u)
  <2>1. v # Symbol("none", u)
    BY <1>3, SymbolFields
  <2>2. CASE v = Flag(u) /\ u.base \in Enums
    BY <2>2, NamesApart DEF IsVoid, Same, Void, Type
  <2>3. CASE Place(v, u) /\ ~IsVoid(u)
    BY <2>3
  <2> QED
    BY <1>1, <2>1, <2>2, <2>3 DEF Held
<1>5. ~IsVoid(l.type)
  BY <1>2, <1>4, SamePredicates
<1>6. v.real = Star(Llvm(u))
  BY <1>1, <1>2 DEF Place
<1>7. v.type.base = l.type.base /\ v.type.ptr = l.type.ptr + 1
  BY <1>2, <1>3 DEF Same
<1> QED
  BY <1>1, <1>3, <1>5, <1>6, <1>7 DEF v, u

\* The instruction chosen by the address is the one for the value.
LEMMA AddressInstruction ==
  ASSUME NEW t, NEW u, u.base = t.base, IsPointer(u), ~IsPointer(t), t.base \notin Enums,
         NEW opr \in {"add", "div"}, IsInteger(t) \/ IsFloat(t), opr = "div" => t.base \notin Signed
  PROVE  Instruction(opr, u) = Instruction(opr, t)
<1>1. IsInteger(u) = IsInteger(t)
  BY DEF IsInteger
<1>2. opr = "div" /\ IsInteger(t) => IsUnsigned(t) /\ IsUnsigned(u)
  BY DEF IsUnsigned, IsInteger, Ints, Signed, Unsigned
<1> QED
  BY <1>1, <1>2 DEF Instruction

\* The wrong instructions of an assignment.
AssignBad(opr, l, r) ==
  EmitValueOf(Adjusted(r, l.type))
  \cup EmitAssign(opr, CallValue(l.vals[1], TRUE), ValueOf(Adjusted(r, l.type)))

\* An assignment stores a value of the type at the address it is given.
LEMMA AssignRight ==
  ASSUME NEW opr \in {"eq", "add", "div", "bits"}, NEW l, NEW r, NodeOK(l), NodeOK(r), l.kind = "call",
         ResolveAssignment(opr, l, r).ok, AssignGaps(opr, l, r) = {}
  PROVE  AssignBad(opr, l, r) = {}
<1> DEFINE t == l.type
           u == NoRef(l.type)
           m == Adjusted(r, l.type)
           R == ValueOf(m)
           L == l.vals[1]
<1>1. /\ l.place /\ ~t.arr /\ Agrees(r, t)
      /\ opr = "bits" => CanBitwise(t)
      /\ SymbolKind(t) = "enum" => opr = "eq"
  BY DEF ResolveAssignment, Checked, CheckValidLeftValue, CheckMutableLeftValue
<1>2. /\ ValueGaps(r) = {}
      /\ ~(t.ref /\ IsLiteral(r) /\ ~Same(r.type, t))
      /\ opr \in {"add", "div"} => Arithmetic(t)
      /\ opr = "div" => t.base \notin Signed
  <2>1. /\ ValueGaps(r) = {}
        /\ Gap("literal as reference", t.ref /\ IsLiteral(r) /\ ~Same(t, r.type)) = {}
        /\ Gap("no arithmetic", opr \in {"add", "div"} /\ ~Arithmetic(t)) = {}
        /\ Gap("unsigned division", opr = "div" /\ t.base \in Signed) = {}
    BY DEF AssignGaps
  <2>2. /\ ~(t.ref /\ IsLiteral(r) /\ ~Same(t, r.type))
        /\ ~(opr \in {"add", "div"} /\ ~Arithmetic(t))
        /\ ~(opr = "div" /\ t.base \in Signed)
    BY <2>1 DEF Gap
  <2>3. Same(t, r.type) <=> Same(r.type, t)
    BY DEF Same
  <2> QED
    BY <2>1, <2>2, <2>3
<1>3. /\ IsType(t) /\ ~IsVoid(t)
      /\ L.kind = "variable" /\ L.real = Star(Llvm(u))
      /\ L.type.base = t.base /\ L.type.ptr = t.ptr + 1 /\ IsPointer(L.type)
  BY <1>1, LeftPlace
<1>4. IsType(u) /\ ~u.ref /\ Same(u, t) /\ (~t.ref => u = t)
  BY <1>3, NoRefType
<1>c. CallValue(L, TRUE) = L
  BY DEF CallValue
<1>n. m = Adjusted(r, t) /\ R = ValueOf(m)
  OBVIOUS
<1>b. AssignBad(opr, l, r) = EmitValueOf(m) \cup EmitAssign(opr, L, R)
  BY <1>c DEF AssignBad
<1> HIDE DEF t, u, m, R, L
<1>5. ~IsVoid(u)
  BY <1>3, <1>4, SamePredicates
<1>6. Agrees(r, u) /\ m = Adjusted(r, u)
  <2>1. CASE t.ref
    <3>1. Same(r.type, t)
      <4>1. CASE Convertible(r, t)
        <5>1. IsLiteral(r)
          BY <4>1, ConvertibleNodes DEF IsLiteral
        <5> QED
          BY <1>2, <2>1, <5>1
      <4>2. CASE Same(r.type, t)
        BY <4>2
      <4> QED
        BY <1>1, <4>1, <4>2 DEF Agrees
    <3>2. Same(r.type, u)
      BY <1>4, <3>1 DEF Same
    <3>3. m = r /\ Adjusted(r, u) = r
      BY <1>n, <3>1, <3>2 DEF Adjusted
    <3> QED
      BY <3>2, <3>3 DEF Agrees
  <2>2. CASE ~t.ref
    BY <1>1, <1>4, <1>n, <2>2
  <2> QED
    BY <2>1, <2>2
<1>7. Suits(R, u) /\ EmitValueOf(m) = {} /\ Same(R.type, u)
  BY <1>2, <1>4, <1>5, <1>6, <1>n, AdjustedSuits
<1>8. Llvm(R.type) = Llvm(u) /\ Fits(R, Llvm(u))
  BY <1>7 DEF Suits
<1>9. EmitStore(R.type, R, L) = {} /\ EmitLoad(R.type, L) = {}
  BY <1>3, <1>8 DEF EmitStore, EmitLoad, Refused
<1>10. CASE opr = "eq"
  <2>1. EmitAssign(opr, L, R) = {}
    BY <1>9, <1>10 DEF EmitAssign
  <2> QED
    BY <1>7, <1>b, <2>1
<1>11. CASE opr # "eq"
  <2>1. Operates(Instruction(opr, L.type), u, << >>)
    <3>1. CASE opr = "bits"
      <4>1. CanBitwise(u)
        BY <1>1, <1>4, <3>1, SamePredicates
      <4>2. Instruction(opr, L.type) = "bits"
        BY <3>1 DEF Instruction
      <4> QED
        BY <1>4, <4>1, <4>2, BitsOn
    <3>2. CASE opr \in {"add", "div"}
      <4>1. Arithmetic(t) /\ t.base \notin Enums
        <5>1. t.base \notin Enums
          <6>1. SymbolKind(t) # "enum"
            BY <1>1, <3>2
          <6> QED
            BY <6>1, NamesApart DEF SymbolKind
        <5> QED
          BY <1>2, <3>2, <5>1
      <4>2. (IsInteger(u) \/ IsFloat(u)) /\ ~IsPointer(u) /\ u.base = t.base
        BY <1>4, <4>1, SamePredicates DEF Arithmetic, Same
      <4>3. Instruction(opr, L.type) = Instruction(opr, u)
        BY <1>2, <1>3, <3>2, <4>1, <4>2, AddressInstruction
      <4>4. Operates(Instruction(opr, u), u, << >>)
        BY <1>4, <3>2, <4>2, ArithmeticOn DEF Arithmetic
      <4> QED
        BY <4>3, <4>4
    <3> QED
      BY <1>11, <3>1, <3>2
  <2>2. Fits(Loaded(R.type), Llvm(u))
    BY <1>8, VariableFields DEF Loaded, Claimed, Fits
  <2>3. Operates(Instruction(opr, L.type), R.type, <<Loaded(R.type), R>>)
    BY <1>8, <2>1, <2>2, OperatesOn
  <2>4. opr = "div" /\ IsInteger(R.type) => (IsUnsigned(L.type) <=> IsUnsigned(R.type))
    <3>1. HAVE opr = "div" /\ IsInteger(R.type)
    <3>2. IsUnsigned(L.type)
      BY <1>3 DEF IsUnsigned
    <3>3. R.type.base = t.base
      BY <1>4, <1>7 DEF Same
    <3>4. t.base \notin Enums
      <4>1. SymbolKind(t) # "enum"
        BY <1>1, <3>1
      <4> QED
        BY <4>1, NamesApart DEF SymbolKind
    <3>5. IsUnsigned(R.type)
      BY <1>2, <3>1, <3>3, <3>4 DEF IsUnsigned, IsInteger, Ints
    <3> QED
      BY <3>2, <3>5
  <2>5. EmitAssign(opr, L, R) = {}
    BY <1>9, <2>3, <2>4 DEF EmitAssign, Refused
  <2> QED
    BY <1>7, <1>b, <2>5
<1> QED
  BY <1>10, <1>11

LEMMA StoreRight ==
  ASSUME NEW t, IsType(t), NEW n, EmitPlaceOf(n, t.ref) = {}, Fits(PlaceOf(n, t.ref), Llvm(t))
  PROVE  Store(t, n) = {}
<1>1. Llvm(NoArray(t)) = Llvm(t)
  <2>1. NoArray(t).base = t.base /\ NoArray(t).ptr = t.ptr /\ NoArray(t).ref = t.ref
    BY TypeRecord, NoArrayRecord
  <2> QED
    BY <2>1, LlvmSame
<1>2. Slot(t).kind = "variable" /\ Slot(t).real = Star(Llvm(NoArray(t)))
  BY VariableFields DEF Slot
<1>3. EmitStore(NoArray(t), PlaceOf(n, t.ref), Slot(t)) = {}
  BY <1>1, <1>2 DEF EmitStore, Refused
<1> QED
  BY <1>3 DEF Store

\* The type kept in a node with a pointer says nothing about its value.
Owned(n, t) == [n EXCEPT !.own = t]

LEMMA OwnChanged ==
  ASSUME NEW n, NodeOK(n), n.kind # "assign", IsPointer(n.type), NEW t, NEW b \in BOOLEAN, NEW l,
         Fits(PlaceOf(n, b), l), EmitPlaceOf(n, b) = {}
  PROVE  Fits(PlaceOf(Owned(n, t), b), l) /\ EmitPlaceOf(Owned(n, t), b) = {}
<1> DEFINE m == Owned(n, t)
<1>1. m.kind = n.kind /\ m.vals = n.vals /\ m.text = n.text /\ m.own = t
  BY DEF NodeOK, IsNode, Owned
<1>2. n.own = n.type
  BY NodeFields
<1> HIDE DEF m
<1>3. CASE n.kind = "call"
  <2>1. n.text = NoText
    BY <1>3, NodeKinds DEF CallNode
  <2>2. ValueOf(m) = CallValue(n.vals[1], FALSE) /\ EmitValueOf(m) = EmitCallValue(n.vals[1], FALSE)
    BY <1>1, <1>3, <2>1 DEF ValueOf, EmitValueOf
  <2>3. ValueOf(n) = CallValue(n.vals[1], FALSE) /\ EmitValueOf(n) = EmitCallValue(n.vals[1], FALSE)
    BY <1>3, <2>1 DEF ValueOf, EmitValueOf
  <2>4. PlaceOf(m, b) = PlaceOf(n, b) /\ EmitPlaceOf(m, b) = EmitPlaceOf(n, b)
    BY <1>1, <2>2, <2>3 DEF PlaceOf, EmitPlaceOf
  <2> QED
    BY <2>4 DEF m
<1>4. CASE n.kind # "call"
  <2>1. /\ PlaceOf(m, b) = ValueOf(m) /\ EmitPlaceOf(m, b) = EmitValueOf(m)
        /\ PlaceOf(n, b) = ValueOf(n) /\ EmitPlaceOf(n, b) = EmitValueOf(n)
    BY <1>1, <1>4 DEF PlaceOf, EmitPlaceOf
  <2>2. n.kind \notin {"number", "neg"} /\ ~FoldedNode(n)
    BY NodeKinds, NumberNodeTypes DEF FoldedNode
  <2>3. CASE n.kind = "nil"
    <3>1. n.text = NoText
      BY <2>3, NodeKinds DEF NilNode
    <3>2. ValueOf(m) = NilValue(t) /\ ValueOf(n) = NilValue(n.type) /\ EmitValueOf(m) = {}
      BY <1>1, <1>2, <2>3, <3>1 DEF ValueOf, EmitValueOf
    <3>3. NilValue(t).kind = "nil" /\ NilValue(n.type).kind = "nil"
      BY ValueFields DEF NilValue
    <3>4. IsLlvmPointer(l)
      BY <2>1, <3>2, <3>3 DEF Fits
    <3>5. Fits(NilValue(t), l)
      BY <3>3, <3>4 DEF Fits
    <3> QED
      BY <2>1, <3>2, <3>5 DEF m
  <2>4. CASE ValueNode(n)
    <3> DEFINE v == n.vals[1]
    <3>1. /\ n.text = NoText /\ n.kind \in {"literal", "op", "convert"}
          /\ v = Value(v.kind, n.type, v.real)
      BY <2>4 DEF ValueNode
    <3>2. EmitValueOf(m) = {}
      BY <1>1, <3>1 DEF EmitValueOf
    <3>3. CASE n.kind = "convert"
      <4>1. ValueOf(m) = ValueOf(n)
        BY <1>1, <3>1, <3>3 DEF ValueOf
      <4> QED
        BY <2>1, <3>2, <4>1 DEF m
    <3>4. CASE n.kind # "convert"
      <4>1. ValueOf(m) = [v EXCEPT !.type = t] /\ ValueOf(n) = [v EXCEPT !.type = n.type]
        BY <1>1, <1>2, <3>1, <3>4 DEF ValueOf
      <4> HIDE DEF v
      <4>2. /\ [v EXCEPT !.type = t].kind = v.kind /\ [v EXCEPT !.type = t].real = v.real
            /\ [v EXCEPT !.type = n.type].kind = v.kind /\ [v EXCEPT !.type = n.type].real = v.real
        BY <3>1 DEF Value
      <4>3. /\ ValueOf(m).kind = ValueOf(n).kind /\ ValueOf(m).real = ValueOf(n).real
        BY <4>1, <4>2
      <4>4. Fits(ValueOf(m), l)
        BY <2>1, <4>3 DEF Fits
      <4> QED
        BY <2>1, <3>2, <4>4 DEF m
    <3> QED
      BY <3>3, <3>4
  <2> QED
    BY <1>4, <2>2, <2>3, <2>4, NodeKinds
<1> QED
  BY <1>3, <1>4

LEMMA DefineInferredRight ==
  ASSUME NEW n, NodeOK(n), ResolveInferred(n).ok, DefineGaps(n.type, n) = {}
  PROVE  Store(n.type, n) = {}
<1>1. ~IsVoid(n.type) /\ n.type.base # "<restrict>"
  BY DEF ResolveInferred, Checked
<1>2. n.kind # "assign"
  BY <1>1, RestrictIs
<1>3. IsType(n.type)
  BY <1>2, NodeType
<1>4. PlaceGaps(n.type, n) = {}
  <2>1. CASE n.kind = "nil"
    <3>1. ~n.type.ref
      BY <2>1, NodeType
    <3> QED
      BY <2>1, <3>1 DEF PlaceGaps, ValueGaps
  <2>2. CASE n.kind # "nil"
    BY <2>2 DEF DefineGaps
  <2> QED
    BY <2>1, <2>2
<1>5. Same(n.type, n.type) /\ Agrees(n, n.type) /\ Adjusted(n, n.type) = n
  BY DEF Same, Agrees, Adjusted
<1>6. Suits(PlaceOf(n, n.type.ref), n.type) /\ EmitPlaceOf(n, n.type.ref) = {}
  BY <1>1, <1>3, <1>4, <1>5, PlaceSuits
<1> QED
  BY <1>3, <1>6, StoreRight DEF Suits

\* A literal that is nil, where a pointer is wanted.
LEMMA NilSuits ==
  ASSUME NEW n, NodeOK(n), n.kind = "nil", NEW t, IsType(t), Agrees(n, t), NEW b \in BOOLEAN
  PROVE  Fits(PlaceOf(Adjusted(n, t), b), Llvm(t)) /\ EmitPlaceOf(Adjusted(n, t), b) = {}
<1> DEFINE m == Adjusted(n, t)
<1>1. n.type = Nil /\ n.text = NoText
  BY NodeKinds DEF NilNode
<1>2. IsPointer(t)
  <2>1. CASE Same(n.type, t)
    BY <1>1, <2>1 DEF Same, Nil, Type, IsPointer
  <2>2. CASE Convertible(n, t)
    BY <2>2, ConvertibleNodes
  <2> QED
    BY <2>1, <2>2 DEF Agrees
<1>3. m.kind = "nil" /\ m.text = NoText
  <2>1. m = n \/ m = Converted(n, t)
    BY DEF Adjusted
  <2> QED
    BY <1>1, <2>1, ConvertedFields
<1> HIDE DEF m
<1>4. ValueOf(m) = NilValue(m.own) /\ EmitValueOf(m) = {}
  BY <1>3 DEF ValueOf, EmitValueOf
<1>5. PlaceOf(m, b) = ValueOf(m) /\ EmitPlaceOf(m, b) = EmitValueOf(m)
  BY <1>3 DEF PlaceOf, EmitPlaceOf
<1>6. Fits(NilValue(m.own), Llvm(t))
  <2>1. NilValue(m.own).kind = "nil"
    BY ValueFields DEF NilValue
  <2> QED
    BY <1>2, <2>1, PointerLlvm DEF Fits
<1> QED
  BY <1>4, <1>5, <1>6 DEF m

\* The expression a definition with a type stores.
DefinedNode(t, n) ==
  IF t.arr THEN [n EXCEPT !.own = t]
  ELSE IF n.type.arr THEN n ELSE IF Same(n.type, t) THEN n
  ELSE IF Convertible(n, t) THEN Converted(n, t) ELSE n

LEMMA EmptyDefined ==
  ASSUME NEW t, IsType(t), NEW n, n = EmptyList, DefineGaps(ResolveDeclared(t, n).type, n) = {}
  PROVE  Store(ResolveDeclared(t, n).type, DefinedNode(t, n)) = {}
<1> DEFINE m == DefinedNode(t, n)
<1>1. n = [kind |-> "empty", type |-> EmptyArray, own |-> EmptyArray, text |-> NoText, vals |-> << >>, place |-> FALSE]
  BY DEF EmptyList, Node
<1>2. EmptyArray.const = FALSE
  BY DEF EmptyArray, Type
<1>3. n.kind = "empty" /\ ResolveDeclared(t, n).type = t
  BY <1>1, <1>2 DEF ResolveDeclared, Checked
<1>4. t.arr
  BY <1>3 DEF DefineGaps, Gap
<1>5. ~t.ref
  BY <1>4 DEF IsType
<1>6. m = [n EXCEPT !.own = t]
  BY <1>4 DEF DefinedNode
<1> HIDE DEF m
<1>7. m.kind = "empty" /\ m.own = t /\ m.text = NoText
  BY <1>1, <1>6
<1>8. ValueOf(m) = Claimed(t) /\ EmitValueOf(m) = {}
  BY <1>7 DEF ValueOf, EmitValueOf
<1>9. PlaceOf(m, t.ref) = ValueOf(m) /\ EmitPlaceOf(m, t.ref) = EmitValueOf(m)
  BY <1>7 DEF PlaceOf, EmitPlaceOf
<1>10. Fits(Claimed(t), Llvm(t))
  BY VariableFields DEF Claimed, Fits
<1> QED
  BY <1>3, <1>8, <1>9, <1>10, StoreRight DEF m

\* A value whose type is const keeps that type.
LEMMA ConstDefined ==
  ASSUME NEW t, IsType(t), NEW n, NodeOK(n), n.type.const, ResolveDeclared(t, n).ok, DefineGaps(n.type, n) = {}
  PROVE  Store(n.type, DefinedNode(t, n)) = {}
<1> DEFINE d == n.type
           m == DefinedNode(t, n)
<1>1. /\ ~IsVoid(d) /\ d.base # "<restrict>"
      /\ t.arr => Same(t, d) \/ n.kind = "empty"
  BY DEF ResolveDeclared, Checked
<1>2. n.kind # "assign"
  BY <1>1, RestrictIs
<1>3. IsType(d)
  BY <1>2, NodeType
<1>4. n.kind \notin {"number", "neg", "nil", "empty"}
  <2>1. CASE n.kind \in {"number", "neg"}
    <3>1. <<d, n.text>> \in Literal64
      BY <2>1, NodeKinds DEF NumberNode
    <3>2. d \in {I64, Type("u64", 0), Type("f64", 0)}
      BY <3>1 DEF Literal64
    <3> QED
      BY <3>2 DEF I64, Type
  <2>2. CASE n.kind = "nil"
    <3>1. d = Nil
      BY <2>2, NodeKinds DEF NilNode
    <3> QED
      BY <3>1 DEF Nil, Type
  <2> QED
    BY <2>1, <2>2, NodeKinds
<1>5. PlaceGaps(d, n) = {}
  BY <1>4 DEF DefineGaps
<1>6. Same(d, d) /\ Agrees(n, d) /\ Adjusted(n, d) = n
  BY DEF Same, Agrees, Adjusted
<1>7. Suits(PlaceOf(n, d.ref), d) /\ EmitPlaceOf(n, d.ref) = {}
  BY <1>1, <1>3, <1>5, <1>6, PlaceSuits
<1>8. d.ref \in BOOLEAN
  BY <1>3, TypeFields
<1>9. Fits(PlaceOf(m, d.ref), Llvm(d)) /\ EmitPlaceOf(m, d.ref) = {}
  <2>1. CASE t.arr
    <3>1. m = Owned(n, t)
      BY <2>1 DEF DefinedNode, Owned
    <3>2. IsPointer(d)
      BY <1>1, <1>4, <2>1, SamePredicates DEF IsType
    <3> QED
      BY <1>2, <1>7, <1>8, <3>1, <3>2, OwnChanged DEF Suits
  <2>2. CASE ~t.arr
    <3>1. ~Convertible(n, t)
      BY <1>4, ConvertibleNodes
    <3>2. m = n
      BY <2>2, <3>1 DEF DefinedNode
    <3> QED
      BY <1>7, <3>2 DEF Suits
  <2> QED
    BY <2>1, <2>2
<1> QED
  BY <1>3, <1>9, StoreRight

\* A value of another type than the one declared agrees with it.
LEMMA PlainDefined ==
  ASSUME NEW t, IsType(t), NEW n, NodeOK(n), ~n.type.const, ResolveDeclared(t, n).ok, DefineGaps(t, n) = {}
  PROVE  Store(t, DefinedNode(t, n)) = {}
<1> DEFINE m == DefinedNode(t, n)
<1>1. /\ ~IsVoid(t) /\ n.type.base # "<restrict>"
      /\ IF t.arr \/ n.type.arr THEN Same(t, n.type) \/ n.kind = "empty"
         ELSE (IsPointer(t) /\ IsPointer(n.type)) \/ Agrees(n, t)
  BY DEF ResolveDeclared, Checked
<1>2. n.kind # "assign"
  BY <1>1, RestrictIs
<1>3. IsType(n.type) /\ t.ref \in BOOLEAN
  BY <1>2, NodeType, TypeFields
<1>4. n.kind # "empty"
  BY NodeKinds
<1>5. ~(IsPointer(t) /\ ~Same(t, n.type) /\ ~Convertible(n, t))
  <2>1. Gap("other pointer", /\ IsPointer(t) /\ n.kind # "empty"
                             /\ ~Same(t, n.type) /\ ~Convertible(n, t)) = {}
    BY DEF DefineGaps
  <2> QED
    BY <1>4, <2>1 DEF Gap
<1>6. n.kind = "nil" \/ PlaceGaps(t, n) = {}
  BY DEF DefineGaps
<1>7. Same(t, n.type) <=> Same(n.type, t)
  BY DEF Same
<1>8. Agrees(n, t)
  BY <1>1, <1>4, <1>5, <1>7 DEF Agrees
<1>9. Fits(PlaceOf(Adjusted(n, t), t.ref), Llvm(t)) /\ EmitPlaceOf(Adjusted(n, t), t.ref) = {}
  <2>1. CASE n.kind = "nil"
    BY <1>3, <1>8, <2>1, NilSuits
  <2>2. CASE n.kind # "nil"
    <3>1. PlaceGaps(t, n) = {}
      BY <1>6, <2>2
    <3> QED
      BY <1>1, <1>8, <3>1, PlaceSuits DEF Suits
  <2> QED
    BY <2>1, <2>2
<1>10. Fits(PlaceOf(m, t.ref), Llvm(t)) /\ EmitPlaceOf(m, t.ref) = {}
  <2>1. CASE t.arr
    <3>1. m = Owned(n, t)
      BY <2>1 DEF DefinedNode, Owned
    <3>2. Same(n.type, t)
      BY <1>1, <1>4, <1>7, <2>1
    <3>3. IsPointer(n.type) /\ Adjusted(n, t) = n
      BY <2>1, <3>2, SamePredicates DEF IsType, Adjusted
    <3> HIDE DEF m
    <3> QED
      BY <1>2, <1>3, <1>9, <3>1, <3>3, OwnChanged
  <2>2. CASE ~t.arr
    <3>1. m = Adjusted(n, t)
      <4>1. CASE n.type.arr
        BY <1>1, <1>4, <1>7, <2>2, <4>1 DEF DefinedNode, Adjusted
      <4>2. CASE ~n.type.arr
        BY <1>8, <2>2, <4>2 DEF DefinedNode, Adjusted, Agrees
      <4> QED
        BY <4>1, <4>2
    <3> QED
      BY <1>9, <3>1
  <2> QED
    BY <2>1, <2>2
<1> QED
  BY <1>10, StoreRight

\* A definition stores a value of the type of the variable.
LEMMA DefineDeclaredRight ==
  ASSUME NEW t, IsType(t), NEW n, NodeOK(n) \/ n = EmptyList, ResolveDeclared(t, n).ok,
         DefineGaps(ResolveDeclared(t, n).type, n) = {}
  PROVE  Store(ResolveDeclared(t, n).type, DefinedNode(t, n)) = {}
<1>1. ResolveDeclared(t, n).type = IF n.type.const THEN n.type ELSE t
  BY DEF ResolveDeclared, Checked
<1>2. CASE n = EmptyList
  BY <1>2, EmptyDefined
<1>3. CASE NodeOK(n) /\ n.type.const
  BY <1>1, <1>3, ConstDefined
<1>4. CASE NodeOK(n) /\ ~n.type.const
  BY <1>1, <1>4, PlainDefined
<1> QED
  BY <1>2, <1>3, <1>4

\* The wrong instructions of a return.
ReturnBad(t, n) ==
  EmitPlaceOf(Adjusted(n, t), t.ref)
  \cup Refused("ret", Llvm(PlaceOf(Adjusted(n, t), t.ref).type) = Llvm(t)
                      /\ Fits(PlaceOf(Adjusted(n, t), t.ref), Llvm(t)))

\* A return gives a value of the returned type.
LEMMA ReturnRight ==
  ASSUME NEW t, IsType(t), NEW n, NodeOK(n), ResolveReturn(t, n).ok, ReturnGaps(t, n) = {}
  PROVE  ReturnBad(t, n) = {}
<1>1. Agrees(n, t)
  BY DEF ResolveReturn, Checked
<1>2. PlaceGaps(t, n) = {} /\ ~IsVoid(n.type)
  BY DEF ReturnGaps, Gap, Valueless
<1>3. ~IsVoid(t)
  <2>1. CASE Same(n.type, t)
    BY <1>2, <2>1, SamePredicates
  <2>2. CASE Convertible(n, t)
    BY <2>2, ConvertibleNodes, VoidIs
  <2> QED
    BY <1>1, <2>1, <2>2 DEF Agrees
<1>4. Suits(PlaceOf(Adjusted(n, t), t.ref), t) /\ EmitPlaceOf(Adjusted(n, t), t.ref) = {}
  BY <1>1, <1>2, <1>3, PlaceSuits
<1> QED
  BY <1>4 DEF ReturnBad, Suits, Refused

LEMMA ConditionRight ==
  ASSUME NEW n, NodeOK(n), ResolveCondition(n).ok
  PROVE  EmitValueOf(n) \cup Refused("br", Fits(ValueOf(n), Llvm(Bool))) = {}
<1>1. Same(n.type, Bool)
  BY DEF ResolveCondition, Checked
<1>2. IsBoolean(n.type) /\ ~IsPointer(n.type)
  BY <1>1 DEF Same, Bool, Type, IsBoolean, IsPointer
<1> QED
  BY <1>2, BooleanStands DEF Refused

-----------------------------------------------------------------------------
(***************************************************************************)
(* Steps.  The stack and the chain a step leaves, and what is known of a   *)
(* judgment.                                                               *)
(***************************************************************************)
LEMMA MadeStack ==
  ASSUME NEW S, NEW s \in Seq(S), \A i \in 1..Len(s) : NodeOK(s[i])
  PROVE  GoodStack(s)
<1>1. DOMAIN s = 1..Len(s) /\ Len(s) \in Nat
  BY LenProperties
<1> DEFINE T == {s[i] : i \in DOMAIN s}
<1>2. \A i \in 1..Len(s) : s[i] \in T
  BY <1>1
<1> HIDE DEF T
<1>3. s = [i \in 1..Len(s) |-> s[i]]
  BY <1>1
<1>4. s \in [1..Len(s) -> T]
  BY <1>2, <1>3
<1>5. s \in Seq(T)
  BY <1>1, <1>4, SeqDef
<1> QED
  BY <1>1, <1>5 DEF GoodStack, T

LEMMA StackFields ==
  ASSUME NEW s, GoodStack(s)
  PROVE  /\ s \in Seq({s[i] : i \in DOMAIN s}) /\ Len(s) \in Nat /\ DOMAIN s = 1..Len(s)
         /\ \A i \in 1..Len(s) : NodeOK(s[i])
<1> DEFINE T == {s[i] : i \in DOMAIN s}
<1>1. s \in Seq(T) /\ \A i \in DOMAIN s : NodeOK(s[i])
  BY DEF GoodStack
<1> HIDE DEF T
<1>2. Len(s) \in Nat /\ DOMAIN s = 1..Len(s)
  BY <1>1, LenProperties
<1> QED
  BY <1>1, <1>2 DEF T

\* What is below the top k expressions, and those, are good.
LEMMA StackParts ==
  ASSUME NEW s, GoodStack(s), NEW k \in Nat, k <= Len(s)
  PROVE  /\ GoodStack(Below(s, k))
         /\ ArgsOK(SubSeq(s, Len(s) - k + 1, Len(s)), k)
         /\ \A i \in 1..k : SubSeq(s, Len(s) - k + 1, Len(s))[i] = s[Len(s) - k + i]
<1> DEFINE T == {s[i] : i \in DOMAIN s}
           n == Len(s)
           b == SubSeq(s, 1, n - k)
           t == SubSeq(s, n - k + 1, n)
<1>1. s \in Seq(T) /\ n \in Nat /\ \A i \in 1..n : NodeOK(s[i])
  BY StackFields
<1> HIDE DEF T
<1>2. b \in Seq(T) /\ Len(b) = n - k /\ \A i \in 1..(n - k) : b[i] = s[i]
  <2>1. 1 \in 1..(Len(s) + 1) /\ n - k \in (1 - 1)..Len(s)
    BY <1>1
  <2>2. /\ b \in Seq(T) /\ Len(b) = IF 1 <= n - k THEN n - k - 1 + 1 ELSE 0
        /\ \A i \in 1..(n - k - 1 + 1) : b[i] = s[1 + i - 1]
    BY <1>1, <2>1, SubSeqProperties
  <2> QED
    BY <1>1, <2>2
<1>3. t \in Seq(T) /\ Len(t) = k /\ \A i \in 1..k : t[i] = s[n - k + i]
  <2>1. n - k + 1 \in 1..(Len(s) + 1) /\ n \in (n - k + 1 - 1)..Len(s)
    BY <1>1
  <2>2. /\ t \in Seq(T) /\ Len(t) = IF n - k + 1 <= n THEN n - (n - k + 1) + 1 ELSE 0
        /\ \A i \in 1..(n - (n - k + 1) + 1) : t[i] = s[n - k + 1 + i - 1]
    BY <1>1, <2>1, SubSeqProperties
  <2> QED
    BY <1>1, <2>2
<1> HIDE DEF b, t
<1>4. \A i \in 1..Len(b) : NodeOK(b[i])
  BY <1>1, <1>2
<1>5. GoodStack(b)
  BY <1>2, <1>4, MadeStack
<1>6. DOMAIN t = 1..k
  BY <1>3, LenProperties
<1>7. ASSUME NEW i \in 1..k PROVE NodeOK(t[i])
  <2>1. n - k + i \in 1..n
    BY <1>1
  <2>2. NodeOK(s[n - k + i])
    BY <1>1, <2>1
  <2> QED
    BY <1>3, <2>2
<1>8. ArgsOK(t, k)
  BY <1>6, <1>7 DEF ArgsOK
<1>9. GoodStack(Below(s, k))
  BY <1>5 DEF Below, b
<1>10. ArgsOK(SubSeq(s, Len(s) - k + 1, Len(s)), k)
  BY <1>8 DEF t
<1>11. \A i \in 1..k : SubSeq(s, Len(s) - k + 1, Len(s))[i] = s[Len(s) - k + i]
  BY <1>3 DEF t
<1> QED
  BY <1>9, <1>10, <1>11

LEMMA StackAppend ==
  ASSUME NEW s, GoodStack(s), NEW n, NodeOK(n)
  PROVE  GoodStack(Append(s, n))
<1> DEFINE T == {s[i] : i \in DOMAIN s} \cup {n}
           a == Append(s, n)
<1>1. s \in Seq({s[i] : i \in DOMAIN s}) /\ Len(s) \in Nat /\ \A i \in 1..Len(s) : NodeOK(s[i])
  BY StackFields
<1>2. s \in Seq(T) /\ n \in T
  BY <1>1, SeqMonotonic
<1> HIDE DEF T
<1>3. /\ a \in Seq(T) /\ Len(a) = Len(s) + 1
      /\ \A i \in 1..Len(s) : a[i] = s[i]
      /\ a[Len(s) + 1] = n
  BY <1>2, AppendProperties
<1>4. \A i \in 1..Len(a) : NodeOK(a[i])
  BY <1>1, <1>3
<1> HIDE DEF a
<1>5. GoodStack(a)
  BY <1>3, <1>4, MadeStack
<1> QED
  BY <1>5 DEF a

LEMMA EmptyStack == GoodStack(<< >>)
<1>1. << >> \in Seq({}) /\ Len(<< >>) = 0
  BY EmptySeq
<1>2. \A i \in 1..Len(<< >>) : NodeOK(<< >>[i])
  BY <1>1
<1> QED
  BY <1>1, <1>2, MadeStack

LEMMA StackTop ==
  ASSUME NEW s, GoodStack(s), Len(s) >= 1
  PROVE  NodeOK(Top(s))
<1>1. Len(s) \in 1..Len(s)
  BY StackFields
<1> QED
  BY <1>1, StackFields DEF Top

LEMMA StopGood ==
  ASSUME NEW how, Stop(how)
  PROVE  StackOK' /\ ChainOK'
<1>1. stack' = << >> /\ chain' = NoChain
  BY DEF Stop
<1>2. GoodStack(stack')
  BY <1>1, EmptyStack
<1>3. GoodChain(chain')
  BY <1>1 DEF GoodChain
<1> QED
  BY <1>2, <1>3 DEF StackOK, ChainOK

\* A judgment keeps the invariant when accepted instructions without gaps are right
\* and what they leave is good.
LEMMA JudgeStep ==
  ASSUME WellTyped, NEW STATE ok, NEW STATE bad, NEW STATE known, NEW ACTION good,
         Judge(ok, bad, known, good), ok /\ known = {} => bad = {},
         ok /\ known = {} /\ good => StackOK' /\ ChainOK'
  PROVE  StackOK' /\ ChainOK' /\ WellTyped'
<1>1. CASE ~ok
  <2>1. Stop("rejected") /\ UNCHANGED <<wrong, gaps>>
    BY <1>1 DEF Judge, Reject
  <2> QED
    BY <2>1, StopGood DEF WellTyped
<1>2. CASE ok /\ bad = {} /\ known = {}
  <2>1. wrong' = bad /\ gaps' = known /\ good
    BY <1>2 DEF Judge
  <2> QED
    BY <1>2, <2>1 DEF WellTyped
<1>3. CASE ok /\ ~(bad = {} /\ known = {})
  <2>1. wrong' = bad /\ gaps' = known /\ Stop("misjudged")
    BY <1>3 DEF Judge
  <2> QED
    BY <1>3, <2>1, StopGood DEF WellTyped
<1> QED
  BY <1>1, <1>2, <1>3

\* What a step that leaves its operands and pushes a node keeps.
LEMMA PushGood ==
  ASSUME StackOK, NEW k \in Nat, k <= Len(stack), NEW STATE n, NodeOK(n), Push(k, n)
  PROVE  StackOK' /\ ChainOK'
<1>1. GoodStack(Below(stack, k))
  BY StackParts DEF StackOK
<1>2. GoodStack(Append(Below(stack, k), n))
  BY <1>1, StackAppend
<1>3. stack' = Append(Below(stack, k), n) /\ chain' = NoChain
  BY DEF Push
<1>4. GoodStack(stack')
  BY <1>2, <1>3
<1>5. GoodChain(chain')
  BY <1>3 DEF GoodChain
<1> QED
  BY <1>4, <1>5 DEF StackOK, ChainOK

LEMMA DoneGood ==
  ASSUME Done
  PROVE  StackOK' /\ ChainOK'
<1>1. stack' = << >> /\ chain' = NoChain
  BY DEF Done
<1>2. GoodStack(stack')
  BY <1>1, EmptyStack
<1>3. GoodChain(chain')
  BY <1>1 DEF GoodChain
<1> QED
  BY <1>2, <1>3 DEF StackOK, ChainOK

LEMMA UnaryStep ==
  ASSUME IInv, NEW opr \in {"neg", "bnot", "lnot"}, Unary(opr)
  PROVE  IInv'
<1> DEFINE n == Top(stack)
           res == ResolveUnary(opr, n)
<1>1. NodeOK(n) /\ Len(stack) >= 1 /\ WellTyped /\ StackOK
  BY StackTop DEF Unary, HasTaken, IInv, StackOK
<1>2. CASE opr = "neg" /\ IsNumber(n)
  <2> DEFINE m == Node("neg", res.type, n.text, << >>)
  <2>1. Judge(res.ok, {}, {}, Push(1, m))
    BY <1>2 DEF Unary
  <2>2. NodeOK(m)
    BY <1>1, <1>2, NegatedNumber
  <2>3. Push(1, m) => StackOK' /\ ChainOK'
    BY <1>1, <2>2, PushGood
  <2> HIDE DEF m, res
  <2> QED
    BY <1>1, <2>1, <2>3, JudgeStep DEF IInv
<1>3. CASE ~(opr = "neg" /\ IsNumber(n))
  <2> DEFINE m == Node("op", res.type, NoText, <<UnaryMade(opr, n)>>)
  <2>1. Judge(res.ok, UnaryBad(opr, n), UnaryGaps(opr, n), Push(1, m))
    BY <1>3 DEF Unary, UnaryBad, UnaryMade
  <2>2. res.ok /\ UnaryGaps(opr, n) = {} => UnaryBad(opr, n) = {} /\ NodeOK(m)
    BY <1>1, UnaryRight
  <2>3. res.ok /\ UnaryGaps(opr, n) = {} /\ Push(1, m) => StackOK' /\ ChainOK'
    BY <1>1, <2>2, PushGood
  <2> HIDE DEF m, res
  <2> QED
    BY <1>1, <2>1, <2>2, <2>3, JudgeStep DEF IInv
<1> QED
  BY <1>2, <1>3

LEMMA TakenGood ==
  ASSUME StackOK, NEW k \in Nat, k <= Len(stack)
  PROVE  ArgsOK(Taken(k), k)
  BY StackParts DEF StackOK, Taken

LEMMA CastTypes == \A t \in Casts : IsType(t) /\ ~t.ref
  BY ProgramAssumption DEF Casts

LEMMA NumberLiteral ==
  ASSUME NEW t, NEW text, <<t, text>> \in Literal64, NEW n, n = Node("number", t, text, << >>)
  PROVE  NodeOK(n)
<1>1. IsNode(n) /\ n.kind = "number" /\ n.type = t /\ n.text = text
  BY NodeRecord
<1> QED
  BY <1>1 DEF NodeOK, NumberNode

LEMMA NilLiteral ==
  ASSUME NEW n, n = Node("nil", Nil, NoText, << >>)
  PROVE  NodeOK(n)
<1>1. IsNode(n) /\ n.kind = "nil" /\ n.type = Nil /\ n.text = NoText
  BY NodeRecord
<1> QED
  BY <1>1 DEF NodeOK, NilNode

LEMMA FlagLiteral ==
  ASSUME NEW t, IsType(t), ~t.ref, t.base \in {"bool", "i8"}, t.ptr = 0,
         NEW n, n = Node("literal", t, NoText, <<Flag(t)>>)
  PROVE  NodeOK(n)
<1> DEFINE v == Flag(t)
<1>1. v.kind = "int" /\ v.type = t /\ v = Value(v.kind, t, v.real)
  BY DEF Flag, Value
<1>2. IsLlvmInt(Llvm(t))
  <2>1. ~IsPointer(t) /\ (IsInteger(t) \/ IsBoolean(t))
    BY DEF IsPointer, IsInteger, IsBoolean, Ints, Signed
  <2> QED
    BY <2>1, IntegerLlvm, BooleanLlvm
<1>3. ~IsVoid(t)
  BY DEF IsVoid, Same, Void, Type
<1>4. Fits(v, Llvm(t))
  BY <1>1, <1>2 DEF Fits
<1>5. n = Node("literal", t, NoText, <<v>>)
  OBVIOUS
<1> HIDE DEF v
<1>6. v.kind \in {"variable", "int"} /\ "literal" \in {"literal", "op", "convert"}
  BY <1>1
<1> QED
  BY <1>1, <1>3, <1>4, <1>5, <1>6, MadeNode

LEMMA TextLiteral ==
  ASSUME NEW n, n = Node("literal", ConstType("i8", 1), NoText, <<Claimed(ConstType("i8", 1))>>)
  PROVE  NodeOK(n)
<1> DEFINE t == ConstType("i8", 1)
<1>1. t.base = "i8" /\ t.ptr = 1 /\ ~t.ref /\ IsType(t)
  BY DEF ConstType, Type, IsType, IsVoid, SymbolNames, Primitives, Ints, Floats, Signed, Unsigned
<1>2. ~IsVoid(t)
  BY <1>1 DEF IsVoid, Same, Void, Type
<1>3. n = Node("literal", t, NoText, <<Variable(t, Llvm(t))>>)
  BY DEF Claimed
<1> HIDE DEF t
<1> QED
  BY <1>1, <1>2, <1>3, ClaimedNode

\* Every literal is a good expression.
LEMMA LiteralsGood == \A n \in Literals : NodeOK(n)
<1>1. NodeOK(Node("number", I64, "int", << >>))
  BY NumberLiteral DEF Literal64
<1>2. NodeOK(Node("number", Type("u64", 0), "int", << >>))
  BY NumberLiteral DEF Literal64
<1>3. NodeOK(Node("number", Type("f64", 0), "float", << >>))
  BY NumberLiteral DEF Literal64
<1>4. NodeOK(Node("nil", Nil, NoText, << >>))
  BY NilLiteral
<1>5. NodeOK(Node("literal", Bool, NoText, <<Flag(Bool)>>))
  <2>1. IsType(Bool) /\ ~Bool.ref /\ Bool.base = "bool" /\ Bool.ptr = 0
    BY LiteralTypes, PlainTypes DEF Bool
  <2> QED
    BY <2>1, FlagLiteral
<1>6. NodeOK(Node("literal", Type("i8", 0), NoText, <<Flag(Type("i8", 0))>>))
  <2>1. ~Type("i8", 0).ref /\ Type("i8", 0).base = "i8" /\ Type("i8", 0).ptr = 0
    BY PlainTypes
  <2>2. IsType(Type("i8", 0))
    BY DEF Type, IsType, IsVoid, IsPointer, SymbolNames, Primitives, Ints, Floats, Signed, Unsigned
  <2> QED
    BY <2>1, <2>2, FlagLiteral
<1>7. NodeOK(Node("literal", ConstType("i8", 1), NoText, <<Claimed(ConstType("i8", 1))>>))
  BY TextLiteral
<1> QED
  BY <1>1, <1>2, <1>3, <1>4, <1>5, <1>6, <1>7 DEF Literals

LEMMA LiteralStep ==
  ASSUME IInv, Literal
  PROVE  IInv'
<1>1. PICK n \in Literals : Push(0, n)
  BY DEF Literal
<1>2. StackOK /\ WellTyped /\ 0 <= Len(stack)
  BY StackFields DEF IInv, StackOK
<1>3. NodeOK(n)
  BY LiteralsGood
<1>4. StackOK' /\ ChainOK'
  BY <1>1, <1>2, <1>3, PushGood
<1>5. WellTyped'
  BY <1>2 DEF Literal, WellTyped
<1> QED
  BY <1>4, <1>5 DEF IInv

LEMMA BinaryStep ==
  ASSUME IInv, NEW opr \in {"add", "div", "bits", "eq", "less", "and"}, Binary(opr)
  PROVE  IInv'
<1> DEFINE l == Taken(2)[1]
           r == Taken(2)[2]
           res == ResolveBinary(opr, l, r)
           m == Node("op", res.type, NoText, <<BinaryMade(opr, l, r)>>)
<1>1. 2 <= Len(stack) /\ WellTyped /\ StackOK
  BY DEF Binary, HasTaken, IInv
<1>2. NodeOK(l) /\ NodeOK(r)
  BY <1>1, TakenGood DEF ArgsOK
<1>3. Judge(res.ok, BinaryBad(opr, l, r), BinaryGaps(opr, l, r), Push(2, m))
  BY DEF Binary, BinaryBad, BinaryMade, Both
<1>4. res.ok /\ BinaryGaps(opr, l, r) = {} => BinaryBad(opr, l, r) = {} /\ NodeOK(m)
  BY <1>2, BinaryRight
<1>5. res.ok /\ BinaryGaps(opr, l, r) = {} /\ Push(2, m) => StackOK' /\ ChainOK'
  BY <1>1, <1>4, PushGood
<1> HIDE DEF m, res, l, r
<1> QED
  BY <1>1, <1>3, <1>4, <1>5, JudgeStep DEF IInv

LEMMA ConvertStep ==
  ASSUME IInv, NEW t \in Casts, Convert(t)
  PROVE  IInv'
<1> DEFINE n == Top(stack)
           ok == ResolveConvert(n, t).ok
<1>1. NodeOK(n) /\ Len(stack) >= 1 /\ WellTyped /\ StackOK /\ IsType(t) /\ ~t.ref
  BY StackTop, CastTypes DEF Convert, HasTaken, IInv, StackOK
<1>2. CASE Folds(n, t)
  <2> DEFINE m == Node("convert", t, n.text, << >>)
             bad == Refused("value", Fits(Number(n.text, t), Llvm(t)))
  <2>1. Judge(ok, bad, ConvertGaps(n, t), Push(1, m))
    BY <1>2 DEF Convert
  <2>2. ConvertGaps(n, t) = {} => bad = {} /\ NodeOK(m)
    BY <1>1, <1>2, FoldRight
  <2>3. ConvertGaps(n, t) = {} /\ Push(1, m) => StackOK' /\ ChainOK'
    BY <1>1, <2>2, PushGood
  <2> HIDE DEF m, ok, bad
  <2> QED
    BY <1>1, <2>1, <2>2, <2>3, JudgeStep DEF IInv
<1>3. CASE ~Folds(n, t)
  <2> DEFINE m == Node("convert", t, NoText, <<Claimed(t)>>)
             bad == EmitValueOf(n) \cup EmitConvert(ValueOf(n), t)
  <2>1. Judge(ok, bad, ConvertGaps(n, t), Push(1, m))
    BY <1>3 DEF Convert
  <2>2. ok /\ ConvertGaps(n, t) = {} => bad = {} /\ NodeOK(m)
    BY <1>1, ConvertRight
  <2>3. ok /\ ConvertGaps(n, t) = {} /\ Push(1, m) => StackOK' /\ ChainOK'
    BY <1>1, <2>2, PushGood
  <2> HIDE DEF m, ok, bad
  <2> QED
    BY <1>1, <2>1, <2>2, <2>3, JudgeStep DEF IInv
<1> QED
  BY <1>2, <1>3

LEMMA ArrayStep ==
  ASSUME IInv, NEW k \in 1..2, Array(k)
  PROVE  IInv'
<1> DEFINE args == Taken(k)
           res == ResolveArray(args)
           m == Node("literal", res.type, NoText, <<Claimed(res.type)>>)
<1>1. k \in Nat /\ k # 0 /\ k <= Len(stack) /\ WellTyped /\ StackOK
  BY DEF Array, HasTaken, IInv
<1>2. DOMAIN args = 1..k /\ \A i \in 1..k : NodeOK(args[i])
  BY <1>1, TakenGood DEF ArgsOK
<1>3. Judge(res.ok, ArrayBad(args), ArrayGaps(args), Push(k, m))
  BY DEF Array, ArrayBad
<1>4. res.ok /\ ArrayGaps(args) = {} => ArrayBad(args) = {} /\ NodeOK(m)
  BY <1>1, <1>2, ArrayRight
<1>5. res.ok /\ ArrayGaps(args) = {} /\ Push(k, m) => StackOK' /\ ChainOK'
  BY <1>1, <1>4, PushGood
<1> HIDE DEF m, res, args
<1> QED
  BY <1>1, <1>3, <1>4, <1>5, JudgeStep DEF IInv

\* A chain just begun.
Cleared(t) == [t EXCEPT !.const = FALSE]
Started(link, value) ==
  [NoChain EXCEPT !.head = Cleared(link.type),
                  !.link = link, !.vals = <<value>>, !.last = "id"]

LEMMA StartedFields ==
  ASSUME NEW link, NEW value
  PROVE  /\ IsChain(Started(link, value)) /\ Started(link, value).head = Cleared(link.type)
         /\ Started(link, value).link = link /\ Started(link, value).vals = <<value>>
<1>1. ASSUME NEW d, d = Started(link, value)
      PROVE  IsChain(d) /\ d.head = Cleared(link.type) /\ d.link = link /\ d.vals = <<value>>
  BY <1>1 DEF IsChain, Started, NoChain
<1> QED
  BY <1>1

LEMMA PlainHead ==
  ASSUME NEW s \in SymbolNames
  PROVE  Cleared(Type(s, 0)) = Type(s, 0)
<1> DEFINE t == Type(s, 0)
<1>1. t \in TypeRecords /\ t.const = FALSE
  BY DEF Type, TypeRecords, Bases
<1> HIDE DEF t
<1>2. /\ Cleared(t) \in TypeRecords /\ Cleared(t).base = t.base /\ Cleared(t).ptr = t.ptr
      /\ Cleared(t).ref = t.ref /\ Cleared(t).arr = t.arr /\ Cleared(t).const = FALSE
  BY <1>1 DEF Cleared, TypeRecords
<1>3. Cleared(t) = t
  BY <1>1, <1>2, SameRecord
<1> QED
  BY <1>3 DEF t

LEMMA LocalChain ==
  ASSUME NEW x \in DOMAIN Locals
  PROVE  GoodChain(Started(Link(Locals[x]), Slot(Locals[x])))
<1> DEFINE t == Locals[x]
           d == Started(Link(t), Slot(t))
<1>1. IsType(t) /\ ~IsVoid(t)
  BY ProgramAssumption DEF Declared
<1>2. IsChain(d) /\ d.link = Link(t) /\ d.vals = <<Slot(t)>>
  BY ONLY StartedFields
<1>3. Place(Slot(t), t)
  BY <1>1, SlotIsPlace
<1>4. Held(Slot(t), t)
  BY <1>1, <1>3 DEF Held
<1> HIDE DEF d, t
<1> QED
  BY <1>1, <1>2, <1>3, <1>4, MadeValueChain DEF d, t

LEMMA NamedChain ==
  ASSUME NEW s \in SymbolNames
  PROVE  GoodChain(Started(GlobalLink(Type(s, 0)), Symbol(SymbolKind(Type(s, 0)), Type(s, 0))))
<1> DEFINE t == Type(s, 0)
           v == Symbol(SymbolKind(t), t)
           d == Started(GlobalLink(t), v)
<1>1. SymbolLink(GlobalLink(t)) /\ GlobalLink(t).type = t
  BY GlobalLinkFields
<1>2. IsChain(d) /\ d.head = Cleared(GlobalLink(t).type) /\ d.link = GlobalLink(t)
      /\ d.vals = <<v>>
  BY StartedFields
<1>3. d.head = t
  BY <1>1, <1>2, PlainHead
<1> HIDE DEF d
<1>4. SymbolChain(d)
  BY <1>1, <1>2, <1>3 DEF SymbolChain
<1> QED
  BY <1>2, <1>4 DEF GoodChain, d

LEMMA FunctionChain ==
  ASSUME NEW f \in DOMAIN Funcs, f[1] = Module
  PROVE  GoodChain(Started(FuncLink(Module, f[2]), Symbol("func", Type(Module, 0))))
<1> DEFINE l == FuncLink(Module, f[2])
           v == Symbol("func", Type(Module, 0))
           d == Started(l, v)
<1>1. <<Module, f[2]>> = f /\ Funcs[f].kind = "func"
  BY ProgramAssumption
<1>2. IsChain(d) /\ d.link = l /\ d.vals = <<v>>
  BY StartedFields
<1>4. <<Module, f[2]>> \in DOMAIN Funcs /\ Funcs[<<Module, f[2]>>].kind # "method"
  BY <1>1
<1>5. d.link = FuncLink(Module, f[2]) /\ d.vals = <<Symbol("func", Type(Module, 0))>>
  BY <1>2
<1> HIDE DEF d
<1> QED
  BY <1>2, <1>4, <1>5, MadeStaticChain DEF d

LEMMA CallIdStep ==
  ASSUME IInv, CallId
  PROVE  IInv'
<1>1. stack' = stack /\ wrong' = wrong /\ gaps' = gaps
  BY DEF CallId
<1>2. GoodChain(chain')
  <2>1. CASE \E x \in DOMAIN Locals : Start(Link(Locals[x]), Slot(Locals[x]))
    <3>1. PICK x \in DOMAIN Locals : Start(Link(Locals[x]), Slot(Locals[x]))
      BY <2>1
    <3>2. chain' = Started(Link(Locals[x]), Slot(Locals[x]))
      BY <3>1 DEF Start, Started, Cleared
    <3> QED
      BY <3>2, LocalChain
  <2>2. CASE \E s \in SymbolNames :
               Start(GlobalLink(Type(s, 0)), Symbol(SymbolKind(Type(s, 0)), Type(s, 0)))
    <3>1. PICK s \in SymbolNames :
                 Start(GlobalLink(Type(s, 0)), Symbol(SymbolKind(Type(s, 0)), Type(s, 0)))
      BY <2>2
    <3>2. chain' = Started(GlobalLink(Type(s, 0)), Symbol(SymbolKind(Type(s, 0)), Type(s, 0)))
      BY <3>1 DEF Start, Started, Cleared
    <3> QED
      BY <3>2, NamedChain
  <2>3. CASE \E f \in DOMAIN Funcs :
               f[1] = Module /\ Start(FuncLink(Module, f[2]), Symbol("func", Type(Module, 0)))
    <3>1. PICK f \in DOMAIN Funcs :
                 f[1] = Module /\ Start(FuncLink(Module, f[2]), Symbol("func", Type(Module, 0)))
      BY <2>3
    <3>2. chain' = Started(FuncLink(Module, f[2]), Symbol("func", Type(Module, 0)))
      BY <3>1 DEF Start, Started, Cleared
    <3> QED
      BY <3>1, <3>2, FunctionChain
  <2> QED
    BY <2>1, <2>2, <2>3 DEF CallId
<1> QED
  BY <1>1, <1>2 DEF IInv, StackOK, ChainOK, WellTyped

\* What a link of a call chain keeps.
LEMMA ExtendGood ==
  ASSUME StackOK, NEW k \in Nat, k <= Len(stack), NEW STATE d, GoodChain(d),
         stack' = Below(stack, k), chain' = d
  PROVE  StackOK' /\ ChainOK'
<1>1. GoodStack(Below(stack, k))
  BY StackParts DEF StackOK
<1> QED
  BY <1>1 DEF StackOK, ChainOK

LEMMA ChainingParts ==
  ASSUME IInv, NEW k \in Nat, Chaining(k)
  PROVE  GoodChain(chain) /\ chain # NoChain /\ k <= Len(stack) /\ StackOK /\ WellTyped
  BY DEF IInv, ChainOK, Chaining

LEMMA GetFieldStep ==
  ASSUME IInv, NEW name, GetField(name)
  PROVE  IInv'
<1> DEFINE c == chain.link
           res == ResolveGetField(c, name)
           p == DeReference(Top(chain.vals))
           d == Extended(chain, res.link, Member(res, p), "field")
           ok == ~IsFunction(c) /\ res.ok
           bad == EmitDeReference(Top(chain.vals)) \cup EmitMember(res, p)
           good == Extend(0, res.link, Member(res, p), "field")
<1>1. GoodChain(chain) /\ chain # NoChain /\ 0 <= Len(stack) /\ StackOK /\ WellTyped
  BY ChainingParts DEF GetField
<1>2. CASE ~IsFunction(c) /\ ~IsPointer(c.type) /\ NoEntry(c)
  <2>1. Judge(TRUE, {"uncaught exception"}, {"field of nothing"}, FALSE)
    BY <1>2 DEF GetField
  <2> QED
    BY <1>1, <2>1, JudgeStep DEF IInv
<1>3. CASE ~(~IsFunction(c) /\ ~IsPointer(c.type) /\ NoEntry(c))
  <2>1. Judge(ok, bad, {}, good)
    BY <1>3 DEF GetField
  <2>2. ok => bad = {} /\ GoodChain(d)
    BY <1>1, GetFieldRight
  <2>3. good => stack' = Below(stack, 0) /\ chain' = d
    BY DEF Extend, Extended
  <2> HIDE DEF d, bad, good, ok
  <2>4. ok /\ good => StackOK' /\ ChainOK'
    BY <1>1, <2>2, <2>3, ExtendGood
  <2> QED
    BY <1>1, <2>1, <2>2, <2>4, JudgeStep DEF IInv
<1> QED
  BY <1>2, <1>3

LEMMA PtrGetFieldStep ==
  ASSUME IInv, NEW name, PtrGetField(name)
  PROVE  IInv'
<1> DEFINE c == chain.link
           res == ResolvePtrGetField(c, name)
           p == DeReference(Top(chain.vals))
           d == Extended(chain, res.link, Member(res, Pointed(p)), "field")
           ok == ~IsFunction(c) /\ res.ok
           bad == EmitDeReference(Top(chain.vals)) \cup EmitPointed(p) \cup EmitMember(res, Pointed(p))
           known == ArrowGaps(p)
           good == Extend(0, res.link, Member(res, Pointed(p)), "field")
<1>1. GoodChain(chain) /\ chain # NoChain /\ 0 <= Len(stack) /\ StackOK /\ WellTyped
  BY ChainingParts DEF PtrGetField
<1>2. CASE ~IsFunction(c) /\ c.type.ptr = 1 /\ NoEntry(c)
  <2>1. Judge(TRUE, {"uncaught exception"}, {"field of nothing"}, FALSE)
    BY <1>2 DEF PtrGetField
  <2> QED
    BY <1>1, <2>1, JudgeStep DEF IInv
<1>3. CASE ~(~IsFunction(c) /\ c.type.ptr = 1 /\ NoEntry(c))
  <2>1. Judge(ok, bad, known, good)
    BY <1>3 DEF PtrGetField
  <2>2. ok /\ known = {} => bad = {} /\ GoodChain(d)
    BY <1>1, PtrGetFieldRight
  <2>3. good => stack' = Below(stack, 0) /\ chain' = d
    BY DEF Extend, Extended
  <2> HIDE DEF d, bad, good, ok, known
  <2>4. ok /\ known = {} /\ good => StackOK' /\ ChainOK'
    BY <1>1, <2>2, <2>3, ExtendGood
  <2> QED
    BY <1>1, <2>1, <2>2, <2>4, JudgeStep DEF IInv
<1> QED
  BY <1>2, <1>3

LEMMA CallPathStep ==
  ASSUME IInv, NEW name, CallPath(name)
  PROVE  IInv'
<1> DEFINE c == chain.link
           res == ResolveCallPath(c, name)
           symbol == Top(chain.vals)
           d == Extended(chain, res.link, <<PathMade(symbol, res.link.type)>>, "path")
           ok == ~IsFunction(c) /\ res.ok
           bad == Refused("path", symbol.kind # "func")
           known == PathGaps(c)
           good == Extend(0, res.link, <<PathMade(symbol, res.link.type)>>, "path")
<1>1. GoodChain(chain) /\ chain # NoChain /\ 0 <= Len(stack) /\ StackOK /\ WellTyped
  BY ChainingParts DEF CallPath
<1>2. Judge(ok, bad, known, good)
  BY DEF CallPath, PathMade
<1>3. ok /\ known = {} => bad = {} /\ GoodChain(d)
  BY <1>1, CallPathRight
<1>4. good => stack' = Below(stack, 0) /\ chain' = d
  BY DEF Extend, Extended
<1> HIDE DEF d, bad, good, ok, known
<1>5. ok /\ known = {} /\ good => StackOK' /\ ChainOK'
  BY <1>1, <1>3, <1>4, ExtendGood
<1> QED
  BY <1>1, <1>2, <1>3, <1>5, JudgeStep DEF IInv

LEMMA CallArgsStep ==
  ASSUME IInv, NEW k \in 0..2, CallArgs(k)
  PROVE  IInv'
<1> DEFINE c == chain.link
           args == Taken(k)
           res == ResolveCallFuncArgs(c, chain.head, args)
           d == Called(chain, res.link, "args", c.tag, CallMade(chain, res.link.type))
           bad == CallBad(chain, args, k)
           known == ArgsGaps(c, args)
           good == /\ stack' = Below(stack, k) /\ status' = "ready"
                   /\ chain' = d
<1>1. k \in Nat /\ GoodChain(chain) /\ chain # NoChain /\ k <= Len(stack) /\ StackOK /\ WellTyped
  BY ChainingParts DEF CallArgs
<1>2. ArgsOK(args, k)
  BY <1>1, TakenGood
<1>3. Judge(res.ok, bad, known, good)
  BY DEF CallArgs, CallBad, FunctionBad, MemberBad, CallMade, SelfOf, SelfArgs, ArgNode, PlainArgs, Called
<1>4. res.ok /\ known = {} => bad = {} /\ GoodChain(d)
  BY <1>1, <1>2, CallArgsRight
<1> HIDE DEF d, bad, known, args, res
<1>5. res.ok /\ known = {} /\ good => StackOK' /\ ChainOK'
  BY <1>1, <1>4, ExtendGood
<1> QED
  BY <1>1, <1>3, <1>4, <1>5, JudgeStep DEF IInv

LEMMA CallIndexStep ==
  ASSUME IInv, CallIndex
  PROVE  IInv'
<1> DEFINE c == chain.link
           n == Top(stack)
           res == ResolveCallIndex(c, n)
           p == DeReference(Top(chain.vals))
           d == Extended(chain, res.link, <<IndexedAt(res.link.type, p)>>, "index")
           ok == ~IsFunction(c) /\ res.ok
           bad == EmitDeReference(Top(chain.vals)) \cup EmitValueOf(n)
                  \cup EmitIndex(p, ValueOf(n)) \cup EmitClaim(IndexedAt(res.link.type, p))
           known == IndexGaps(c, p)
           good == Extend(1, res.link, <<IndexedAt(res.link.type, p)>>, "index")
<1>1. GoodChain(chain) /\ chain # NoChain /\ 1 <= Len(stack) /\ StackOK /\ WellTyped
  BY ChainingParts DEF CallIndex
<1>2. NodeOK(n)
  BY <1>1, StackTop DEF StackOK
<1>3. Judge(ok, bad, known, good)
  BY DEF CallIndex
<1>4. ok /\ known = {} => bad = {} /\ GoodChain(d)
  BY <1>1, <1>2, CallIndexRight
<1>5. good => stack' = Below(stack, 1) /\ chain' = d
  BY DEF Extend, Extended
<1> HIDE DEF d, bad, good, ok, known
<1>6. ok /\ known = {} /\ good => StackOK' /\ ChainOK'
  BY <1>1, <1>4, <1>5, ExtendGood
<1> QED
  BY <1>1, <1>3, <1>4, <1>6, JudgeStep DEF IInv

LEMMA InitNames ==
  ASSUME NEW names \in Inits
  PROVE  Len(names) \in Nat /\ DOMAIN names = 1..Len(names) /\ (Len(names) = 0 <=> names = << >>)
<1>1. CASE names = << >>
  BY <1>1
<1>2. CASE \E f \in FieldNames : names = <<f>>
  BY <1>2
<1>3. CASE \E f, g \in FieldNames : names = <<f, g>>
  BY <1>3
<1> QED
  BY <1>1, <1>2, <1>3 DEF Inits

LEMMA InitializerStep ==
  ASSUME IInv, NEW names \in Inits, Initializer(names)
  PROVE  IInv'
<1> DEFINE c == chain.link
           k == Len(names)
           values == Taken(k)
           res == ResolveInitializer(c, chain.head, names, values)
           d == Initialized(chain, res.link, <<Fresh(res.link.type)>>, "init")
           bad == InitBad(chain, names, values, k)
           known == InitGaps(c.type, names, values)
           good == /\ stack' = Below(stack, k) /\ status' = "ready"
                   /\ chain' = d
<1>1. k \in Nat /\ DOMAIN names = 1..k /\ (k = 0 <=> names = << >>)
  BY InitNames
<1>2. GoodChain(chain) /\ chain # NoChain /\ k <= Len(stack) /\ StackOK /\ WellTyped
  BY <1>1, ChainingParts DEF Initializer
<1>3. ArgsOK(values, k)
  BY <1>1, <1>2, TakenGood
<1>4. Judge(res.ok, bad, known, good)
  BY DEF Initializer, InitBad, Initialized
<1>5. res.ok /\ known = {} => bad = {} /\ GoodChain(d)
  BY <1>1, <1>2, <1>3, InitializerRight
<1> HIDE DEF d, bad, known, values, res, k
<1>6. res.ok /\ known = {} /\ good => StackOK' /\ ChainOK'
  BY <1>1, <1>2, <1>5, ExtendGood
<1> QED
  BY <1>2, <1>4, <1>5, <1>6, JudgeStep DEF IInv

LEMMA EndCallStep ==
  ASSUME IInv, EndCall
  PROVE  IInv'
<1> DEFINE c == chain.link
           ok == ~IsFunction(c) /\ ~c.global
           bad == EmitDeReference(Top(chain.vals))
           n == CallMadeNode(chain)
<1>1. GoodChain(chain) /\ chain # NoChain /\ 0 <= Len(stack) /\ StackOK /\ WellTyped
  BY ChainingParts DEF EndCall
<1>2. Judge(ok, bad, {}, Push(0, n))
  BY DEF EndCall, CallMadeNode, Placed
<1>3. ok => bad = {} /\ NodeOK(n)
  BY <1>1, EndCallRight
<1> HIDE DEF ok, bad, n
<1>4. ok /\ Push(0, n) => StackOK' /\ ChainOK'
  BY <1>1, <1>3, PushGood
<1> QED
  BY <1>1, <1>2, <1>3, <1>4, JudgeStep DEF IInv

\* The expression a statement takes is the only one there is.
LEMMA OnlyGood ==
  ASSUME IInv, NEW n, Only(n)
  PROVE  NodeOK(n) /\ WellTyped /\ StackOK
<1>1. stack = <<n>> /\ GoodStack(stack) /\ WellTyped /\ StackOK
  BY DEF Only, IInv, StackOK
<1>2. Len(stack) = 1 /\ Top(stack) = n
  BY <1>1 DEF Top
<1>3. NodeOK(Top(stack))
  BY <1>1, <1>2, StackTop
<1> QED
  BY <1>1, <1>2, <1>3

LEMMA AssignStep ==
  ASSUME IInv, NEW opr \in {"eq", "add", "div", "bits"}, Assign(opr)
  PROVE  IInv'
<1> DEFINE l == Taken(2)[1]
           r == Taken(2)[2]
           ok == ResolveAssignment(opr, l, r).ok
           bad == AssignBad(opr, l, r)
           known == AssignGaps(opr, l, r)
           m == Node("assign", RestrictType, NoText, << >>)
<1>1. 2 <= Len(stack) /\ WellTyped /\ StackOK /\ l.kind = "call"
  BY DEF Assign, HasTaken, IInv
<1>2. NodeOK(l) /\ NodeOK(r)
  BY <1>1, TakenGood DEF ArgsOK
<1>3. Judge(ok, bad, known, Push(2, m))
  BY DEF Assign, AssignBad
<1>4. ok /\ known = {} => bad = {}
  BY <1>1, <1>2, AssignRight
<1>5. NodeOK(m)
  <2>1. IsNode(m) /\ m.kind = "assign" /\ m.type = RestrictType /\ m.text = NoText
    BY NodeRecord
  <2> QED
    BY <2>1 DEF NodeOK, AssignNode
<1> HIDE DEF m, ok, bad, known
<1>6. Push(2, m) => StackOK' /\ ChainOK'
  BY <1>1, <1>5, PushGood
<1> QED
  BY <1>1, <1>3, <1>4, <1>6, JudgeStep DEF IInv

LEMMA DefineInferredStep ==
  ASSUME IInv, DefineInferred
  PROVE  IInv'
<1>1. PICK n : /\ Only(n)
               /\ Judge(ResolveInferred(n).ok, Store(ResolveInferred(n).type, n),
                        DefineGaps(ResolveInferred(n).type, n), Done)
  BY DEF DefineInferred
<1> DEFINE ok == ResolveInferred(n).ok
           bad == Store(ResolveInferred(n).type, n)
           known == DefineGaps(ResolveInferred(n).type, n)
<1>2. NodeOK(n) /\ WellTyped
  BY <1>1, OnlyGood
<1>3. ResolveInferred(n).type = n.type
  BY DEF ResolveInferred, Checked
<1>4. ok /\ known = {} => bad = {}
  BY <1>2, <1>3, DefineInferredRight
<1>5. Judge(ok, bad, known, Done)
  BY <1>1
<1> HIDE DEF ok, bad, known
<1> QED
  BY <1>2, <1>4, <1>5, DoneGood, JudgeStep DEF IInv

LEMMA DefineDeclaredStep ==
  ASSUME IInv, NEW t \in Targets, DefineDeclared(t)
  PROVE  IInv'
<1>1. PICK n \in {stack[i] : i \in DOMAIN stack} \cup {EmptyList} :
        /\ Ready /\ stack = (IF n = EmptyList THEN << >> ELSE <<n>>)
        /\ Judge(ResolveDeclared(t, n).ok, Store(ResolveDeclared(t, n).type, DefinedNode(t, n)),
                 DefineGaps(ResolveDeclared(t, n).type, n), Done)
  BY DEF DefineDeclared, DefinedNode
<1> DEFINE ok == ResolveDeclared(t, n).ok
           bad == Store(ResolveDeclared(t, n).type, DefinedNode(t, n))
           known == DefineGaps(ResolveDeclared(t, n).type, n)
<1>2. WellTyped /\ IsType(t)
  BY ProgramAssumption DEF IInv
<1>3. NodeOK(n) \/ n = EmptyList
  <2>1. CASE n # EmptyList
    <3>1. Only(n)
      BY <1>1, <2>1 DEF Only
    <3> QED
      BY <3>1, OnlyGood
  <2> QED
    BY <2>1
<1>4. ok /\ known = {} => bad = {}
  BY <1>2, <1>3, DefineDeclaredRight
<1>5. Judge(ok, bad, known, Done)
  BY <1>1
<1> HIDE DEF ok, bad, known
<1> QED
  BY <1>2, <1>4, <1>5, DoneGood, JudgeStep DEF IInv

LEMMA ReturnStep ==
  ASSUME IInv, NEW t \in Returns, Return(t)
  PROVE  IInv'
<1>1. PICK n : /\ Only(n)
               /\ Judge(ResolveReturn(t, n).ok, ReturnBad(t, n), ReturnGaps(t, n), Done)
  BY DEF Return, ReturnBad
<1> DEFINE ok == ResolveReturn(t, n).ok
           bad == ReturnBad(t, n)
           known == ReturnGaps(t, n)
<1>2. NodeOK(n) /\ WellTyped /\ IsType(t)
  BY <1>1, OnlyGood, ProgramAssumption
<1>3. ok /\ known = {} => bad = {}
  BY <1>2, ReturnRight
<1>4. Judge(ok, bad, known, Done)
  BY <1>1
<1> HIDE DEF ok, bad, known
<1> QED
  BY <1>2, <1>3, <1>4, DoneGood, JudgeStep DEF IInv

LEMMA ConditionStep ==
  ASSUME IInv, Condition
  PROVE  IInv'
<1>1. PICK n : /\ Only(n)
               /\ Judge(ResolveCondition(n).ok,
                        EmitValueOf(n) \cup Refused("br", Fits(ValueOf(n), Llvm(Bool))), {}, Done)
  BY DEF Condition
<1> DEFINE ok == ResolveCondition(n).ok
           bad == EmitValueOf(n) \cup Refused("br", Fits(ValueOf(n), Llvm(Bool)))
<1>2. NodeOK(n) /\ WellTyped
  BY <1>1, OnlyGood
<1>3. ok => bad = {}
  BY <1>2, ConditionRight
<1>4. Judge(ok, bad, {}, Done)
  BY <1>1
<1> HIDE DEF ok, bad
<1> QED
  BY <1>2, <1>3, <1>4, DoneGood, JudgeStep DEF IInv

LEMMA StatementStep ==
  ASSUME IInv, Statement
  PROVE  IInv'
<1>1. PICK n : Only(n) /\ Judge(TRUE, EmitValueOf(n), ValueGaps(n), Done)
  BY DEF Statement
<1> DEFINE bad == EmitValueOf(n)
           known == ValueGaps(n)
<1>2. NodeOK(n) /\ WellTyped
  BY <1>1, OnlyGood
<1>3. known = {} => bad = {}
  BY <1>2, EmitsNothing
<1>4. Judge(TRUE, bad, known, Done)
  BY <1>1
<1> HIDE DEF bad, known
<1> QED
  BY <1>2, <1>3, <1>4, DoneGood, JudgeStep DEF IInv

-----------------------------------------------------------------------------
(***************************************************************************)
(* What the invariant says of the program.                                 *)
(***************************************************************************)
\* An array read where it is not leaves a value of its type all the same.
LEMMA ReadStands ==
  ASSUME NEW v, NEW t, IsType(t), ~t.ref, Place(v, t), v.type.arr
  PROVE  Stands(CallValue(v, FALSE), t)
<1> DEFINE p == v.type
           e == RefCopy(p)
<1>1. p \in TypeRecords /\ p.base = t.base /\ p.ptr = t.ptr + 1 /\ p.ref = FALSE /\ IsPointer(p)
  BY PlaceFields, TypeFields
<1>2. e \in TypeRecords /\ e.base = t.base /\ e.ptr = t.ptr /\ e.ref = FALSE
  BY <1>1, RefRecord, TypeRecord
<1>3. RefCopy(e).base = t.base /\ RefCopy(e).ptr = t.ptr - 1 /\ RefCopy(e).ref = FALSE
  BY <1>2, RefRecord
<1>4. Llvm(t) = Star(Llvm(RefCopy(e)))
  <2>1. t.ptr \in Int /\ t.ref = FALSE
    BY TypeFields
  <2>2. RefCopy(e).ptr \in Int /\ t.ptr = RefCopy(e).ptr + 1
    BY <1>3, <2>1
  <2> QED
    BY <1>3, <2>1, <2>2, LlvmStar
<1>5. CallValue(v, FALSE) = Variable(e, Llvm(t))
  BY <1>1, <1>4 DEF CallValue
<1> QED
  BY <1>2, <1>5, VariableStands

LEMMA NodeStands ==
  ASSUME NEW n, NodeOK(n), n.kind # "assign", ~IsVoid(n.type)
  PROVE  Stands(ValueOf(n), NoRef(n.type))
<1>1. CASE ValueGaps(n) = {}
  BY <1>1, ValueStands
<1>2. CASE ValueGaps(n) # {}
  <2> DEFINE v == n.vals[1]
             t == NoRef(n.type)
  <2>1. n.kind = "call" /\ v.type.arr
    BY <1>2 DEF ValueGaps, ReadAsArray, Gap
  <2>2. CallNode(n) /\ IsType(n.type)
    BY <2>1, NodeKinds, NodeType
  <2>3. Held(v, t) /\ n.text = NoText
    BY <2>2 DEF CallNode
  <2>4. IsType(t) /\ ~t.ref /\ ~IsVoid(t)
    BY <2>2, NoRefType, SamePredicates
  <2>5. Place(v, t)
    <3>1. CASE v = Flag(t) /\ t.base \in Enums /\ t.ptr = 0
      <4>1. v.type = t
        BY <3>1 DEF Flag, Value
      <4> QED
        BY <2>1, <2>4, <3>1, <4>1 DEF IsType, IsPointer
    <3> QED
      BY <2>3, <2>4, <3>1 DEF Held
  <2>6. ValueOf(n) = CallValue(v, FALSE)
    BY <2>1, <2>3 DEF ValueOf
  <2> HIDE DEF v, t
  <2>7. Stands(CallValue(v, FALSE), t)
    BY <2>1, <2>4, <2>5, ReadStands
  <2> QED
    BY <2>6, <2>7 DEF t
<1> QED
  BY <1>1, <1>2

LEMMA PlaceReal ==
  ASSUME NEW n, NodeOK(n), n.kind # "assign", n.place
  PROVE  n.vals[1].real \in {Star(Llvm(NoRef(n.type))), Star(FieldLlvm(NoRef(n.type)))}
<1> DEFINE v == n.vals[1]
           t == NoRef(n.type)
<1>1. CallNode(n)
  BY NodeFields, NodeKinds
<1>2. Place(v, t)
  BY <1>1 DEF CallNode
<1>3. CASE v.real = Star(Llvm(t))
  BY <1>3
<1>4. CASE v.type.arr /\ v.real = Star(LlvmArray(t))
  <2>1. t.arr
    BY <1>2, <1>4 DEF Place
  <2>2. FieldLlvm(t) = LlvmArray(t)
    BY <2>1 DEF FieldLlvm
  <2> HIDE DEF t
  <2> QED
    BY <1>4, <2>2 DEF t
<1> QED
  BY <1>2, <1>3, <1>4 DEF Place

\* A finished expression leaves what the analysis says it is.
LEMMA StackAsResolved ==
  ASSUME StackOK
  PROVE  ValueAsResolved
<1> SUFFICES ASSUME NEW i \in DOMAIN stack, NEW n, n = stack[i], n.kind # "assign", ~IsVoid(n.type),
                    NEW v, v = ValueOf(n)
             PROVE  /\ v.kind \in Printable /\ Same(v.type, n.own)
                    /\ v.kind = "variable" => v.real = Llvm(NoRef(NoArray(n.type)))
                    /\ n.place => n.vals[1].real \in {Star(Llvm(NoRef(n.type))), Star(FieldLlvm(NoRef(n.type)))}
  BY DEF ValueAsResolved
<1>1. NodeOK(n)
  BY DEF StackOK, GoodStack
<1>2. Stands(v, NoRef(n.type)) /\ IsType(n.type) /\ n.own = n.type
  BY <1>1, NodeStands, NodeType, NodeFields
<1>3. v.kind \in Printable /\ Same(v.type, NoRef(n.type)) /\ Fits(v, Llvm(NoRef(n.type)))
  BY <1>2 DEF Stands
<1>4. Same(v.type, n.own)
  BY <1>2, <1>3, NoRefType DEF Same
<1>5. v.kind = "variable" => v.real = Llvm(NoRef(n.type))
  BY <1>3 DEF Fits
<1>6. Llvm(NoRef(NoArray(n.type))) = Llvm(NoRef(n.type))
  <2> DEFINE t == n.type
             a == NoArray(t)
  <2>1. t \in TypeRecords
    BY <1>2, TypeRecord
  <2>2. a \in TypeRecords /\ a.base = t.base /\ a.ptr = t.ptr
    BY <2>1, NoArrayRecord
  <2>3. /\ NoRef(a).base = NoRef(t).base /\ NoRef(a).ptr = NoRef(t).ptr /\ NoRef(a).ref = NoRef(t).ref
    BY <2>1, <2>2, NoRefRecord
  <2> HIDE DEF a, t
  <2>4. Llvm(NoRef(a)) = Llvm(NoRef(t))
    BY <2>3, LlvmSame
  <2> QED
    BY <2>4 DEF a, t
<1>7. n.place => n.vals[1].real \in {Star(Llvm(NoRef(n.type))), Star(FieldLlvm(NoRef(n.type)))}
  BY <1>1, PlaceReal
<1> QED
  BY <1>3, <1>4, <1>5, <1>6, <1>7

\* A chain at which the passes agree.
Agreed(c) ==
  LET v == Top(c.vals)
      l == c.link
  IN  /\ (IsFunction(l) \/ l.tag) <=> v.kind \in {"func", "method"}
      /\ (l.global /\ ~IsFunction(l) /\ ~l.tag) => v.kind \in {"basic", "struct", "union", "enum"}
      /\ ~l.global => v.kind \in Printable \/ IsVoid(l.type)
      /\ IsFunction(l) => /\ v.kind = "method" <=> Funcs[l.func].kind = "method"
                          /\ v.type.base = l.func[1]
      /\ v.kind = "method" => Receiver(c.vals).real = Llvm(RefType(l.func[1], 0))

LEMMA ValueAgreed ==
  ASSUME NEW c, ValueChain(c)
  PROVE  Agreed(c)
<1> DEFINE v == Top(c.vals)
           t == c.link.type
<1>1. Held(v, t) /\ IsType(t) /\ ~c.link.global /\ ~c.link.tag /\ ~IsFunction(c.link)
  BY ValueChainFields DEF ValueChain, ValueLink, IsFunction
<1>2. v.kind \in {"variable", "int"} \/ (v.kind = "none" /\ IsVoid(t))
  <2>1. CASE Place(v, t)
    BY <1>1, <2>1, PlaceFields
  <2>2. CASE v = Flag(t)
    BY <2>2, ValueFields DEF Flag
  <2>3. CASE v = Symbol("none", t) /\ IsVoid(t)
    BY <2>3, ValueFields DEF Symbol
  <2> QED
    BY <1>1, <2>1, <2>2, <2>3 DEF Held
<1> QED
  BY <1>1, <1>2 DEF Agreed, Printable

LEMMA SymbolAgreed ==
  ASSUME NEW c, SymbolChain(c)
  PROVE  Agreed(c)
<1>1. PICK s \in SymbolNames : /\ SymbolLink(c.link)
                               /\ c.vals = <<Symbol(SymbolKind(Type(s, 0)), Type(s, 0))>>
  BY DEF SymbolChain
<1> DEFINE v == Symbol(SymbolKind(Type(s, 0)), Type(s, 0))
<1>2. Top(c.vals) = v
  BY <1>1, OneValue
<1>3. v.kind = SymbolKind(Type(s, 0))
  BY ValueFields DEF Symbol
<1>4. SymbolKind(Type(s, 0)) \in {"basic", "struct", "union", "enum"}
  <2> DEFINE t == Type(s, 0)
  <2>1. t.base = s
    BY PlainTypes
  <2> HIDE DEF t
  <2>2. t.base \in Primitives \cup Enums \cup Structs \cup Unions
    BY <2>1 DEF SymbolNames
  <2>3. SymbolKind(t) \in {"basic", "struct", "union", "enum"}
    BY <2>2, NamesApart DEF SymbolKind
  <2> QED
    BY <2>3 DEF t
<1>5. v.kind \in {"basic", "struct", "union", "enum"}
  BY <1>3, <1>4
<1> HIDE DEF v
<1> QED
  BY <1>1, <1>2, <1>5 DEF Agreed, SymbolLink, IsFunction

LEMMA TagAgreed ==
  ASSUME NEW c, TagChain(c)
  PROVE  Agreed(c)
<1> DEFINE v == Symbol("func", c.link.type)
<1>1. Top(c.vals) = v
  BY OneValue DEF TagChain
<1>2. v.kind = "func"
  BY ValueFields DEF Symbol
<1> HIDE DEF v
<1> QED
  BY <1>1, <1>2 DEF Agreed, TagChain, TagLink, IsFunction

LEMMA FuncAgreed ==
  ASSUME NEW c, FuncChain(c)
  PROVE  Agreed(c)
<1>1. PICK f \in DOMAIN Funcs :
        /\ c.link.func = f /\ c.link.global /\ ~c.link.tag
        /\ IF Funcs[f].kind = "method"
           THEN /\ c.vals = <<c.vals[1], Symbol("method", Type(f[1], 0))>>
                /\ c.vals[1] = Variable(c.vals[1].type, Llvm(RefType(f[1], 0)))
           ELSE c.vals = <<Symbol("func", Type(f[1], 0))>>
  BY DEF FuncChain
<1>2. IsFunction(c.link)
  BY <1>1, ProgramAssumption DEF IsFunction
<1>0. Type(f[1], 0).base = f[1]
  BY PlainTypes
<1>3. CASE Funcs[f].kind = "method"
  <2> DEFINE v == Symbol("method", Type(f[1], 0))
             o == c.vals[1]
  <2>1. /\ v.kind = "method" /\ v.type = Type(f[1], 0)
        /\ o.real = Llvm(RefType(f[1], 0))
    BY <1>1, <1>3, ValueFields, VariableFields DEF Symbol
  <2>2. c.vals = <<o, v>>
    BY <1>1, <1>3
  <2> HIDE DEF v, o
  <2>3. Len(c.vals) = 2 /\ c.vals[2] = v /\ c.vals[2 - 1] = o
    BY <2>2
  <2>4. Top(c.vals) = v /\ Receiver(c.vals) = o
    BY <2>3 DEF Top, Receiver
  <2>5. v.type.base = f[1]
    BY <1>0, <2>1
  <2> QED
    BY <1>1, <1>2, <1>3, <2>1, <2>4, <2>5 DEF Agreed
<1>4. CASE Funcs[f].kind # "method"
  <2> DEFINE v == Symbol("func", Type(f[1], 0))
  <2>1. v.kind = "func" /\ v.type = Type(f[1], 0)
    BY ValueFields DEF Symbol
  <2>2. Top(c.vals) = v
    BY <1>1, <1>4, OneValue
  <2> HIDE DEF v
  <2>3. v.type.base = f[1]
    BY <1>0, <2>1
  <2> QED
    BY <1>1, <1>2, <1>4, <2>1, <2>2, <2>3 DEF Agreed
<1> QED
  BY <1>3, <1>4

LEMMA ChainAgreed ==
  ASSUME ChainOK
  PROVE  PassesAgree
<1>1. chain # NoChain => Agreed(chain)
  BY ValueAgreed, SymbolAgreed, TagAgreed, FuncAgreed DEF ChainOK, GoodChain
<1> QED
  BY <1>1 DEF PassesAgree, Agreed

\* The invariant holds at first, and every step keeps it.
LEMMA InitGood ==
  ASSUME Init
  PROVE  IInv
<1>1. stack = << >> /\ chain = NoChain /\ wrong = {}
  BY DEF Init
<1>2. GoodStack(stack)
  BY <1>1, EmptyStack
<1> QED
  BY <1>1, <1>2 DEF IInv, StackOK, ChainOK, GoodChain, WellTyped

LEMMA StepGood ==
  ASSUME IInv, [Next]_vars
  PROVE  IInv'
<1>1. CASE UNCHANGED vars
  BY <1>1 DEF IInv, StackOK, ChainOK, WellTyped, vars
<1>2. CASE Literal
  BY <1>2, LiteralStep
<1>3. CASE CallId
  BY <1>3, CallIdStep
<1>4. CASE EndCall
  BY <1>4, EndCallStep
<1>5. CASE CallIndex
  BY <1>5, CallIndexStep
<1>6. ASSUME NEW opr \in {"neg", "bnot", "lnot"}, Unary(opr) PROVE IInv'
  BY <1>6, UnaryStep
<1>7. ASSUME NEW opr \in {"add", "div", "bits", "eq", "less", "and"}, Binary(opr) PROVE IInv'
  BY <1>7, BinaryStep
<1>8. ASSUME NEW t \in Casts, Convert(t) PROVE IInv'
  BY <1>8, ConvertStep
<1>9. ASSUME NEW t \in Targets, DefineDeclared(t) PROVE IInv'
  BY <1>9, DefineDeclaredStep
<1>10. ASSUME NEW k \in 1..2, Array(k) PROVE IInv'
  BY <1>10, ArrayStep
<1>11. ASSUME NEW name, GetField(name) PROVE IInv'
  BY <1>11, GetFieldStep
<1>12. ASSUME NEW name, PtrGetField(name) PROVE IInv'
  BY <1>12, PtrGetFieldStep
<1>13. ASSUME NEW name, CallPath(name) PROVE IInv'
  BY <1>13, CallPathStep
<1>14. ASSUME NEW k \in 0..2, CallArgs(k) PROVE IInv'
  BY <1>14, CallArgsStep
<1>15. ASSUME NEW names \in Inits, Initializer(names) PROVE IInv'
  BY <1>15, InitializerStep
<1>16. ASSUME NEW opr \in {"eq", "add", "div", "bits"}, Assign(opr) PROVE IInv'
  BY <1>16, AssignStep
<1>17. CASE DefineInferred
  BY <1>17, DefineInferredStep
<1>18. CASE Condition
  BY <1>18, ConditionStep
<1>19. CASE Statement
  BY <1>19, StatementStep
<1>20. ASSUME NEW t \in Returns, Return(t) PROVE IInv'
  BY <1>20, ReturnStep
<1> QED
  BY <1>1, <1>2, <1>3, <1>4, <1>5, <1>6, <1>7, <1>8, <1>9, <1>10, <1>11, <1>12, <1>13, <1>14,
     <1>15, <1>16, <1>17, <1>18, <1>19, <1>20 DEF Next

\* Every finished expression and every call chain is good, whatever the program is.
THEOREM ExpressionsAreGood == Spec => []IInv
  BY InitGood, StepGood, PTL DEF Spec

\* What the analysis accepts (semantic.cpp) gets only instructions of the right types
\* from ast2mir.cpp and mir2sir.cpp, except at the gaps named in ExprGaps.
THEOREM AcceptedIsWellTyped == Spec => []WellTyped
<1>1. IInv => WellTyped
  BY DEF IInv
<1> QED
  BY <1>1, ExpressionsAreGood, PTL

\* The value mir2sir.cpp leaves for an expression has the type resolve_expression
\* returned for it, and a call that may be assigned to leaves the address of one.
THEOREM ValuesAsResolved == Spec => []ValueAsResolved
<1>1. IInv => ValueAsResolved
  BY StackAsResolved DEF IInv
<1> QED
  BY <1>1, ExpressionsAreGood, PTL

\* At every link of a call chain the analysis and mir2sir.cpp see the same kind of
\* thing: a value, a symbol, or a function of the owner the analysis found it in,
\* with the address of an object of that owner below it when it is a method.
THEOREM PassesAgreeOnChains == Spec => []PassesAgree
<1>1. IInv => PassesAgree
  BY ChainAgreed DEF IInv
<1> QED
  BY <1>1, ExpressionsAreGood, PTL
=============================================================================
