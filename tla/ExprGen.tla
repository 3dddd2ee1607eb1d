------------------------------- MODULE ExprGen -------------------------------
(***************************************************************************)
(* What mir2sir.cpp does for expressions: the values its visitors leave on *)
(* value_stack and the instructions they emit.  A value has the type the   *)
(* generator notes for it (resolve_type); real is the type LLVM gives the  *)
(* register it names.  The text of an instruction is printed with the      *)
(* noted types, so an instruction is right when the two agree: each        *)
(* operator Emit... names the wrong instructions.  LLVM refuses them, or,  *)
(* where only pointers differ, they take memory for something it is not;   *)
(* and a division of signed operands as unsigned ones is wrong too.        *)
(***************************************************************************)
EXTENDS Types

\* mir_value_t.  A number is text, with a decimal point or without.
NoLlvm == [base |-> "none", ptr |-> 0, in |-> "value"]
Value(kind, t, real) == [kind |-> kind, type |-> t, real |-> real]
Variable(t, real) == Value("variable", t, real)
Claimed(t) == Variable(t, Llvm(t))
NilValue(t) == Value("nil", t, NoLlvm)
Symbol(kind, t) == Value(kind, t, NoLlvm)

\* visit_mir_number writes ".0" behind a whole number of another type.
Number(text, t) == Value(IF text = "int" /\ ~IsInteger(t) THEN "float" ELSE text, t, NoLlvm)
Flag(t) == Value("int", t, NoLlvm)

Printable == {"variable", "int", "float", "nil"}

\* Whether a value may stand where LLVM expects the type l.
Fits(v, l) ==
  CASE v.kind = "variable" -> v.real = l
    [] v.kind = "int" -> IsLlvmInt(l)
    [] v.kind = "float" -> IsLlvmFloat(l)
    [] v.kind = "nil" -> IsLlvmPointer(l)
    [] OTHER -> FALSE

Refused(inst, correct) == IF correct THEN {} ELSE {inst}

\* sir_store of the value v as the type t to the address p.
EmitStore(t, v, p) ==
  Refused("store", Fits(v, Llvm(t)) /\ p.kind = "variable" /\ p.real = Star(Llvm(t)))

\* sir_load of the type t from the address p, and what it yields.
EmitLoad(t, p) == Refused("load", p.kind = "variable" /\ p.real = Star(Llvm(t)))
Loaded(t) == Claimed(t)

\* A value whose register has another type than the one noted for it.
EmitClaim(v) == Refused("value", v.kind = "variable" => v.real = Llvm(v.type))
-----------------------------------------------------------------------------
(***************************************************************************)
(* Calls.  An expression that names a place leaves its address; every      *)
(* visitor of a call chain first follows a reference.                      *)
(***************************************************************************)
\* Mutant: a reference is not followed.
DeReferenceNot(v) == v
DeReference(v) == IF v.type.ref THEN Loaded(NoRef(v.type)) ELSE v
EmitDeReference(v) == IF v.type.ref THEN EmitLoad(NoRef(v.type), v) ELSE {}

\* call_expression_generation behind the chain: the value of the place, or its
\* address when the context needs that.
CallValue(v, needAddress) ==
  IF ~IsPointer(v.type) \/ needAddress THEN v
  ELSE IF v.type.arr THEN Variable(RefCopy(v.type), Star(Llvm(RefCopy(RefCopy(v.type)))))
                     ELSE Loaded(RefCopy(v.type))
EmitCallValue(v, needAddress) ==
  IF ~IsPointer(v.type) \/ needAddress THEN {}
  ELSE IF v.type.arr THEN Refused("array_cast", v.real = Star(LlvmArray(RefCopy(v.type))))
                     ELSE EmitLoad(RefCopy(v.type), v)

\* visit_mir_call_id: a local variable is its stack slot.
Slot(t) == Variable(PointerCopy(NoArray(t)), Star(Llvm(NoArray(t))))

\* An array in its place in a struct, whose address is no pointer to a pointer.
InPlace(v) == v.real.in = "array"

\* The field with type t of the struct or union s at the address p.  That of a
\* union is converted to a pointer to the member's type.
FieldAt(s, t) ==
  Variable(PointerCopy(t), Star(IF s.base \in Unions THEN Llvm(t) ELSE FieldLlvm(t)))
EmitField(p) ==
  Refused("get_field", LET t == RefCopy(p.type)
                       IN  p.real = Star(Llvm(t)) /\ t.ptr = 0 /\ t.base \in Structs \cup Unions)

\* visit_mir_ptr_get_field follows the pointer in the place first.
Pointed(p) == Loaded(RefCopy(p.type))
EmitPointed(p) == EmitLoad(RefCopy(p.type), p)

\* visit_mir_call_index: the elements at the address p holds.
IndexedAt(t, p) ==
  Variable(PointerCopy(t), IF p.type.arr THEN Star(Llvm(RefCopy(RefCopy(p.type))))
                                         ELSE Llvm(RefCopy(p.type)))
EmitIndex(p, index) ==
  LET elements == RefCopy(p.type)
      element == RefCopy(elements)
  IN  (IF p.type.arr THEN Refused("array_cast", p.real = Star(LlvmArray(elements)))
                     ELSE EmitLoad(elements, p))
      \cup Refused("get_index", /\ ~IsVoid(element) /\ Llvm(elements) = Star(Llvm(element))
                                /\ Fits(index, Llvm(index.type)) /\ IsLlvmInt(Llvm(index.type)))

\* visit_mir_call_func: the result is kept in a slot of its own; that of a void
\* function has no name.
Result(t) == IF Same(t, Void) THEN Symbol("none", t) ELSE Variable(PointerCopy(t), Star(Llvm(t)))
EmitCallFunc(args, params) ==
  Refused("call", /\ Len(args) = Len(params)
                  /\ \A i \in DOMAIN args : /\ Fits(args[i], Llvm(args[i].type))
                                            /\ Llvm(args[i].type) = Llvm(params[i]))

\* visit_mir_struct_init: the slot of the new value, zeroed.
Fresh(t) == Variable(PointerCopy(t), Star(Llvm(t)))
EmitFieldInit(t, field, v) ==
  EmitField(Fresh(t)) \cup EmitStore(v.type, v, FieldAt(t, field))
-----------------------------------------------------------------------------
(***************************************************************************)
(* Operators.  The instruction is chosen by the type noted for the left    *)
(* operand and printed with it.                                            *)
(***************************************************************************)
Operates(inst, t, args) ==
  /\ \A i \in DOMAIN args : Fits(args[i], Llvm(t))
  /\ CASE inst = "bits" -> IsLlvmInt(Llvm(t))
       [] inst = "icmp" -> IsLlvmInt(Llvm(t)) \/ IsLlvmPointer(Llvm(t))
       [] inst = "fcmp" -> IsLlvmFloat(Llvm(t))
       [] inst \in {"add", "sdiv", "udiv"} -> IsLlvmInt(Llvm(t))
       [] OTHER -> IsLlvmFloat(Llvm(t))

\* The instruction for the operator opr on operands of type t: + - and * are
\* add, / and % are div, & | and ^ are bits.
Instruction(opr, t) ==
  CASE opr = "add" -> IF IsInteger(t) THEN "add" ELSE "fadd"
    [] opr = "div" -> IF IsInteger(t) THEN (IF IsUnsigned(t) THEN "udiv" ELSE "sdiv") ELSE "fdiv"
    [] opr = "bits" -> "bits"
    [] opr = "eq" -> IF IsInteger(t) \/ IsPointer(t) \/ IsBoolean(t) \/ SymbolKind(t) = "enum"
                     THEN "icmp" ELSE "fcmp"
    [] opr = "less" -> IF IsInteger(t) THEN "icmp" ELSE "fcmp"

\* visit_mir_binary.  The result is noted with the type of the node.
EmitBinary(opr, left, right) ==
  Refused(Instruction(opr, left.type),
          Operates(Instruction(opr, left.type), left.type, <<left, right>>))
EmitResult(opr, left, t) ==
  Refused("value", opr \in {"eq", "less"} \/ /\ Llvm(t) = Llvm(left.type)
                                             /\ IsUnsigned(t) <=> IsUnsigned(left.type))
Computed(opr, left, t) ==
  Variable(t, IF opr \in {"eq", "less"} THEN Llvm(Bool) ELSE Llvm(left.type))

\* generate_and, generate_or: both operands are stored as i1.
EmitLogical(left, right) ==
  Refused("store", Fits(left, Llvm(Bool)) /\ Fits(right, Llvm(Bool)))

\* visit_mir_unary.
EmitUnary(opr, v) ==
  LET inst == CASE opr = "neg" -> Instruction("add", v.type) [] OTHER -> "bits"
  IN  Refused(inst, Operates(inst, v.type, <<v>>))

\* visit_mir_type_convert and sir_type_convert::dump.
IsLlvmNumber(l) == IsLlvmInt(l) \/ IsLlvmFloat(l)
Converts(from, to) ==
  \/ IsLlvmPointer(from) /\ (IsLlvmPointer(to) \/ IsLlvmInt(to))
  \/ IsLlvmInt(from) /\ IsLlvmPointer(to)
  \/ IsLlvmNumber(from) /\ IsLlvmNumber(to)
EmitConvert(v, t) ==
  Refused("convert", Fits(v, Llvm(v.type)) /\ Converts(Llvm(v.type), Llvm(t)))

\* visit_mir_array: the elements are stored one by one.
EmitArray(t, elements) ==
  Refused("store", \A i \in DOMAIN elements : Fits(elements[i], Llvm(RefCopy(t))))

\* mir_assign_gen: the left side is an address.  All but = load it first; the
\* choice of the instruction is made by the type noted for the address.
EmitAssign(opr, left, right) ==
  EmitStore(right.type, right, left)
  \cup (IF opr = "eq" THEN {}
        ELSE EmitLoad(right.type, left)
             \cup Refused("assign",
                          Operates(Instruction(opr, left.type), right.type,
                                   <<Loaded(right.type), right>>))
             \cup Refused("sign", opr = "div" /\ IsInteger(right.type) =>
                                     (IsUnsigned(left.type) <=> IsUnsigned(right.type))))
=============================================================================
