------------------------------ MODULE ExprSema ------------------------------
(***************************************************************************)
(* What semantic.cpp decides for expressions: the type of each from those  *)
(* of its parts, and whether it is reported as an error.                   *)
(*                                                                         *)
(* A node is what is left of an expression when it has been resolved: its  *)
(* kind, the type resolve_expression returned, own, the type kept in the   *)
(* node (get_resolve), which a parent may change when it converts a        *)
(* literal, the text of a number literal, the value the generator leaves   *)
(* for it (ExprGen), a call's without the final load, and whether it may   *)
(* stand on the left of an assignment.                                     *)
(***************************************************************************)
EXTENDS ExprGen

CONSTANTS
  Fields,       \* structs: the type of each field
  Members,      \* unions: the type of each member
  Constants,    \* enums: the names of the members
  Funcs,        \* functions and methods, by owner and name: parameters (a
                \* method's with self), returned type, kind and visibility
  Impl          \* the struct whose methods are being compiled, or Module

\* The owner of plain functions, which is no type.
Module == "<module>"

Checked(ok, t) == [ok |-> ok, type |-> t]

NoText == "none"
Node(kind, t, text, vals) ==
  [kind |-> kind, type |-> t, own |-> t, text |-> text, vals |-> vals, place |-> FALSE]
IsNumber(n) == n.kind = "number"
IsNegatedNumber(n) == n.kind = "neg"

\* number_literal_can_be_converted, unary_number_can_be_converted and
\* nil_can_be_converted: an integer to an integer type, a decimal to the
\* decimal type, nil to a pointer, never a number to a pointer.
\* Mutant: any number for any number type.
NumberFitsAny(n, expect) == ~IsPointer(n.own) /\ ~IsPointer(expect)
NumberFits(n, expect) ==
  /\ ~IsPointer(n.own) /\ ~IsPointer(expect)
  /\ \/ IsInteger(expect) /\ IsInteger(n.own)
     \/ IsFloat(expect) /\ IsFloat(n.own)
Convertible(n, expect) ==
  \/ (IsNumber(n) \/ IsNegatedNumber(n)) /\ NumberFits(n, expect)
  \/ n.kind = "nil" /\ IsPointer(expect)
\* Mutant: the literal is no reference.
ConvertedValue(n, expect) == [n EXCEPT !.own = NoRef(expect)]
Converted(n, expect) == [n EXCEPT !.own = expect]

\* What becomes of the node where the type expect is wanted.
Agrees(n, expect) == Same(n.type, expect) \/ Convertible(n, expect)
Adjusted(n, expect) == IF Same(n.type, expect) THEN n ELSE Converted(n, expect)

\* A literal's value is written with the type its node has in the end; a call's
\* is loaded unless its address is needed.
NoValue == Symbol("none", RestrictType)
ValueOf(n) ==
  IF n.text # NoText /\ n.kind # "neg" THEN Number(n.text, n.own) ELSE
  CASE n.kind = "neg" -> Claimed(n.own)
    [] n.kind = "nil" -> NilValue(n.own)
    [] n.kind = "empty" -> Claimed(n.own)
    [] n.kind = "assign" -> NoValue
    [] n.kind = "call" -> CallValue(n.vals[1], FALSE)
    [] n.kind = "convert" -> n.vals[1]
    [] OTHER -> [n.vals[1] EXCEPT !.type = n.own]
EmitValueOf(n) ==
  CASE n.kind = "neg" -> EmitUnary("neg", Number(n.text, n.own))
    [] n.kind = "call" -> EmitCallValue(n.vals[1], FALSE)
    [] OTHER -> {}

\* The same where a reference is wanted: a call leaves its address.
PlaceOf(n, isRef) == IF n.kind = "call" /\ isRef THEN CallValue(n.vals[1], TRUE) ELSE ValueOf(n)
EmitPlaceOf(n, isRef) == IF n.kind = "call" /\ isRef THEN {} ELSE EmitValueOf(n)

CanBeReferenced(n) == n.kind \notin {"nil", "number", "literal"}

(***************************************************************************)
(* Operators.                                                              *)
(***************************************************************************)
ResolveLogical(l, r) == Checked(IsBoolean(l.type) /\ IsBoolean(r.type), Bool)

\* The right operand is converted if it can be, else the left one.
Meet(l, r) ==
  IF Same(l.type, r.type) THEN <<l, r>>
  ELSE IF Convertible(r, l.type) THEN <<l, Converted(r, l.type)>>
  ELSE IF Convertible(l, r.type) THEN <<Converted(l, r.type), r>> ELSE <<l, r>>
Meets(l, r) == Same(l.type, r.type) \/ Convertible(r, l.type) \/ Convertible(l, r.type)

ResolveComparison(opr, l, r) ==
  Checked(IF Same(l.type, r.type)
          THEN IF SymbolKind(l.type) = "enum"
               THEN opr = "eq"
               ELSE \/ IsInteger(l.type) \/ IsFloat(l.type)
                    \/ IsPointer(l.type) \/ IsBoolean(l.type)
          ELSE Meets(l, r),
          Bool)

Calculable(t) == SymbolKind(t) \notin {"enum", "struct", "union"}

\* The result is the left operand's type as it was before any conversion.
ResolveArithmetic(l, r) ==
  Checked(Meets(l, r) /\ Calculable(l.type) /\ Calculable(r.type), l.type)

ResolveBitwise(l, r) ==
  Checked(CanBitwise(l.type) /\ CanBitwise(r.type) /\ Meets(l, r), l.type)

ResolveBinary(opr, l, r) ==
  CASE opr \in {"eq", "less"} -> ResolveComparison(opr, l, r)
    [] opr = "and" -> ResolveLogical(l, r)
    [] opr \in {"add", "div"} -> ResolveArithmetic(l, r)
    [] opr = "bits" -> ResolveBitwise(l, r)

ResolveUnary(opr, v) ==
  CASE opr = "neg" -> Checked(IsInteger(v.type) \/ IsFloat(v.type), v.type)
    [] opr = "bnot" -> Checked(CanBitwise(v.type), v.type)
    [] opr = "lnot" -> Checked(IsBoolean(v.type) /\ ~IsPointer(v.type), Bool)

IsPlainStruct(t) == SymbolKind(t) = "struct" /\ ~IsPointer(t)
ResolveConvert(v, t) ==
  Checked(/\ ~(IsFloat(v.type) /\ IsPointer(t)) /\ ~(IsPointer(v.type) /\ IsFloat(t))
          /\ ~IsPlainStruct(v.type) /\ ~IsPlainStruct(t),
          t)

ResolveArray(elements) ==
  LET t == elements[1].type
  IN  Checked(\A i \in DOMAIN elements : Agrees(elements[i], t),
              [PointerCopy(t) EXCEPT !.arr = TRUE])
ArrayElements(elements) ==
  [i \in DOMAIN elements |-> Adjusted(elements[i], elements[1].type)]

(***************************************************************************)
(* Call chains.  A chain being resolved has the type so far, whether that  *)
(* is a global symbol instead of a value, the function still to be called, *)
(* whether it is a member of a union written as a path, and the symbol the *)
(* chain started with.                                                     *)
(***************************************************************************)
NoFunc == <<Module, "<none>">>
\* Mutant: the mark of a global symbol stays on what it yields.
LinkKept(t) == [type |-> t, global |-> TRUE, func |-> NoFunc, tag |-> FALSE]
Link(t) == [type |-> t, global |-> FALSE, func |-> NoFunc, tag |-> FALSE]
GlobalLink(t) == [Link(t) EXCEPT !.global = TRUE]
FuncLink(owner, name) ==
  [Link(Type(owner, 0)) EXCEPT !.global = TRUE, !.func = <<owner, name>>]
IsFunction(c) == c.func # NoFunc

\* Primitive types have the two methods regist_primitive_types gives them.
HasMethod(t, name) == <<t.base, name>> \in DOMAIN Funcs
FuncOf(t, name) == Funcs[<<t.base, name>>]

\* check_pub_method, check_pub_static_method: a private static method is open
\* to the methods of every struct.
MayCall(t, name) ==
  LET f == FuncOf(t, name)
  IN  f.pub \/ (IF f.kind = "method" THEN Impl = t.base ELSE Impl # Module)

FieldsOf(t) ==
  IF t.base \in Structs THEN Fields[t.base]
  ELSE IF t.base \in Unions THEN Members[t.base] ELSE << >>

\* A field, or a method that may be called here; registration refuses a method
\* with the name of a field.
ResolveMember(t, name) ==
  IF name \in DOMAIN FieldsOf(t) THEN [ok |-> TRUE, link |-> Link(FieldsOf(t)[name])]
  ELSE [ok |-> HasMethod(t, name) /\ FuncOf(t, name).kind = "method" /\ MayCall(t, name),
        link |-> FuncLink(t.base, name)]

\* . is for a value, -> for a pointer to one.
ResolveGetField(c, name) ==
  LET found == ResolveMember(c.type, name)
  IN  [found EXCEPT !.ok = @ /\ ~c.global /\ ~IsPointer(c.type)]
ResolvePtrGetField(c, name) ==
  LET found == ResolveMember(c.type, name)
  IN  [found EXCEPT !.ok = @ /\ ~c.global /\ c.type.ptr = 1]

\* primitives.at(name) throws for a type that has no module and no entry: void.
NoEntry(c) == ~c.global /\ SymbolKind(c.type) = "error"

ResolveCallPath(c, name) ==
  LET t == c.type
  IN  CASE t.base \in Enums ->
             [ok |-> c.global /\ name \in Constants[t.base], link |-> Link(t)]
        [] t.base \in Unions /\ name \in DOMAIN Members[t.base] ->
             [ok |-> c.global,
              link |-> [GlobalLink(Members[t.base][name]) EXCEPT !.tag = TRUE]]
        [] OTHER ->
             [ok |-> /\ c.global /\ HasMethod(t, name)
                     /\ FuncOf(t, name).kind = "static" /\ MayCall(t, name),
              link |-> FuncLink(t.base, name)]

\* An argument has the type of its parameter or is a literal converted to it;
\* what is passed as a reference is no literal.
FitsParam(n, param) == Agrees(n, param) /\ (param.ref => CanBeReferenced(n))
CheckStaticCallArgs(f, args) ==
  /\ Len(args) = Len(f.params)
  /\ \A i \in DOMAIN args : FitsParam(args[i], f.params[i])
CheckMethodCallArgs(f, args) ==
  /\ Len(args) + 1 = Len(f.params)
  /\ \A i \in DOMAIN args : FitsParam(args[i], f.params[i + 1])

ParamOf(f, i) == f.params[IF f.kind = "method" THEN i + 1 ELSE i]

\* A member's value given like an argument initializes the union head.
ResolveCallFuncArgs(c, head, args) ==
  IF IsFunction(c)
  THEN LET f == Funcs[c.func]
       IN  [ok |-> IF f.kind = "method" THEN CheckMethodCallArgs(f, args)
                                        ELSE CheckStaticCallArgs(f, args),
            link |-> Link(f.ret)]
  ELSE [ok |-> c.tag /\ Len(args) = 1 /\ \A i \in DOMAIN args : Agrees(args[i], c.type),
        link |-> Link(head)]

ResolveCallIndex(c, index) ==
  [ok |-> /\ ~c.global /\ IsPointer(c.type)
          /\ IsInteger(index.type) /\ ~IsPointer(index.type),
   link |-> Link(NoArray(RefCopy(c.type)))]

\* resolve_struct_initializer: the fields and the values given for them; a
\* field of reference type must be among them.
InitsFields(t, names, values) ==
  /\ t.base \in Structs
  /\ \A i \in DOMAIN names :
       /\ names[i] \in DOMAIN Fields[t.base]
       /\ Agrees(values[i], Fields[t.base][names[i]]) /\ ~values[i].type.arr
  /\ \A f \in DOMAIN Fields[t.base] :
       Fields[t.base][f].ref => \E i \in DOMAIN names : names[i] = f

\* resolve_union_initializer: exactly one member.
InitsMember(t, names, values) ==
  /\ t.base \in Unions /\ Len(names) = 1
  /\ names[1] \in DOMAIN Members[t.base]
  /\ Agrees(values[1], Members[t.base][names[1]]) /\ ~values[1].type.arr

\* The type a union's member was named with is the type of the whole.
ResolveInitializer(c, head, names, values) ==
  [ok |-> c.global /\ ~IsFunction(c)
          /\ (InitsFields(c.type, names, values) \/ InitsMember(c.type, names, values)),
   link |-> Link(IF c.tag THEN head ELSE c.type)]

(***************************************************************************)
(* Assignments and statements.                                             *)
(***************************************************************************)
CheckValidLeftValue(l) == l.kind = "call" /\ l.place
CheckMutableLeftValue(l) == ~(l.type.const /\ ~IsPointer(l.type)) /\ ~l.type.arr

ResolveAssignment(opr, l, r) ==
  Checked(/\ CheckValidLeftValue(l) /\ CheckMutableLeftValue(l)
          /\ opr = "bits" => CanBitwise(l.type) /\ CanBitwise(r.type)
          /\ Agrees(r, l.type)
          /\ SymbolKind(l.type) = "enum" => opr = "eq",
          RestrictType)

\* resolve_definition without a declared type, and with one.  Pointers of other
\* types get a warning only.
ResolveInferred(v) == Checked(v.kind # "empty" /\ ~IsVoid(v.type) /\ v.type.base # "<restrict>", v.type)
ResolveDeclared(t, v) ==
  Checked(/\ ~IsVoid(IF v.type.const THEN v.type ELSE t)
          /\ IF t.arr \/ v.type.arr
             THEN Same(t, v.type) \/ v.kind = "empty"
             ELSE (IsPointer(t) /\ IsPointer(v.type)) \/ Agrees(v, t)
          /\ v.type.base # "<restrict>",
          IF v.type.const THEN v.type ELSE t)

ResolveReturn(t, v) == Checked(Agrees(v, t), t)
ResolveCondition(v) == Checked(Same(v.type, Bool), Bool)
=============================================================================
