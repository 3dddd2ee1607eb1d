------------------------------ MODULE ExprGaps ------------------------------
(***************************************************************************)
(* The known gaps of semantic analysis: what it accepts although the code  *)
(* generated for it is wrong.  Each operator names the gaps that a node    *)
(* with the given parts meets.  Expressions checks that exactly these      *)
(* nodes get wrong instructions.                                           *)
(***************************************************************************)
EXTENDS ExprSema

Gap(name, met) == IF met THEN {name} ELSE {}

\* The types arithmetic instructions exist for.
Arithmetic(t) == (IsInteger(t) \/ IsFloat(t)) /\ ~IsPointer(t)
Valueless(t) == IsVoid(t) \/ t.base = "<restrict>"
IsLiteral(n) == n.kind \in {"number", "neg", "nil"}

\* A call that names a place is the only expression with an address.
HasAddress(n) == n.kind = "call" /\ IsPointer(n.vals[1].type) /\ ~InPlace(n.vals[1])

\* A result or a union's member with the type of an array is kept as a pointer,
\* and read as an array.
ReadAsArray(v) == Gap("array not in its place", v.type.arr /\ ~InPlace(v))
ValueGaps(n) == IF n.kind = "call" THEN ReadAsArray(n.vals[1]) ELSE {}

\* The result of an operator keeps the reference flag of the operand.
ReferenceResult(opr, t) == Gap("reference result", opr # "lnot" /\ t.ref)

UnaryGaps(opr, n) ==
  ReferenceResult(opr, n.type) \cup Gap("pointer arithmetic", opr = "neg" /\ IsPointer(n.type))

\* The literal on the left gets the type of the right operand, the result that
\* of the left one as it was.
LeftConverted(l, r) ==
  ~Same(l.type, r.type) /\ ~Convertible(r, l.type) /\ Convertible(l, r.type)

\* A literal converted to the type of a reference is written as an address; on
\* the right only a negated one is, as the left operand names the type.
AsReference(l, r) ==
  Gap("literal as reference",
      \/ LeftConverted(l, r) /\ r.type.ref
      \/ r.kind = "neg" /\ ~Same(l.type, r.type) /\ Convertible(r, l.type) /\ l.type.ref)

BinaryGaps(opr, l, r) ==
  CASE opr = "and" -> Gap("bool pointer", IsPointer(l.type) \/ IsPointer(r.type))
    [] opr = "eq" -> AsReference(l, r) \cup ValueGaps(l) \cup ValueGaps(r)
    [] opr = "less" ->
         AsReference(l, r) \cup ValueGaps(l) \cup ValueGaps(r)
         \cup Gap("order", LET t == Meet(l, r)[1].own IN ~IsInteger(t) /\ ~IsFloat(t))
    [] OTHER ->
         ReferenceResult(opr, l.type)
         \cup Gap("left literal",
                 /\ LeftConverted(l, r)
                 /\ SymbolKind(r.type) = "enum" /\ Same(l.type, I64) => r.type.ref)
         \cup Gap("no arithmetic", opr # "bits" /\ ~Arithmetic(l.type))

ConvertGaps(n, t) ==
  ValueGaps(n)
  \cup Gap("no conversion", \E u \in {n.type, t} :
                         Valueless(u) \/ (SymbolKind(u) = "union" /\ ~IsPointer(u)))
  \cup Gap("number written as another",
           /\ n.text # NoText /\ n.kind # "neg" /\ ~IsPointer(t)
           /\ \/ n.text = "float" /\ ~IsFloat(t)
              \/ n.text = "int" /\ ~IsInteger(t) /\ ~IsFloat(t))

ArrayGaps(ns) ==
  (UNION {ValueGaps(ns[i]) : i \in DOMAIN ns})
  \cup Gap("array of references", ns[1].type.ref)
  \cup Gap("array of nothing", Valueless(ns[1].type))

\* What a value lacks where one of the type t is wanted: a reference is an address.
PlaceGaps(t, n) == IF t.ref THEN Gap("no address", ~HasAddress(n)) ELSE ValueGaps(n)

ArgsGaps(c, args) ==
  IF IsFunction(c)
  THEN UNION {PlaceGaps(ParamOf(Funcs[c.func], i), args[i]) : i \in DOMAIN args}
  ELSE UNION {ValueGaps(args[i]) : i \in DOMAIN args}
PathGaps(c) == Gap("path of a member", c.tag)
ArrowGaps(p) == Gap("arrow behind an array field", InPlace(p))
IndexGaps(c, p) ==
  Gap("reference element", c.type.ref) \cup Gap("element of nothing", IsVoid(RefCopy(c.type)))
  \cup ReadAsArray(p)

\* Behind the name of a union's member, t may be a pointer.
InitGaps(t, names, values) ==
  Gap("pointer as a struct", IsPointer(t) /\ (names # << >> \/ t.arr))
  \cup
  UNION {LET field == FieldsOf(t)[names[i]]
         IN  PlaceGaps(field, values[i])
             \cup Gap("array field", t.base \in Structs /\ field.arr)
             \cup Gap("reference into a field",
                      t.base \in Structs /\ ~field.ref /\ HasAddress(values[i]) /\ values[i].type.ref)
         : i \in DOMAIN names}

AssignGaps(opr, l, r) ==
  ValueGaps(r)
  \cup Gap("literal as reference", l.type.ref /\ IsLiteral(r) /\ ~Same(l.type, r.type))
  \cup Gap("no arithmetic", opr \in {"add", "div"} /\ ~Arithmetic(l.type))
  \cup Gap("unsigned division", opr = "div" /\ l.type.base \in Signed)

\* nil is stored to a reference as it is.
DefineGaps(t, n) ==
  (IF n.kind = "nil" THEN {} ELSE PlaceGaps(t, n))
  \cup Gap("empty array", n.kind = "empty" /\ ~t.arr)
  \cup Gap("other pointer", /\ IsPointer(t) /\ n.kind # "empty"
                            /\ ~Same(t, n.type) /\ ~Convertible(n, t))

ReturnGaps(t, n) == PlaceGaps(t, n) \cup Gap("return of nothing", Valueless(n.type))
=============================================================================
