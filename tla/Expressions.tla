---------------------------- MODULE Expressions ----------------------------
(***************************************************************************)
(* Expressions from semantic analysis to SIR, in the C++ compiler: an      *)
(* expression is built from its leaves up, each step resolves one node     *)
(* (semantic.cpp), translates it (ast2mir.cpp) and emits its instructions  *)
(* (mir2sir.cpp).  Every pass decides about a node from the node and what  *)
(* it left for its children, so the order of the steps of one expression   *)
(* is the bottom-up one; what a parent changes in a child (the type of a   *)
(* literal it converts) is applied before the child's code is emitted.     *)
(*                                                                         *)
(* stack holds the finished expressions a parent may take, chain the call  *)
(* chain under construction.  Analysis stops a program at its first error; *)
(* here generation also stops at the first instruction that is wrong or    *)
(* that belongs to one of the known gaps of the analysis (ExprGaps).       *)
(***************************************************************************)
EXTENDS ExprGaps

CONSTANTS
  Locals,       \* the local variables: name to type
  Targets,      \* the types conversions and definitions name
  Returns,      \* the returned types functions have
  MaxStack,     \* bound: finished expressions kept at a time
  MaxPtr        \* bound: stars of a type

SymbolNames == Primitives \cup Structs \cup Unions \cup Enums

\* What the parser and type_resolver.cpp make of a type that is written: an array
\* has one star more, the parser makes no reference of one, and void& is refused.
IsType(t) ==
  /\ t \in [base : SymbolNames \cup {"void"}, ptr : Nat,
            ref : BOOLEAN, arr : BOOLEAN, const : BOOLEAN]
  /\ t.arr => IsPointer(t) /\ ~t.ref
  /\ IsVoid(t) => ~t.ref

\* LLVM has no variable, field or parameter of type void: of a program that
\* declares one the declaration is wrong already.
Declared(t) == IsType(t) /\ ~IsVoid(t)

\* The program is what registration lets through: a union has no member of
\* reference type, methods belong to structs, unions and primitive types, and the
\* first parameter of one is self.
ASSUME ProgramAssumption ==
  /\ \A x \in DOMAIN Locals : Declared(Locals[x])
  /\ \A t \in Targets \cup Returns : IsType(t)
  /\ \A s \in Structs : \A f \in DOMAIN Fields[s] : Declared(Fields[s][f])
  /\ \A u \in Unions : \A f \in DOMAIN Members[u] :
       Declared(Members[u][f]) /\ ~Members[u][f].ref
  /\ NoFunc \notin DOMAIN Funcs
  /\ \A f \in DOMAIN Funcs :
       /\ f = <<f[1], f[2]>> /\ f[1] \in Primitives \cup Structs \cup Unions \cup {Module}
       /\ Funcs[f].kind \in {"func", "method", "static"} /\ (f[1] = Module <=> Funcs[f].kind = "func")
       /\ IsType(Funcs[f].ret)
       /\ Funcs[f].params \in Seq({Funcs[f].params[i] : i \in DOMAIN Funcs[f].params})
       /\ \A i \in DOMAIN Funcs[f].params : Declared(Funcs[f].params[i])
       /\ Funcs[f].kind = "method" =>
            Len(Funcs[f].params) >= 1 /\ Funcs[f].params[1] = RefType(f[1], 0)

VARIABLES stack, chain, wrong, gaps, status
vars == <<stack, chain, wrong, gaps, status>>

NoChain == [head |-> Void, link |-> Link(Void), vals |-> << >>, init |-> FALSE, last |-> "none"]
Top(s) == s[Len(s)]
Below(s, k) == SubSeq(s, 1, Len(s) - k)
Taken(k) == SubSeq(stack, Len(stack) - k + 1, Len(stack))

Init ==
  stack = << >> /\ chain = NoChain /\ wrong = {} /\ gaps = {} /\ status = "ready"

Stop(how) == stack' = << >> /\ chain' = NoChain /\ status' = how
Reject == Stop("rejected") /\ UNCHANGED <<wrong, gaps>>

\* The outcome of a step: an error was reported, or the instructions bad are
\* wrong and the gaps known are met, or neither and the state is then good.
Judge(ok, bad, known, good) ==
  IF ~ok THEN Reject
  ELSE /\ wrong' = bad /\ gaps' = known
       /\ IF bad = {} /\ known = {} THEN good ELSE Stop("misjudged")

Push(k, n) == stack' = Append(Below(stack, k), n) /\ chain' = NoChain /\ status' = "ready"
Done == stack' = << >> /\ chain' = NoChain /\ status' = "ready"

Ready == status = "ready" /\ chain = NoChain
HasTaken(k) == Ready /\ Len(stack) >= k
-----------------------------------------------------------------------------
(***************************************************************************)
(* Leaves.  A hexadecimal or octal number is a u64.                        *)
(***************************************************************************)
Literals ==
  { Node("number", I64, "int", << >>), Node("number", Type("u64", 0), "int", << >>),
    Node("number", Type("f64", 0), "float", << >>), Node("nil", Nil, NoText, << >>),
    Node("literal", Bool, NoText, <<Flag(Bool)>>),
    Node("literal", Type("i8", 0), NoText, <<Flag(Type("i8", 0))>>),
    Node("literal", ConstType("i8", 1), NoText, <<Claimed(ConstType("i8", 1))>>) }

Literal ==
  /\ Ready /\ Len(stack) < MaxStack
  /\ \E n \in Literals : Push(0, n)
  /\ UNCHANGED <<wrong, gaps>>

(***************************************************************************)
(* Operators.                                                              *)
(***************************************************************************)
Unary(opr) ==
  /\ HasTaken(1)
  /\ LET n == Top(stack)
         res == ResolveUnary(opr, n)
         v == ValueOf(n)
         made == Variable(res.type, Llvm(v.type))
     IN  IF opr = "neg" /\ IsNumber(n)
         THEN Judge(res.ok, {}, {}, Push(1, Node("neg", res.type, n.text, << >>)))
         ELSE Judge(res.ok, EmitValueOf(n) \cup EmitUnary(opr, v) \cup EmitClaim(made),
                    UnaryGaps(opr, n), Push(1, Node("op", res.type, NoText, <<made>>)))

Binary(opr) ==
  /\ HasTaken(2)
  /\ LET l == Taken(2)[1]
         r == Taken(2)[2]
         res == ResolveBinary(opr, l, r)
         both == IF opr = "and" THEN <<l, r>> ELSE Meet(l, r)
         lv == ValueOf(both[1])
         rv == ValueOf(both[2])
         made == IF opr = "and" THEN Claimed(Bool) ELSE Computed(opr, lv, res.type)
     IN  Judge(res.ok,
               EmitValueOf(both[1]) \cup EmitValueOf(both[2])
               \cup (IF opr = "and" THEN EmitLogical(lv, rv)
                     ELSE EmitBinary(opr, lv, rv) \cup EmitResult(opr, lv, res.type)),
               BinaryGaps(opr, l, r),
               Push(2, Node("op", res.type, NoText, <<made>>)))

\* type_cast_number replaces the conversion of a number by the number.
Folds(n, t) == (IsNumber(n) \/ (n.kind = "convert" /\ n.text # NoText)) /\ ~IsPointer(t)

Convert(t) ==
  /\ HasTaken(1)
  /\ LET n == Top(stack)
         ok == ResolveConvert(n, t).ok
         v == ValueOf(n)
     IN  IF Folds(n, t)
         THEN Judge(ok, Refused("value", Fits(Number(n.text, t), Llvm(t))), ConvertGaps(n, t),
                    Push(1, Node("convert", t, n.text, << >>)))
         ELSE Judge(ok, EmitValueOf(n) \cup EmitConvert(v, t), ConvertGaps(n, t),
                    Push(1, Node("convert", t, NoText, <<Claimed(t)>>)))

Array(k) ==
  /\ HasTaken(k)
  /\ LET elements == ArrayElements(Taken(k))
         res == ResolveArray(Taken(k))
     IN  /\ res.type.ptr <= MaxPtr
         /\ Judge(res.ok,
                  EmitArray(res.type, [i \in DOMAIN elements |-> ValueOf(elements[i])])
                  \cup UNION {EmitValueOf(elements[i]) : i \in DOMAIN elements},
                  ArrayGaps(Taken(k)),
                  Push(k, Node("literal", res.type, NoText, <<Claimed(res.type)>>)))
-----------------------------------------------------------------------------
(***************************************************************************)
(* Call chains.                                                            *)
(***************************************************************************)
Extend(k, link, vals, last) ==
  /\ stack' = Below(stack, k) /\ status' = "ready"
  /\ chain' = [chain EXCEPT !.link = link, !.vals = vals, !.last = last]

Start(link, value) ==
  chain' = [NoChain EXCEPT !.head = [link.type EXCEPT !.const = FALSE],
                           !.link = link, !.vals = <<value>>, !.last = "id"]

\* Bound: with a full stack only calls and values of structs are begun, to take it.
CallId ==
  /\ Ready
  /\ \/ \E x \in DOMAIN Locals :
          Len(stack) < MaxStack /\ Start(Link(Locals[x]), Slot(Locals[x]))
     \/ \E s \in SymbolNames :
          /\ s \in Structs \/ Len(stack) < MaxStack
          /\ Start(GlobalLink(Type(s, 0)), Symbol(SymbolKind(Type(s, 0)), Type(s, 0)))
     \/ \E f \in DOMAIN Funcs :
          f[1] = Module /\ Start(FuncLink(Module, f[2]), Symbol("func", Type(Module, 0)))
  /\ UNCHANGED <<stack, wrong, gaps, status>>

Chaining(k) == status = "ready" /\ chain # NoChain /\ Len(stack) >= k

\* The object of a method lies below the method.
Receiver(vals) == vals[Len(vals) - 1]

\* A field's address, or the object with the method above it.
Member(res, object) ==
  IF IsFunction(res.link) THEN <<object, Symbol("method", res.link.type)>>
                          ELSE <<FieldAt(object.type, res.link.type)>>
EmitMember(res, object) == IF IsFunction(res.link) THEN {} ELSE EmitField(object)

GetField(name) ==
  /\ Chaining(0)
  /\ LET c == chain.link
         res == ResolveGetField(c, name)
         p == DeReference(Top(chain.vals))
     IN  IF ~IsFunction(c) /\ ~IsPointer(c.type) /\ NoEntry(c)
         THEN Judge(TRUE, {"uncaught exception"}, {"field of nothing"}, FALSE)
         ELSE Judge(~IsFunction(c) /\ res.ok,
                    EmitDeReference(Top(chain.vals)) \cup EmitMember(res, p),
                    {}, Extend(0, res.link, Member(res, p), "field"))

PtrGetField(name) ==
  /\ Chaining(0)
  /\ LET c == chain.link
         res == ResolvePtrGetField(c, name)
         p == DeReference(Top(chain.vals))
     IN  IF ~IsFunction(c) /\ c.type.ptr = 1 /\ NoEntry(c)
         THEN Judge(TRUE, {"uncaught exception"}, {"field of nothing"}, FALSE)
         ELSE Judge(~IsFunction(c) /\ res.ok,
                    EmitDeReference(Top(chain.vals)) \cup EmitPointed(p)
                    \cup EmitMember(res, Pointed(p)),
                    ArrowGaps(p), Extend(0, res.link, Member(res, Pointed(p)), "field"))

CallPath(name) ==
  /\ Chaining(0)
  /\ LET c == chain.link
         res == ResolveCallPath(c, name)
         symbol == Top(chain.vals)
         made == IF symbol.kind = "enum" THEN Flag(res.link.type)
                                         ELSE Symbol("func", res.link.type)
     IN  Judge(~IsFunction(c) /\ res.ok, Refused("path", symbol.kind # "func"),
               PathGaps(c), Extend(0, res.link, <<made>>, "path"))

\* The arguments, behind the object of a method; a call argument for a reference
\* leaves its address.  Bound: with a full stack a call takes some of it.
CallArgs(k) ==
  /\ Chaining(k) /\ (k > 0 \/ Len(stack) < MaxStack)
  /\ LET c == chain.link
         args == Taken(k)
         res == ResolveCallFuncArgs(c, chain.head, args)
         f == Funcs[c.func]
         node(i) == Adjusted(args[i], ParamOf(f, i))
         self == IF f.kind = "method" THEN <<Receiver(chain.vals)>> ELSE << >>
         member == Adjusted(args[1], c.type)
     IN  Judge(res.ok,
               IF IsFunction(c)
               THEN (UNION {EmitDeReference(self[i]) : i \in DOMAIN self})
                    \cup (UNION {EmitPlaceOf(node(i), ParamOf(f, i).ref) : i \in 1..k})
                    \cup EmitCallFunc([i \in DOMAIN self |-> DeReference(self[i])]
                                      \o [i \in 1..k |-> PlaceOf(node(i), ParamOf(f, i).ref)],
                                      f.params)
               ELSE EmitValueOf(member) \cup EmitFieldInit(chain.head, c.type, ValueOf(member)),
               ArgsGaps(c, args),
               /\ stack' = Below(stack, k) /\ status' = "ready"
               /\ chain' = [chain EXCEPT
                              !.link = res.link, !.last = "args", !.init = @ \/ c.tag,
                              !.vals = IF c.tag THEN <<Fresh(res.link.type)>>
                                                ELSE <<Result(res.link.type)>>])

CallIndex ==
  /\ Chaining(1)
  /\ LET c == chain.link
         res == ResolveCallIndex(c, Top(stack))
         p == DeReference(Top(chain.vals))
     IN  Judge(~IsFunction(c) /\ res.ok,
               EmitDeReference(Top(chain.vals)) \cup EmitValueOf(Top(stack))
               \cup EmitIndex(p, ValueOf(Top(stack))) \cup EmitClaim(IndexedAt(res.link.type, p)),
               IndexGaps(c, p),
               Extend(1, res.link, <<IndexedAt(res.link.type, p)>>, "index"))

\* The value of a field that is a reference is noted as one, with the type it
\* had before it was converted.
FieldNode(n, field) ==
  IF field.ref THEN [Adjusted(n, field) EXCEPT !.own = [n.type EXCEPT !.ref = TRUE]]
               ELSE Adjusted(n, field)

\* union_initializer_desugar: u::m {...} is u { m: type of m {...} }.
Desugared(union, t) ==
  EmitCallValue(Fresh(t), FALSE) \cup EmitFieldInit(union, t, CallValue(Fresh(t), FALSE))

\* Below a union's member the value of the member is made first.
Initializer(names) ==
  /\ Chaining(Len(names))
  /\ LET c == chain.link
         k == Len(names)
         values == Taken(k)
         t == c.type
         res == ResolveInitializer(c, chain.head, names, values)
         field(i) == FieldsOf(t)[names[i]]
         node(i) == IF t.base \in Structs THEN FieldNode(values[i], field(i))
                                          ELSE Adjusted(values[i], field(i))
         asPlace(i) == t.base \in Structs /\ node(i).own.ref
     IN  Judge(res.ok,
               (UNION {EmitPlaceOf(node(i), asPlace(i))
                       \cup EmitFieldInit(t, field(i), PlaceOf(node(i), asPlace(i))) : i \in 1..k})
               \cup (IF c.tag THEN Desugared(chain.head, t) ELSE {}),
               InitGaps(t, names, values),
               /\ stack' = Below(stack, k) /\ status' = "ready"
               /\ chain' = [chain EXCEPT !.link = res.link, !.vals = <<Fresh(res.link.type)>>,
                                         !.init = TRUE, !.last = "init"])

\* check_valid_left_value refuses a chain with an initializer or that ends with
\* a path or a call that returns no reference.
IsPlace(c) == ~c.init /\ (c.last \notin {"path", "args"} \/ c.link.type.ref)

EndCall ==
  /\ Chaining(0) /\ Len(stack) < MaxStack
  /\ LET c == chain.link
         v == Top(chain.vals)
     IN  Judge(~IsFunction(c) /\ ~c.global, EmitDeReference(v), {},
               Push(0, [Node("call", c.type, NoText, <<DeReference(v)>>)
                          EXCEPT !.place = IsPlace(chain)]))
-----------------------------------------------------------------------------
(***************************************************************************)
(* Assignments, and the statements that take an expression.                *)
(***************************************************************************)
Assign(opr) ==
  /\ HasTaken(2)
  /\ LET l == Taken(2)[1]
         r == Taken(2)[2]
         to == Adjusted(r, l.type)
     IN  /\ l.kind = "call"
         /\ Judge(ResolveAssignment(opr, l, r).ok,
                  EmitValueOf(to) \cup EmitAssign(opr, CallValue(l.vals[1], TRUE), ValueOf(to)),
                  AssignGaps(opr, l, r),
                  Push(2, Node("assign", RestrictType, NoText, << >>)))

Only(n) == Ready /\ stack = <<n>>

\* mir_define stores the initial value to a new slot.
Store(t, n) ==
  EmitPlaceOf(n, t.ref) \cup EmitStore(NoArray(t), PlaceOf(n, t.ref), Slot(t))

DefineInferred ==
  \E n \in {stack[i] : i \in DOMAIN stack} :
    /\ Only(n)
    /\ LET res == ResolveInferred(n)
       IN  Judge(res.ok, Store(res.type, n), DefineGaps(res.type, n), Done)

EmptyList == Node("empty", EmptyArray, NoText, << >>)
DefineDeclared(t) ==
  \E n \in {stack[i] : i \in DOMAIN stack} \cup {EmptyList} :
    /\ Ready /\ stack = (IF n = EmptyList THEN << >> ELSE <<n>>)
    /\ LET res == ResolveDeclared(t, n)
           to == IF t.arr THEN [n EXCEPT !.own = t]
                 ELSE IF n.type.arr THEN n ELSE IF Same(n.type, t) THEN n
                 ELSE IF Convertible(n, t) THEN Converted(n, t) ELSE n
       IN  Judge(res.ok, Store(res.type, to), DefineGaps(res.type, n), Done)

Return(t) ==
  \E n \in {stack[i] : i \in DOMAIN stack} :
    /\ Only(n)
    /\ LET to == Adjusted(n, t)
           v == PlaceOf(to, t.ref)
       IN  Judge(ResolveReturn(t, n).ok,
                 EmitPlaceOf(to, t.ref)
                 \cup Refused("ret", Llvm(v.type) = Llvm(t) /\ Fits(v, Llvm(t))),
                 ReturnGaps(t, n), Done)

Condition ==
  \E n \in {stack[i] : i \in DOMAIN stack} :
    /\ Only(n)
    /\ Judge(ResolveCondition(n).ok,
             EmitValueOf(n) \cup Refused("br", Fits(ValueOf(n), Llvm(Bool))), {}, Done)

Statement ==
  \E n \in {stack[i] : i \in DOMAIN stack} :
    Only(n) /\ Judge(TRUE, EmitValueOf(n), ValueGaps(n), Done)
-----------------------------------------------------------------------------
FieldNames == UNION {DOMAIN Fields[s] : s \in Structs} \cup UNION {DOMAIN Members[u] : u \in Unions}
PathNames == UNION {Constants[e] : e \in Enums} \cup UNION {DOMAIN Members[u] : u \in Unions}
MethodNames == {f[2] : f \in {g \in DOMAIN Funcs : g[1] # Module}}
\* Conversions to references and arrays are left out.
Casts == {t \in Targets : ~t.ref /\ ~t.arr}
Inits == {<< >>} \cup {<<f>> : f \in FieldNames}
         \cup {p \in FieldNames \X FieldNames : p[1] # p[2]}

Next ==
  \/ Literal \/ CallId \/ EndCall \/ CallIndex
  \/ \E opr \in {"neg", "bnot", "lnot"} : Unary(opr)
  \/ \E opr \in {"add", "div", "bits", "eq", "less", "and"} : Binary(opr)
  \/ \E t \in Casts : Convert(t)
  \/ \E t \in Targets : DefineDeclared(t)
  \/ \E k \in 1..2 : Array(k)
  \/ \E name \in FieldNames \cup MethodNames : GetField(name) \/ PtrGetField(name)
  \/ \E name \in PathNames \cup MethodNames : CallPath(name)
  \/ \E k \in 0..2 : CallArgs(k)
  \/ \E names \in Inits : Initializer(names)
  \/ \E opr \in {"eq", "add", "div", "bits"} : Assign(opr)
  \/ DefineInferred \/ Condition \/ Statement
  \/ \E t \in Returns : Return(t)

Spec == Init /\ [][Next]_vars
-----------------------------------------------------------------------------
\* mir2sir and the analysis agree on what every expression is: the value it
\* leaves can be written into an instruction, has the type resolve_expression
\* returned, and a call that may be assigned to leaves the address of a value
\* of that type.
ValueAsResolved ==
  \A i \in DOMAIN stack :
    LET n == stack[i]
        v == ValueOf(n)
    IN  n.kind # "assign" /\ ~IsVoid(n.type) =>
          /\ v.kind \in Printable /\ Same(v.type, n.own)
          /\ v.kind = "variable" => v.real = Llvm(NoRef(NoArray(n.type)))
          /\ n.place => n.vals[1].real \in {Star(Llvm(NoRef(n.type))), Star(FieldLlvm(NoRef(n.type)))}

\* At every link of a call chain both passes see the same: a value with an
\* address, a symbol, or a function that waits for its arguments: of the owner
\* the analysis found it in, and for a method with the address of an object of
\* that owner below it, which the call will pass as self.
PassesAgree ==
  chain # NoChain =>
    LET v == Top(chain.vals)
        c == chain.link
    IN  /\ IsFunction(c) \/ c.tag <=> v.kind \in {"func", "method"}
        /\ c.global /\ ~IsFunction(c) /\ ~c.tag => v.kind \in {"basic", "struct", "union", "enum"}
        /\ ~c.global => v.kind \in Printable \/ IsVoid(c.type)
        /\ IsFunction(c) => /\ v.kind = "method" <=> Funcs[c.func].kind = "method"
                            /\ v.type.base = c.func[1]
        /\ v.kind = "method" => Receiver(chain.vals).real = Llvm(RefType(c.func[1], 0))

\* What the analysis accepts gets right instructions only, except at the gaps.
WellTyped == gaps = {} => wrong = {}

\* Every gap named is one: the code generated there is wrong.
GapsAreReal == gaps # {} => wrong # {}
=============================================================================
