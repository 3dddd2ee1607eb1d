---------------------------- MODULE Registration ----------------------------
(***************************************************************************)
(* regist_pass.cpp: the tables of one file, filled in phases over its      *)
(* declarations: enums; the names of structs and tagged unions, then their *)
(* fields; the check for types that hold themselves; functions; methods.   *)
(* The module chooses the declarations as the phases come to them.  An     *)
(* error is reported and the phase goes on; most phases end the pass when  *)
(* there was one.  Imports come before (ModuleImport), instances of        *)
(* templates after (Instances).                                            *)
(***************************************************************************)
EXTENDS Integers, Sequences, SequencesExt, FiniteSetsExt

CONSTANTS
  Names,        \* what a file may name: enums, structs, unions, functions
  ParamLists,   \* lists of template parameters, and NotGeneric
  FieldLists,   \* the fields of a struct: label and type
  UnionLists,   \* the members of a union
  MemberLists,  \* the members of an enum: label and value
  Signatures,   \* of functions
  MethodLists,  \* the methods of an impl
  Imported,     \* global_symbol before the pass: name to kind and is_public
  ImportedEnums, \* the members of the enums among them
  MaxTokens     \* bound: each field of a struct and its name count one, the rest two

\* Every enum symbol is in the domain it comes from.
ASSUME ImportedAssumption ==
  \A n \in DOMAIN Imported : Imported[n].kind = "enum" => n \in DOMAIN ImportedEnums
AreLists(lists) ==
  \A list \in lists : Len(list) \in Nat /\ list = [i \in 1..Len(list) |-> list[i]]
ASSUME ListsAssumption == AreLists(FieldLists) /\ AreLists(UnionLists) /\ AreLists(MemberLists)

VARIABLES
  phase,
  symbols,      \* global_symbol
  enums,        \* the members of each enum the file knows
  structs, templates, unions, functions, \* the domain's tables: name to what is known of it
  decls,        \* the struct and union declarations, in their order
  at,           \* how many of them have their fields
  generics,     \* sema_context.generics
  selfRefs,     \* the types check_self_reference reports
  errors, tokens
tables == <<enums, structs, templates, unions, functions>>
vars == <<phase, symbols, tables, decls, at, generics, selfRefs, errors, tokens>>

NotGeneric == <<"not generic">>
Template(params) == IF params = NotGeneric THEN << >> ELSE params
NoType == [name |-> "", depth |-> 0, array |-> "no", ref |-> FALSE, args |-> << >>]
Untagged == "enum"                  \* union(enum): the members number themselves
None == -1
NotWhole == -2

NoEntries == [x \in {} |-> None]
Put(table, name, entry) ==
  [x \in DOMAIN table \cup {name} |-> IF x = name THEN entry ELSE table[x]]
Entry(params, refEnum) ==
  [params |-> params, field |-> NoEntries, method |-> NoEntries, refEnum |-> refEnum,
   tags |-> NoEntries]

Init ==
  /\ phase = "enums" /\ symbols = Imported
  /\ enums = ImportedEnums /\ structs = NoEntries /\ templates = NoEntries
  /\ unions = NoEntries /\ functions = NoEntries
  /\ decls = << >> /\ at = 0 /\ generics = {} /\ selfRefs = {}
  /\ errors = FALSE /\ tokens = 0

\* What follows an error counts twice.
Spend(n) == tokens' = tokens + (IF errors THEN 2 * n ELSE n) /\ tokens' <= MaxTokens
Report(bad) == errors' = (errors \/ bad)
Known == DOMAIN symbols
KindOf(n) == symbols[n].kind
Declare(name, kind) == symbols' = Put(symbols, name, [kind |-> kind, public |-> TRUE])
LabelsOf(list) == [i \in DOMAIN list |-> list[i][1]]
Repeats(list) == \E i, j \in DOMAIN list : i < j /\ list[i] = list[j]
-----------------------------------------------------------------------------
(***************************************************************************)
(* A table of labels, and the entries of a list (those at some places)     *)
(* put into it: a label that is there keeps its value and its place.       *)
(***************************************************************************)
Labels(list, some) == {list[i][1] : i \in some}
First(list, some, l) ==
  CHOOSE i \in some : list[i][1] = l /\ \A j \in some : list[j][1] = l => i <= j
Before(list, some, l) == Labels(list, {i \in some : i < First(list, some, l)})
Loaded(table, list, some) ==
  [l \in DOMAIN table \cup Labels(list, some) |->
     IF l \in DOMAIN table THEN table[l]
     ELSE [value |-> list[First(list, some, l)][2],
           place |-> Cardinality(DOMAIN table \cup Before(list, some, l))]]
\* A label comes that is there already.
Again(table, list, some) ==
  \E i \in some : \/ list[i][1] \in DOMAIN table
                  \/ \E j \in some : j < i /\ list[j][1] = list[i][1]
-----------------------------------------------------------------------------
(***************************************************************************)
(* type_resolver::resolve with ctx.generics = gs.                          *)
(***************************************************************************)
Undefined(n, gs) == n \notin Known /\ n \notin gs
Unusable(n) == n \in Known /\ (~symbols[n].public \/ KindOf(n) = "func")
IsError(t, gs) ==
  Undefined(t.name, gs) \/ (t.name = "void" /\ t.depth = 0 /\ t.ref)
\* Mutant: the arguments of a template are not resolved.
ReportsOwnName(t, gs) ==
  IsError(t, gs) \/ t.array = "empty" \/ Undefined(t.name, gs) \/ Unusable(t.name)
Reports(t, gs) ==
  \/ IsError(t, gs)
  \/ t.array = "empty"
  \/ \E n \in {t.name} \cup ToSet(t.args) : Undefined(n, gs) \/ Unusable(n)
-----------------------------------------------------------------------------
(***************************************************************************)
(* Enums.  A member is a label and a value, None where it has none; a      *)
(* number with a point or an e in it is NotWhole.                           *)
(***************************************************************************)
Mixed(members) == \E m, n \in ToSet(members) : m[2] = None /\ n[2] # None
Float(members) == \E m \in ToSet(members) : m[2] = NotWhole
Numbered(members) ==
  LET table == Loaded(NoEntries, members, DOMAIN members)
  IN  [l \in DOMAIN table |-> IF table[l].value = None THEN table[l].place ELSE table[l].value]

RegistSingleEnum(name, members) ==
  /\ phase = "enums" /\ Spend(2)
  /\ IF name \in Known THEN Report(TRUE) /\ UNCHANGED <<symbols, enums>>
     ELSE LET refused == Mixed(members) \/ Float(members)
          IN  /\ Declare(name, "enum")
              /\ enums' = Put(enums, name, IF refused THEN NoEntries ELSE Numbered(members))
              /\ Report(refused \/ Again(NoEntries, members, DOMAIN members))
  /\ UNCHANGED <<phase, structs, templates, unions, functions, decls, at, generics, selfRefs>>
-----------------------------------------------------------------------------
(***************************************************************************)
(* The names of structs and unions.  A declaration that is refused here    *)
(* still takes part in the next phase.                                     *)
(***************************************************************************)
\* The parameters of a template against the symbols known so far.
ParamsRefused(params) ==
  params # NotGeneric
  /\ (params = << >> \/ Repeats(params) \/ \E p \in ToSet(params) : p \in DOMAIN symbols')

RegistSingleStructSymbol(name, params) ==
  /\ phase = "symbols" /\ Spend(1)
  /\ decls' = Append(decls, [kind |-> "struct", name |-> name, params |-> params])
  /\ IF name \in Known THEN Report(TRUE) /\ UNCHANGED <<symbols, structs, templates>>
     ELSE /\ Declare(name, "struct")
          /\ IF params = NotGeneric
             THEN structs' = Put(structs, name, Entry(<< >>, "")) /\ UNCHANGED templates
             ELSE templates' = Put(templates, name, Entry(params, "")) /\ UNCHANGED structs
          /\ Report(ParamsRefused(params))
  /\ UNCHANGED <<phase, enums, unions, functions, at, generics, selfRefs>>

UsableEnum(name) == name \in DOMAIN symbols' /\ symbols'[name].kind = "enum"
\* Mutant: the members are not looked up in the enum.
RefEnumUnknown(refEnum, labels) == refEnum # Untagged /\ ~UsableEnum(refEnum)
\* check_ref_enum
RefEnumRefused(refEnum, labels) ==
  refEnum # Untagged /\ (UsableEnum(refEnum) => ~(ToSet(labels) \subseteq DOMAIN enums[refEnum]))

RegistSingleUnionSymbol(name, refEnum, fields) ==
  /\ phase = "symbols" /\ Spend(2)
  /\ decls' = Append(decls, [kind |-> "union", name |-> name, refEnum |-> refEnum,
                            fields |-> fields])
  /\ IF name \in Known THEN Report(TRUE) /\ UNCHANGED <<symbols, unions>>
     ELSE /\ Declare(name, "union")
          /\ unions' = Put(unions, name, Entry(<< >>, refEnum))
          /\ Report(RefEnumRefused(refEnum, LabelsOf(fields)))
  /\ UNCHANGED <<phase, enums, structs, templates, functions, at, generics, selfRefs>>
-----------------------------------------------------------------------------
(***************************************************************************)
(* The fields or members of the next declaration.  Only a struct or a      *)
(* function sets ctx.generics.                                             *)
(***************************************************************************)
Kept(fields, gs) == {i \in DOMAIN fields : ~IsError(fields[i][2], gs)}
AnyReports(fields, gs) == \E f \in ToSet(fields) : Reports(f[2], gs)
FieldPhase(kind) ==
  phase = "fields" /\ at < Len(decls) /\ decls[at + 1].kind = kind /\ at' = at + 1

WithFields(entry, fields, gs) ==
  [entry EXCEPT !.field = Loaded(entry.field, fields, Kept(fields, gs))]

StructLoaded(name) == name \in DOMAIN structs \cup DOMAIN templates

RegistSingleStructField(fields) ==
  LET d == decls[at + 1]
      gs == ToSet(Template(d.params))
      own == IF d.params = NotGeneric THEN structs ELSE templates
      filled == WithFields(own[d.name], fields, gs)
  IN  /\ FieldPhase("struct") /\ Spend(Len(fields))
      /\ IF ~StructLoaded(d.name) THEN UNCHANGED <<phase, structs, templates, generics, errors>>
         ELSE IF d.name \notin DOMAIN own      \* .at of the other table throws
         THEN phase' = "crashed" /\ UNCHANGED <<structs, templates, generics, errors>>
         ELSE /\ generics' = gs
              /\ Report(AnyReports(fields, gs) \/ Again(own[d.name].field, fields, Kept(fields, gs)))
              /\ IF d.params = NotGeneric
                 THEN structs' = Put(structs, d.name, filled) /\ UNCHANGED templates
                 ELSE templates' = Put(templates, d.name, filled) /\ UNCHANGED structs
              /\ UNCHANGED phase
      /\ UNCHANGED <<symbols, enums, unions, functions, decls, selfRefs>>

\* load_union_member_map: by position, or by the value in the enum.
Tags(d, field) ==
  IF d.refEnum = Untagged THEN [m \in DOMAIN field |-> field[m].place]
  ELSE IF d.refEnum \in Known /\ KindOf(d.refEnum) = "enum"
  THEN [m \in ToSet(LabelsOf(d.fields)) \cap DOMAIN enums[d.refEnum] |-> enums[d.refEnum][m]]
  ELSE NoEntries
WithTags(entry, d) ==
  [entry EXCEPT !.tags =
     [m \in DOMAIN entry.tags \cup DOMAIN Tags(d, entry.field) |->
        IF m \in DOMAIN entry.tags THEN entry.tags[m] ELSE Tags(d, entry.field)[m]]]

RegistSingleUnionMember ==
  LET d == decls[at + 1]
  IN  /\ FieldPhase("union")
      /\ IF d.name \notin DOMAIN unions THEN UNCHANGED <<unions, errors>>
         ELSE IF d.fields = << >> THEN Report(TRUE) /\ UNCHANGED unions
         ELSE /\ unions' = Put(unions, d.name,
                               WithTags(WithFields(unions[d.name], d.fields, generics), d))
              /\ Report(\/ AnyReports(d.fields, generics)
                        \/ Again(unions[d.name].field, d.fields, Kept(d.fields, generics))
                        \/ \E f \in ToSet(d.fields) : f[2].ref)
      /\ UNCHANGED <<phase, symbols, enums, structs, templates, functions, decls, generics,
                     selfRefs, tokens>>
-----------------------------------------------------------------------------
(***************************************************************************)
(* check_self_reference: a search along the fields that are not pointers,  *)
(* by the names of their types, from every type that has such a field.     *)
(* An array counts as a pointer, and no template has instances yet.        *)
(***************************************************************************)
Composite == DOMAIN structs \cup DOMAIN unions
TypesIn(field) == {field[l].value : l \in DOMAIN field}
FieldTypes(n) == TypesIn(IF n \in DOMAIN structs THEN structs[n].field ELSE unions[n].field)
IsPointer(t) == t.depth > 0 \/ t.array # "no"
NextTypes(n) == {t.name : t \in {u \in FieldTypes(n) : ~IsPointer(u)}} \cap Composite
\* Mutant: only the types of its own fields are searched.
SearchedOnce(n) == {n} \cup NextTypes(n)
\* visited, when nothing is left in the queue
Searched(n) ==
  {m \in Composite :
     \A visited \in SUBSET Composite :
       n \in visited /\ (\A x \in visited : NextTypes(x) \subseteq visited) => m \in visited}
NeedCheck == {n \in Composite : NextTypes(n) # {}}

CheckSelfReference ==
  /\ phase = "fields" /\ at = Len(decls)
  /\ selfRefs' = {n \in NeedCheck : n \in UNION {NextTypes(x) : x \in Searched(n)}}
  /\ Report(selfRefs' # {})
  /\ phase' = IF errors' THEN "stopped" ELSE "functions"
  /\ UNCHANGED <<symbols, tables, decls, at, generics, tokens>>
-----------------------------------------------------------------------------
(***************************************************************************)
(* Functions.  A signature is its parameters, name and type, and the type  *)
(* it returns.                                                             *)
(***************************************************************************)
SignatureReports(sig, gs) ==
  \/ Repeats(LabelsOf(sig.params)) \/ Reports(sig.ret, gs)
  \/ \E p \in ToSet(sig.params) : p[2] = NoType \/ Reports(p[2], gs)
NamesIn(t) == {t.name} \cup ToSet(t.args)
SignatureNames(sig) == NamesIn(sig.ret) \cup UNION {NamesIn(p[2]) : p \in ToSet(sig.params)}

RegistSingleGlobalFunc(name, params, sig, extern) ==
  /\ phase = "functions" /\ Spend(2)
  /\ IF name \in Known THEN Report(TRUE) /\ UNCHANGED <<symbols, functions, generics>>
     ELSE /\ Declare(name, "func")
          /\ functions' = Put(functions, name, [params |-> Template(params),
                                                names |-> SignatureNames(sig)])
          /\ generics' = {}
          \* the function is a symbol already when its types are resolved
          /\ Report(\/ SignatureReports(sig, ToSet(Template(params)))'
                    \/ ParamsRefused(params) \/ (extern /\ params # NotGeneric))
  /\ UNCHANGED <<phase, enums, structs, templates, unions, decls, at, selfRefs>>
-----------------------------------------------------------------------------
(***************************************************************************)
(* Methods.  One impl and its methods: a name, with the condition it is    *)
(* compiled under if it has one, and a signature.  An impl of a struct     *)
(* sets ctx.generics, an impl of a union does not.                         *)
(***************************************************************************)
Builtin == {"__size__", "__alloc__", "__ptr__"}
\* generate_self_parameter: "self" is given a type where it has none.
SelfParams(sig, self) ==
  [sig EXCEPT !.params =
     [i \in DOMAIN @ |-> IF @[i][1] = "self" /\ @[i][2] = NoType THEN <<"self", self>> ELSE @[i]]]
SelfRefused(sig) ==
  \E i \in DOMAIN sig.params : sig.params[i][1] = "self" /\ (i > 1 \/ sig.params[i][2] # NoType)
SelfType(name, entry) == [NoType EXCEPT !.name = name, !.ref = TRUE, !.args = entry.params]

\* A condition is part of the name until the template has instances.
Key(m) == <<m.name, m.cond>>
Taken(entry, m) ==
  \/ m.cond = "" /\ m.name \in DOMAIN entry.field \cup Builtin
  \/ Key(m) \in DOMAIN entry.method
\* The methods of one impl, one after the other.
Registered(entry, methods) ==
  {i \in DOMAIN methods : ~Taken(entry, methods[i])
                          /\ \A j \in 1..(i - 1) : Key(methods[j]) # Key(methods[i])}
MethodNames(name, entry, m) == SignatureNames(SelfParams(m.sig, SelfType(name, entry)))
WithMethods(name, entry, methods) ==
  LET new == Registered(entry, methods) IN
  [entry EXCEPT !.method =
     [k \in DOMAIN entry.method \cup {Key(methods[i]) : i \in new} |->
        IF k \in DOMAIN entry.method THEN entry.method[k]
        ELSE MethodNames(name, entry, methods[CHOOSE i \in new : Key(methods[i]) = k])]]
MethodsReport(name, entry, methods, gs) ==
  \/ Registered(entry, methods) # DOMAIN methods
  \/ \E m \in ToSet(methods) :
       \/ m.generic \/ m.extern \/ SelfRefused(m.sig)
       \/ SignatureReports(SelfParams(m.sig, SelfType(name, entry)), gs)

\* validate_impl, for a table of structs.
ImplRefused(name, params, methods) ==
  IF name \in DOMAIN structs
  THEN params # NotGeneric \/ \E m \in ToSet(methods) : m.cond # ""
  ELSE params = NotGeneric

RegistImplForStruct(name, params, methods) ==
  LET own == IF name \in DOMAIN structs THEN structs ELSE templates
      gs == ToSet(own[name].params)
      entry == WithMethods(name, own[name], methods)
  IN  /\ name \in DOMAIN structs \cup DOMAIN templates
      /\ IF ImplRefused(name, params, methods)
         THEN Report(TRUE) /\ UNCHANGED <<structs, templates, generics>>
         ELSE /\ generics' = gs
              /\ Report(MethodsReport(name, own[name], methods, gs)
                        \/ (params # NotGeneric /\ params # own[name].params))
              /\ IF name \in DOMAIN structs
                 THEN structs' = Put(structs, name, entry) /\ UNCHANGED templates
                 ELSE templates' = Put(templates, name, entry) /\ UNCHANGED structs
      /\ UNCHANGED unions

\* Neither a list of parameters nor a condition on a method is looked at.
RegistImplForUnion(name, list) ==
  LET methods == [i \in DOMAIN list |-> [list[i] EXCEPT !.cond = ""]] IN
  /\ name \in DOMAIN unions \ (DOMAIN structs \cup DOMAIN templates)
  /\ unions' = Put(unions, name, WithMethods(name, unions[name], methods))
  /\ Report(MethodsReport(name, unions[name], methods, generics))
  /\ UNCHANGED <<structs, templates, generics>>

RegistSingleImpl(name, params, methods) ==
  /\ phase = "impls" /\ Spend(2)
  /\ \/ RegistImplForStruct(name, params, methods)
     \/ RegistImplForUnion(name, methods)
     \/ /\ name \notin DOMAIN structs \cup DOMAIN templates \cup DOMAIN unions
        /\ Report(TRUE) /\ UNCHANGED <<structs, templates, unions, generics>>
  /\ UNCHANGED <<phase, symbols, enums, functions, decls, at, selfRefs>>
-----------------------------------------------------------------------------
\* run: the end of a phase; only that of the enums does not ask for errors.
EndPhase ==
  /\ phase \in {"enums", "symbols", "functions", "impls"}
  /\ phase' = CASE phase = "enums" -> "symbols"
                [] phase = "symbols" -> "fields"
                [] phase = "functions" -> IF errors THEN "stopped" ELSE "impls"
                [] phase = "impls" -> IF errors THEN "stopped" ELSE "done"
  /\ UNCHANGED <<symbols, tables, decls, at, generics, selfRefs, errors, tokens>>

\* The phase stands before the choices of what is declared in it, so that TLC
\* asks for it once.
Next ==
  \/ \E name \in Names, members \in MemberLists : RegistSingleEnum(name, members)
  \/ \E name \in Names, params \in ParamLists : RegistSingleStructSymbol(name, params)
  \/ /\ phase = "symbols"
     /\ \E name \in Names, refEnum \in Names \cup DOMAIN ImportedEnums \cup {Untagged},
           fields \in UnionLists :
          RegistSingleUnionSymbol(name, refEnum, fields)
  \/ \E fields \in FieldLists : RegistSingleStructField(fields)
  \/ RegistSingleUnionMember
  \/ CheckSelfReference
  \/ /\ phase = "functions"
     /\ \E name \in Names, params \in ParamLists, sig \in Signatures, extern \in BOOLEAN :
          RegistSingleGlobalFunc(name, params, sig, extern)
  \/ /\ phase = "impls"
     /\ \E name \in Names, params \in ParamLists, methods \in MethodLists :
          RegistSingleImpl(name, params, methods)
  \/ EndPhase
Spec == Init /\ [][Next]_vars
-----------------------------------------------------------------------------
(***************************************************************************)
(* Properties.                                                             *)
(***************************************************************************)
Accepted == phase = "done"

\* What a value of type n really holds: other types, through fields that are
\* no pointers; elements of an array; the arguments of a template that holds
\* its parameters.
Declared == Composite \cup DOMAIN templates
AllFields(n) == IF n \in Composite THEN FieldTypes(n) ELSE TypesIn(templates[n].field)
Edges(Counts(_)) ==
  [n \in Declared |-> {m \in Declared : \E t \in AllFields(n) : Counts(t) /\ m \in NamesIn(t)}]
OnCycle(edges) ==
  {n \in Composite :
     \A S \in SUBSET Declared :
       edges[n] \subseteq S /\ (\A x \in S : edges[x] \subseteq S) => n \in S}
Plain(t) == t.name \in Composite /\ t.depth = 0 /\ ~t.ref /\ t.array = "no" /\ t.args = << >>
Inside(t) == ~(t.depth > 0)

\* check_self_reference (regist_pass.cpp:1258) finds each struct and union that
\* holds itself in plain fields, through any chain of types in any order, and
\* reports none that cannot reach itself by fields that are no pointers.  It
\* overlooks arrays and instances of templates, and refuses references.
SelfReferencesFound ==
  phase \notin {"enums", "symbols", "fields", "crashed"} =>
    OnCycle(Edges(Plain)) \subseteq selfRefs /\ selfRefs \subseteq OnCycle(Edges(Inside))

\* Each type named in a registered field, parameter or result is a symbol of the
\* file or a parameter of the template it belongs to; only a union may name what
\* a template before it left in ctx.generics (regist_pass.cpp:1468, 1736).
NamesUsed(entry) ==
  (UNION {NamesIn(t) : t \in TypesIn(entry.field)})
  \cup (UNION {entry.method[k] : k \in DOMAIN entry.method})
LeftBehind == UNION {ToSet(templates[n].params) : n \in DOMAIN templates}
NamesInScope ==
  Accepted =>
    /\ \A n \in DOMAIN structs : NamesUsed(structs[n]) \subseteq Known
    /\ \A n \in DOMAIN templates :
         NamesUsed(templates[n]) \subseteq Known \cup ToSet(templates[n].params)
    /\ \A n \in DOMAIN functions : functions[n].names \subseteq Known \cup ToSet(functions[n].params)
    /\ \A n \in DOMAIN unions : NamesUsed(unions[n]) \subseteq Known \cup LeftBehind

\* The generated switch tells the members of an accepted union apart: each has a
\* tag, and two share one only where the enum gives both the same value.
TagsMatchMembers ==
  Accepted =>
    \A n \in DOMAIN unions :
      LET u == unions[n]
          members == DOMAIN u.field
      IN  /\ members # {} /\ DOMAIN u.tags = members
          /\ \A x, y \in members :
               x # y /\ u.tags[x] = u.tags[y]
                 => u.refEnum # Untagged /\ enums[u.refEnum][x] = enums[u.refEnum][y]
=============================================================================
