------------------------------ MODULE Instances ------------------------------
(***************************************************************************)
(* generic_visitor and type_replace_pass (regist_pass.cpp): the instances  *)
(* of templates.  scan_and_insert visits the declarations of a file round  *)
(* by round; a template that is used with arguments is copied into the     *)
(* tables, its parameters replaced in the types of the entry and of the    *)
(* copied declaration, and the copy joins the declarations of the next     *)
(* round.  A round without a new instance is the last.                     *)
(*                                                                         *)
(* Names stand for what they say, as in the code: a parameter of a         *)
(* template and a struct of the file that uses it may share one.           *)
(***************************************************************************)
EXTENDS Integers, Sequences, SequencesExt, FiniteSetsExt

CONSTANTS
  Structs,      \* the structs without parameters: name to its methods
  Primitives,
  Programs,     \* pairs of templates and declarations
  MaxDepth      \* MAX_RECURSIVE_DEPTH

VARIABLES
  templates,    \* name to kind, params, types, methods
  decls,        \* the declarations: the types each one names
  at,           \* how many this round has visited
  todo,         \* the uses of templates left in the one it visits
  pending,      \* need_to_be_inserted
  inserted,     \* insert_count is not 0
  instances,    \* the entries of instances: a type to its types and methods
  errors,
  pc            \* "scan", "done" or "overflow", the stack is exhausted
vars == <<templates, decls, at, todo, pending, inserted, instances, errors, pc>>

\* A type is a name, the number of stars, and its arguments.
Generic(t) == t.args # << >>
RECURSIVE Depth(_)
Depth(t) == IF Generic(t) THEN 1 + Max({Depth(a) : a \in ToSet(t.args)}) ELSE 0
RECURSIVE NamesOf(_)
NamesOf(t) == {t.name} \cup UNION {NamesOf(a) : a \in ToSet(t.args)}
Instance(t) == [t EXCEPT !.depth = 0]

Init ==
  /\ \E p \in Programs : templates = p.templates /\ decls = p.decls
  /\ at = 0 /\ todo = << >> /\ pending = << >> /\ inserted = FALSE
  /\ instances = [x \in {} |-> << >>] /\ errors = FALSE /\ pc = "scan"
-----------------------------------------------------------------------------
(***************************************************************************)
(* replace_type and visit_type_def of the replacing pass: what stands for  *)
(* a parameter is searched for parameters again, and found inside itself   *)
(* without end.                                                            *)
(***************************************************************************)
Endless == [name |-> "endless", depth |-> 0, args |-> << >>]
Selected(t, data) ==
  IF t.name \in DOMAIN data
  THEN [data[t.name] EXCEPT !.depth = @ + t.depth] ELSE t
\* inside: the parameters whose replacement this type is part of.
RECURSIVE ReplaceType(_, _, _)
ReplaceType(t, data, inside) ==
  IF t.name \in inside THEN Endless
  ELSE LET deeper == inside \cup ({t.name} \cap DOMAIN data)
       IN  [Selected(t, data) EXCEPT !.args = [i \in DOMAIN @ |-> ReplaceType(@[i], data, deeper)]]
Replaced(t, data) == ReplaceType(t, data, {})
Overflows(t) == "endless" \in NamesOf(t)
-----------------------------------------------------------------------------
(***************************************************************************)
(* Methods that are compiled for some arguments only.                      *)
(***************************************************************************)
\* The methods of the struct a type names, by the tables of the moment.
MethodsOf(t, table) ==
  IF Instance(t) \in DOMAIN table THEN table[Instance(t)].methods
  ELSE IF t.name \in DOMAIN Structs /\ ~Generic(t) THEN Structs[t.name] ELSE {}
IsPointer(t) == t.depth > 0
Deletes(t, table) == ~IsPointer(t) /\ "delete" \in MethodsOf(t, table)
Holds(cond, t, table) ==
  CASE cond = "is_trivial" -> ~Deletes(t, table)
    [] cond = "is_non_trivial" -> Deletes(t, table)
    [] cond = "is_pointer" -> IsPointer(t)
    [] cond = "is_non_pointer" -> ~IsPointer(t)

\* m.checks lists what the conditions of a method ask, in the order they are
\* asked: pairs of a condition and a parameter.  The first that fails removes the
\* method, and is reported when its name is no parameter of the template.
Passes(check, data, table) ==
  check[2] \in DOMAIN data /\ Holds(check[1], data[check[2]], table)
Kept(m, data, table) == \A check \in ToSet(m.checks) : Passes(check, data, table)
Compiled(methods, data, table) == SelectSeq(methods, LAMBDA m : Kept(m, data, table))
ConditionsReport(methods, data, table) ==
  \/ \E m \in ToSet(methods) : \E i \in DOMAIN m.checks :
        /\ m.checks[i][2] \notin DOMAIN data
        /\ \A j \in 1..i - 1 : Passes(m.checks[j], data, table)
  \/ LET kept == Compiled(methods, data, table)
     IN  \E i, j \in DOMAIN kept : i # j /\ kept[i].name = kept[j].name
-----------------------------------------------------------------------------
(***************************************************************************)
(* One use of a template with arguments.                                   *)
(***************************************************************************)
Data(tpl, t) == [p \in ToSet(tpl.params) |-> t.args[CHOOSE i \in DOMAIN tpl.params : tpl.params[i] = p]]
Defined == DOMAIN templates \cup DOMAIN Structs \cup Primitives

\* scan_generic_type for a type, visit_call_id for a name in an expression; then
\* check_generic_type, which gives up once anything was reported.
Refused(u) ==
  \/ errors
  \/ u.type.name \notin DOMAIN templates
  \/ LET tpl == templates[u.type.name]
     IN  (tpl.kind = "func" /\ ~u.call) \/ Len(tpl.params) # Len(u.type.args)
  \/ ~(NamesOf(u.type) \subseteq Defined)
TooDeep(t) == Depth(t) > MaxDepth
Loaded(t) == t \in DOMAIN instances

Using(u) == pc = "scan" /\ todo # << >> /\ u = Head(todo) /\ todo' = Tail(todo)

Report ==
  /\ Using(Head(todo))
  /\ Refused(Head(todo)) \/ TooDeep(Head(todo).type)
  /\ errors' = TRUE
  /\ UNCHANGED <<templates, decls, at, pending, inserted, instances, pc>>

\* Mutant: an instance that is there counts as a new one.
SkipCounted ==
  /\ Using(Head(todo))
  /\ ~Refused(Head(todo)) /\ ~TooDeep(Head(todo).type) /\ Loaded(Head(todo).type)
  /\ inserted' = TRUE
  /\ UNCHANGED <<templates, decls, at, pending, instances, errors, pc>>

\* insert_generic_data, for an instance that is there.
Skip ==
  /\ Using(Head(todo))
  /\ ~Refused(Head(todo)) /\ ~TooDeep(Head(todo).type) /\ Loaded(Head(todo).type)
  /\ UNCHANGED <<templates, decls, at, pending, inserted, instances, errors, pc>>

Insert ==
  \E t \in {u.type : u \in ToSet(todo)} :
    LET tpl == templates[t.name]
        data == Data(tpl, t)
    IN  /\ Using(Head(todo)) /\ t = Head(todo).type
        /\ ~Refused(Head(todo)) /\ ~TooDeep(t) /\ ~Loaded(t)
        /\ \E types \in {[i \in DOMAIN tpl.types |-> Replaced(tpl.types[i], data)]} :
             /\ instances' = [x \in DOMAIN instances \cup {t} |->
                  IF x # t THEN instances[x]
                  ELSE [types |-> types,
                        methods |-> {m.name : m \in ToSet(Compiled(tpl.methods, data, instances))}]]
             /\ pending' = Append(pending, types)
             /\ pc' = IF \E i \in DOMAIN types : Overflows(types[i]) THEN "overflow" ELSE pc
        /\ inserted' = TRUE
        /\ errors' = ConditionsReport(tpl.methods, data, instances)
        /\ UNCHANGED <<templates, decls, at>>
-----------------------------------------------------------------------------
(***************************************************************************)
(* scan_and_insert.                                                        *)
(***************************************************************************)
\* Mutant: a type before its arguments.
RECURSIVE UsesOutermostFirst(_, _)
UsesOutermostFirst(t, call) ==
  (IF Generic(t) THEN <<[type |-> Instance(t), call |-> call]>> ELSE << >>)
  \o FlattenSeq([i \in DOMAIN t.args |-> UsesOutermostFirst(t.args[i], FALSE)])

\* The uses in a type: those in its arguments first.
RECURSIVE UsesIn(_, _)
UsesIn(t, call) ==
  FlattenSeq([i \in DOMAIN t.args |-> UsesIn(t.args[i], FALSE)])
  \o (IF Generic(t) THEN <<[type |-> Instance(t), call |-> call]>> ELSE << >>)
IsCall(t) == t.name \in DOMAIN templates /\ templates[t.name].kind = "func"
UsesOf(types) == FlattenSeq([i \in DOMAIN types |-> UsesIn(types[i], IsCall(types[i]))])

VisitDecl ==
  /\ pc = "scan" /\ todo = << >> /\ at < Len(decls)
  /\ at' = at + 1 /\ todo' = UsesOf(decls[at + 1])
  /\ UNCHANGED <<templates, decls, pending, inserted, instances, errors, pc>>

\* Mutant: what the new instances name is not visited.
EndFirstRound ==
  /\ pc = "scan" /\ todo = << >> /\ at = Len(decls)
  /\ decls' = decls \o pending /\ pc' = "done"
  /\ UNCHANGED <<templates, at, todo, pending, inserted, instances, errors>>

EndRound ==
  /\ pc = "scan" /\ todo = << >> /\ at = Len(decls)
  /\ decls' = decls \o pending
  /\ at' = 0 /\ pending' = << >> /\ inserted' = FALSE
  /\ pc' = IF inserted THEN "scan" ELSE "done"
  /\ UNCHANGED <<templates, todo, instances, errors>>

Next == Report \/ Skip \/ Insert \/ VisitDecl \/ EndRound
Spec == Init /\ [][Next]_vars /\ WF_vars(Next)
-----------------------------------------------------------------------------
(***************************************************************************)
(* Properties.                                                             *)
(***************************************************************************)
\* Replacement as it should be: what stands for a parameter is left alone.
RECURSIVE Substituted(_, _)
Substituted(t, data) ==
  IF t.name \in DOMAIN data THEN Selected(t, data)
  ELSE [t EXCEPT !.args = [i \in DOMAIN @ |-> Substituted(@[i], data)]]
\* An argument names, below its top, something called like a parameter.
Captured(t) ==
  \E a \in ToSet(t.args) : Generic(a) /\ NamesOf([a EXCEPT !.name = a.args[1].name])
                                           \cap ToSet(templates[t.name].params) # {}
Accepted == pc = "done" /\ ~errors

\* When a file is accepted every template it uses, directly or through other
\* instances, has its instance, and the types of an instance are those of its
\* template with the parameters substituted, unless an argument was captured.
InstancesComplete ==
  Accepted =>
    /\ \A types \in ToSet(decls) \cup {instances[t].types : t \in DOMAIN instances} :
         \A u \in ToSet(UsesOf(types)) : u.type \in DOMAIN instances
    /\ \A t \in DOMAIN instances :
         LET tpl == templates[t.name]
         IN  \/ Captured(t)
             \/ instances[t].types =
                  [i \in DOMAIN tpl.types |-> Substituted(tpl.types[i], Data(tpl, t))]

\* A method stays or goes by what its arguments are when the instance is made
\* (regist_pass.cpp:412); the finished tables would decide no differently.
ConditionsStillTrue ==
  Accepted =>
    \A t \in DOMAIN instances :
      LET tpl == templates[t.name]
      IN  instances[t].methods = {m.name : m \in ToSet(Compiled(tpl.methods, Data(tpl, t), instances))}

\* The rounds come to an end: the depth of types bounds what instances can ask
\* for.  Only a captured argument can exhaust the stack before.
Terminates == <>(pc = "done" \/ (pc = "overflow" /\ \E t \in DOMAIN instances : Captured(t)))
=============================================================================
