----------------------------- MODULE MCInstances -----------------------------
(***************************************************************************)
(* Programs for Instances: one or two templates, of one parameter and of   *)
(* two, with every choice of the types they name, and a declaration that   *)
(* uses them.  The user's structs d, which has delete, and T, which is     *)
(* called like a parameter.                                                *)
(***************************************************************************)
EXTENDS Instances, TLC

Of(n) == [name |-> n, depth |-> 0, args |-> << >>]
Pointer(t) == [t EXCEPT !.depth = 1]
App(n, args) == [name |-> n, depth |-> 0, args |-> args]

MCStructs == "d" :> {"delete"} @@ "T" :> {"get"}
MCPrimitives == {"i8"}

Method(name, checks) == [name |-> name, checks |-> checks]
Methods ==
  <<Method("delete", <<<<"is_non_trivial", "T">>>>),
    Method("copy", <<<<"is_trivial", "T">>, <<"is_non_pointer", "T">>>>),
    Method("get", <<<<"is_pointer", "T">>>>), Method("get", <<<<"is_non_pointer", "T">>>>),
    Method("size", << >>)>>
OwnTypes ==
  {Of("T"), Pointer(Of("T")), Pointer(App("v", <<Of("T")>>)), App("w", <<Of("T"), Of("i8")>>),
   App("v", <<App("v", <<Of("T")>>)>>), App("f", <<Of("T")>>)}
PairTypes ==
  {App("v", <<Of("K")>>), App("v", <<App("w", <<Of("V"), Of("K")>>)>>), Pointer(Of("V")),
   App("w", <<App("v", <<Of("K")>>), Of("K")>>)}
Struct(params, types, methods) ==
  [kind |-> "struct", params |-> params, types |-> types, methods |-> methods]
UseTypes ==
  {App("v", <<a>>) : a \in {Of("i8"), Of("d"), Of("T"), Pointer(Of("d")), Of("gone")}}
  \cup {App("v", <<App("v", <<a>>)>>) : a \in {Of("d"), Of("T")}}
  \cup {App("w", <<App("v", <<Of("T")>>), Of("d")>>), App("w", <<Of("i8")>>),
        App("f", <<App("v", <<Of("d")>>)>>), Of("i8")}

\* Conditions on both parameters, and on a name that is none, behind another.
Others == {<<<<"is_trivial", "K">>, <<"is_trivial", "V">>>>,
           <<<<"is_trivial", "K">>, <<"is_pointer", "T">>>>}

MCPrograms ==
  {[templates |-> "v" :> Struct(<<"T">>, <<own>>, Methods)
                  @@ "w" :> Struct(<<"K", "V">>, <<pair>>,
                                   <<Method("delete", other)>>)
                  @@ "f" :> [kind |-> "func", params |-> <<"T">>, methods |-> << >>,
                             types |-> <<Of("T"), App("w", <<Of("T"), Of("T")>>)>>],
    decls |-> <<<<t>>, <<u>>>>] :
   own \in OwnTypes, pair \in PairTypes, other \in Others, t \in UseTypes, u \in UseTypes}
=============================================================================
