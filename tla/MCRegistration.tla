--------------------------- MODULE MCRegistration ---------------------------
(***************************************************************************)
(* A small vocabulary for Registration: names a, b and c, the parameter T    *)
(* and what was imported: a private struct p, an enum e, a function q.     *)
(***************************************************************************)
EXTENDS Registration, TLC

MCImported ==
  [n \in {"i8", "void", "p", "q", "e"} |->
     CASE n \in {"i8", "void"} -> [kind |-> "basic", public |-> TRUE]
       [] n = "p" -> [kind |-> "struct", public |-> FALSE]
       [] n = "e" -> [kind |-> "enum", public |-> TRUE]
       [] n = "q" -> [kind |-> "func", public |-> TRUE]]
MCImportedEnums == [n \in {"e"} |-> [l \in {"x", "y"} |-> 1]]
MCNames == {"a", "b", "c"}
MCParamLists == {NotGeneric, << >>, <<"T">>}

Of(n) == [NoType EXCEPT !.name = n]
Pointer(n) == [Of(n) EXCEPT !.depth = 1]
MCTypes == {Of("i8"), Of("a"), Of("b"), Of("c"), Of("T"), Pointer("a"), [Of("b") EXCEPT !.ref = TRUE],
               [Of("a") EXCEPT !.array = "sized"], [Of("b") EXCEPT !.args = <<"a">>]}
MCFieldLists ==
  {<< >>} \cup {<<<<"x", t>>>> : t \in MCTypes}
  \cup {<<<<"x", t>>, <<l, Of("i8")>>>> : t \in {Of("b"), Of("T")}, l \in {"x", "y"}}
MCUnionLists ==
  {<< >>} \cup {<<<<"x", t>>>> : t \in {Of("T"), [Of("b") EXCEPT !.ref = TRUE]}}
  \cup {<<<<"x", Of("a")>>, <<l, Of("i8")>>>> : l \in {"x", "y"}}
MCMemberLists == {<<<<"x", 1>>>>, <<<<"x", None>>, <<"y", None>>>>,
                  <<<<"x", None>>, <<"y", 2>>>>, <<<<"x", NotWhole>>>>, <<<<"x", 1>>, <<"x", 1>>>>}
MCSignatures ==
  {[params |-> << >>, ret |-> Of("void")],
   [params |-> <<<<"v", Of("T")>>>>, ret |-> Of("T")],
   [params |-> <<<<"v", Of("p")>>, <<"v", Of("q")>>>>, ret |-> Pointer("a")],
   [params |-> << >>, ret |-> [Of("void") EXCEPT !.ref = TRUE]],
   [params |-> << >>, ret |-> [Of("i8") EXCEPT !.array = "empty"]]}
Method(name, cond, params) ==
  [name |-> name, cond |-> cond, generic |-> FALSE, extern |-> FALSE,
   sig |-> [params |-> params, ret |-> Of("T")]]
Plainly(name, params) == [Method(name, "", params) EXCEPT !.sig.ret = Of("a")]
MCMethodLists ==
  {<< >>, <<Plainly("x", << >>)>>, <<Plainly("__ptr__", << >>)>>,
   <<Method("f", "", <<<<"self", NoType>>>>)>>,
   <<Method("f", "is_trivial", << >>), Method("f", "", << >>)>>,
   <<Plainly("f", << >>), Plainly("f", <<<<"self", NoType>>>>)>>,
   <<Plainly("f", <<<<"v", Of("b")>>, <<"self", NoType>>>>)>>,
   <<[Plainly("f", <<<<"self", Of("a")>>>>) EXCEPT !.generic = TRUE]>>}
=============================================================================
