---------------------------- MODULE MCExpressions ----------------------------
(***************************************************************************)
(* A small program for Expressions: a struct s with a field of each kind,  *)
(* a union u, an enum e, a function and methods, static and not, public    *)
(* and private.                                                            *)
(***************************************************************************)
EXTENDS Expressions, TLC

MCFields ==
  ("s" :> ("n" :> Type("i8", 0) @@ "p" :> Type("i8", 1) @@ "r" :> RefType("i8", 0)
           @@ "a" :> ArrayType("i8")))
MCMembers == ("u" :> ("m" :> Type("i8", 0) @@ "t" :> Type("s", 0) @@ "q" :> Type("i8", 1)
           @@ "o" :> Type("s", 1)))
MCConstants == ("e" :> {"one"})

Func(params, ret, kind, pub) == [params |-> params, ret |-> ret, kind |-> kind, pub |-> pub]
MCFuncs ==
  <<Module, "f">> :> Func(<<RefType("i8", 0)>>, RefType("i8", 0), "func", TRUE)
  @@ <<Module, "g">> :> Func(<<Type("i8", 1)>>, Void, "func", TRUE)
  @@ <<Module, "h">> :> Func(<<Type("i64", 0), Type("s", 0)>>, Type("f64", 0), "func", TRUE)
  @@ <<Module, "x">> :> Func(<< >>, Type("e", 0), "func", FALSE)
  @@ <<Module, "y">> :> Func(<< >>, ArrayType("i8"), "func", TRUE)
  @@ <<"u", "tag">> :> Func(<<RefType("u", 0), Bool>>, Bool, "method", FALSE)
  @@ <<"u", "new">> :> Func(<<RefType("i8", 1)>>, RefType("u", 0), "static", FALSE)
  @@ <<"s", "get">> :> Func(<<RefType("s", 0)>>, Type("u", 0), "method", FALSE)
  @@ <<"s", "new">> :> Func(<<Type("e", 0)>>, Type("s", 0), "static", TRUE)
  @@ <<"s", "own">> :> Func(<< >>, Type("s", 1), "static", FALSE)
  @@ <<"i8", "__ptr__">> :> Func(<<RefType("i8", 0)>>, Type("i8", 1), "method", TRUE)
  @@ <<"i8", "__size__">> :> Func(<< >>, Type("u64", 0), "static", TRUE)

MCLocals ==
  "x" :> Type("i8", 0) @@ "o" :> Type("u", 0) @@ "k" :> Type("e", 0)
  @@ "l" :> ArrayType("s") @@ "m" :> RefType("bool", 0) @@ "e" :> RefType("e", 0)
  @@ "pv" :> Type("void", 1) @@ "y" :> RefType("s", 1)
  @@ "pf" :> Type("f64", 1) @@ "b" :> Type("bool", 0)
  @@ "v" :> Type("s", 0) @@ "w" :> Type("s", 1) @@ "r" :> RefType("i8", 0)
  @@ "q" :> RefType("i8", 1) @@ "c" :> ConstType("i8", 1)

MCTargets == {Type("i8", 0), Type("u64", 0), Type("f64", 0), Bool, Type("i8", 1), Type("u", 0),
              Type("s", 1), RefType("i8", 0), RefType("i8", 1), ArrayType("i8"), Type("e", 0)}
MCReturns == {Void, Type("i8", 0), RefType("i8", 0), Type("s", 1)}
=============================================================================
