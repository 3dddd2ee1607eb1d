--------------------------- MODULE MCDeferReplace ---------------------------
(***************************************************************************)
(* replace_defer against the meaning of defer statements.                  *)
(***************************************************************************)
EXTENDS DeferReplace

CONSTANT Rounds     \* rounds of a loop in a trace

Semantics == INSTANCE DeferSemantics

(* The function with the deferred blocks copied in front of its exits does what
   the function as written promises, on every path: what has been registered
   runs once, in order, when its block is left in whatever way, after the
   returned value is computed (doc/guide/defer.md:3-7, :43, :87). *)
SameBehaviour ==
  (result.done /\ ~failed) => Semantics!Traces(result.new) = Semantics!Traces(result.src)
=============================================================================
