--------------------------- MODULE DeferSemantics ---------------------------
(***************************************************************************)
(* What a function with deferred blocks does (doc/guide/defer.md), as the  *)
(* set of its traces: a deferred block runs when the block that registered *)
(* it is left, by reaching its end, continue, break or return; the blocks  *)
(* that are left run theirs outermost first, each in the order they were   *)
(* registered; a returned value is computed before them.  Programs without *)
(* defer have the same meaning, so that the definition serves the source   *)
(* and what replace_defer makes of it.                                     *)
(*                                                                         *)
(* A trace lists the statements executed, returned values included.  Which *)
(* arm runs is open, and a loop makes at most Rounds rounds.               *)
(***************************************************************************)
EXTENDS Naturals, Sequences

CONSTANT Rounds

Did(what, s) == <<what, s.at>>
After(t, outcomes) == {[trace |-> t \o o.trace, exit |-> o.exit] : o \in outcomes}
Ends(ts, how) == {[trace |-> t, exit |-> how] : t \in ts}

RECURSIVE Exec(_, _, _, _), RunAll(_), Loop(_, _, _)

(* The traces of running deferred blocks one after the other. *)
RunAll(ds) ==
  IF ds = <<>> THEN {<<>>}
  ELSE {o.trace \o t : o \in Exec(Head(ds).body, <<>>, <<>>, <<>>), t \in RunAll(Tail(ds))}

(* n rounds of loop s at most; every round leaves its block. *)
Loop(s, all, n) ==
  {[trace |-> <<>>, exit |-> "end"]} \cup
  IF n = 0 THEN {}
  ELSE UNION {CASE o.exit = "ret" -> {o}
                [] o.exit = "break" -> Ends({o.trace}, "end")
                [] OTHER -> After(o.trace, Loop(s, all, n - 1))
              : o \in Exec(s.body, all, <<>>, <<>>)}

(* The statements of a block: all are the deferred blocks pending in the
   function around it, loop those within the innermost loop, own its own. *)
Exec(stmts, all, loop, own) ==
  IF stmts = <<>> THEN Ends(RunAll(own), "end")
  ELSE LET s == Head(stmts)
           rest == Exec(Tail(stmts), all, loop, own)
           Then(os) == UNION {IF o.exit = "end" THEN After(o.trace, rest) ELSE {o} : o \in os}
           Return == {t \o <<Did("return", s)>> : t \in RunAll(all \o own)}
       IN  CASE s.op = "plain" -> After(<<Did("do", s)>>, rest)
             [] s.op = "value" -> After(<<Did("eval", s)>>, rest)
             [] s.op = "defer" -> Exec(Tail(stmts), all, loop, Append(own, s))
             [] s.op = "cond" -> rest \cup Then(Exec(s.body, all \o own, loop \o own, <<>>))
             [] s.op = "loop" -> Then(Loop(s, all \o own, Rounds))
             [] s.op \in {"break", "continue"} -> Ends(RunAll(loop \o own), s.op)
             [] s.op \in {"ret", "retvalue"} -> Ends(Return, "ret")
             [] s.op = "retexpr" -> After(<<Did("eval", s)>>, Ends(Return, "ret"))

Traces(body) == {o.trace : o \in Exec(body, <<>>, <<>>, <<>>)}
=============================================================================
