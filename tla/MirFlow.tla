------------------------------ MODULE MirFlow ------------------------------
(***************************************************************************)
(* What a function of the MIR does, defined on its structure alone: the    *)
(* meaning of if, match, while, for, break, continue, ret, && and || as    *)
(* the language defines them, without blocks, labels or patches.  It is    *)
(* the reference the generated basic blocks are compared with.             *)
(*                                                                         *)
(* A node is a moment in the execution of the construct whose token is at  *)
(* position p of the token sequence t: <<p, "in">> when it starts,         *)
(* <<p, "test">> when the value it depends on is there, <<p, "step">> at   *)
(* the end of an iteration, <<p, "out">> behind it.  An edge maps a node   *)
(* to what is observed there and to the nodes its arms lead to.            *)
(***************************************************************************)
EXTENDS Naturals, Sequences, FiniteSets

Silent == <<"silent", <<"mem", 0>>>>
In(p) == <<p, "in">>
Test(p) == <<p, "test">>
Step(p) == <<p, "step">>
Out(p) == <<p, "out">>

At(node, point, arms) == [node |-> node, point |-> point, arms |-> arms]
Goto(node, to) == At(node, Silent, <<to>>)
Done(edges, end) == [edges |-> edges, end |-> end]

\* A two-way branch on the value of the expression at p.
Branch(t, node, p, yes, no) ==
  CASE t[p] = "true" -> Goto(node, yes)
    [] t[p] = "false" -> Goto(node, no)
    [] OTHER -> At(node, <<"br_cond", <<"var", p>>>>, <<yes, no>>)

\* The flow of one part followed by that of the next, with the edges between.
Joined(first, then, between) == Done(first.edges \cup then.edges \cup between, then.end)

\* with the token behind it
Skip(flow) == [flow EXCEPT !.end = @ + 1]

\* with further edges
Plus(flow, between) == [flow EXCEPT !.edges = @ \cup between]

RECURSIVE ExprFlow(_, _, _), RightFlow(_, _, _, _)
ExprFlow(t, p, after) ==
  CASE t[p] \in {"true", "false", "load", "cmp"} -> Done({Goto(In(p), after)}, p + 1)
    [] t[p] = "call" ->
         Done({At(In(p), <<"inst", <<"inst", p>>>>, <<after>>)}, p + 1)
    [] t[p] \in {"and", "or"} ->
         RightFlow(t, p, ExprFlow(t, p + 1, Test(p)), after)

\* The operator at p, its left operand's flow known.
RightFlow(t, p, left, after) ==
  Joined(left, ExprFlow(t, left.end, after),
         {Goto(In(p), In(p + 1)),
          IF t[p] = "and" THEN Branch(t, Test(p), p + 1, In(left.end), after)
                          ELSE Branch(t, Test(p), p + 1, after, In(left.end))})

Matched(p, on, cases) ==
  Joined(on, cases, {At(Test(p), <<"switch", <<"var", p + 1>>>>, cases.arms)})

Default(body, arms) == [edges |-> body.edges, end |-> body.end + 1, arms |-> arms]

\* A block from p on; break and continue lead to the nodes brk and cont.
RECURSIVE BlockFlow(_, _, _, _, _), RestFlow(_, _, _, _, _), StmtFlow(_, _, _, _),
          LoopFlow(_, _, _), ArmFlow(_, _, _, _, _, _), ArmsFlow(_, _, _, _, _),
          CasesFlow(_, _, _, _, _, _), CaseFlow(_, _, _, _, _, _), MatchFlow(_, _, _, _, _),
          NextArms(_, _, _, _, _, _, _)

BlockFlow(t, p, after, brk, cont) ==
  IF t[p] = "end" THEN Done({Goto(In(p), after)}, p + 1)
  ELSE RestFlow(t, StmtFlow(t, p, brk, cont), after, brk, cont)
RestFlow(t, stmt, after, brk, cont) ==
  Joined(stmt, BlockFlow(t, stmt.end, after, brk, cont), {})

\* behind a construct at p
Behind(flow, p) == Plus(flow, {Goto(In(p), In(p + 1)), Goto(Out(p), In(flow.end))})

StmtFlow(t, p, brk, cont) ==
  CASE t[p] = "do" -> Done({At(In(p), <<"inst", <<"inst", p>>>>, <<In(p + 1)>>)}, p + 1)
    [] t[p] = "define" -> Behind(ExprFlow(t, p + 1, Out(p)), p)
    [] t[p] = "ret" -> Done({At(In(p), <<"ret", <<"inst", p>>>>, <<>>)}, p + 1)
    [] t[p] = "retv" ->
         Plus(ExprFlow(t, p + 1, Test(p)),
              {Goto(In(p), In(p + 1)), At(Test(p), <<"ret", <<"inst", p>>>>, <<>>)})
    [] t[p] = "break" -> Done({Goto(In(p), brk)}, p + 1)
    [] t[p] = "continue" -> Done({Goto(In(p), cont)}, p + 1)
    [] t[p] = "if" -> Behind(ArmsFlow(t, p + 1, Out(p), brk, cont), p)
    [] t[p] = "match" ->
         Behind(MatchFlow(t, p, ExprFlow(t, p + 1, Test(p)), brk, cont), p)
    [] t[p] \in {"while", "for"} ->
         Behind(LoopFlow(t, p, ExprFlow(t, p + 1, Test(p))), p)

LoopFlow(t, p, cond) ==
  Joined(cond, BlockFlow(t, cond.end, Step(p), Out(p), Step(p)),
         {Branch(t, Test(p), p + 1, In(cond.end), Out(p)),
          IF t[p] = "while" THEN Goto(Step(p), In(p))
          ELSE At(Step(p), <<"inst", <<"inst", p>>>>, <<In(p)>>)})

\* The arms of an if from p on: the first whose condition holds is taken.
ArmsFlow(t, p, out, brk, cont) ==
  CASE t[p] = "fi" -> Done({Goto(In(p), out)}, p + 1)
    [] t[p] = "else" ->
         Skip(Plus(BlockFlow(t, p + 1, out, brk, cont), {Goto(In(p), In(p + 1))}))
    [] t[p] = "arm" -> ArmFlow(t, p, ExprFlow(t, p + 1, Test(p)), out, brk, cont)
ArmFlow(t, p, cond, out, brk, cont) ==
  NextArms(t, p, cond, BlockFlow(t, cond.end, out, brk, cont), out, brk, cont)
NextArms(t, p, cond, body, out, brk, cont) ==
  Joined(Joined(cond, body, {Goto(In(p), In(p + 1)),
                             Branch(t, Test(p), p + 1, In(cond.end), In(body.end))}),
         ArmsFlow(t, body.end, out, brk, cont), {})

\* What the value at p is matched with, then the cases.
MatchFlow(t, p, on, brk, cont) ==
  Matched(p, on, CasesFlow(t, on.end, Out(p), brk, cont, <<>>))

\* The cases of a match from p on; its arms are default, case 1, case 2, ...
CasesFlow(t, p, out, brk, cont, cases) ==
  CASE t[p] = "hctam" ->
         [edges |-> {}, end |-> p + 1, arms |-> <<out>> \o cases]
    [] t[p] = "case" ->
         CaseFlow(t, BlockFlow(t, p + 1, out, brk, cont), out, brk, cont,
                  Append(cases, In(p + 1)))
    [] t[p] = "default" ->
         Default(BlockFlow(t, p + 1, out, brk, cont), <<In(p + 1)>> \o cases)
CaseFlow(t, body, out, brk, cont, cases) ==
  Plus(CasesFlow(t, body.end, out, brk, cont, cases), body.edges)

(***************************************************************************)
(* The flow between observable points, in the form of SirFunc!Flow.        *)
(***************************************************************************)
MirFlow(t) ==
  LET edges == BlockFlow(t, 1, Out(0), Out(0), Out(0)).edges
      EdgeAt(n) == CHOOSE e \in edges : e.node = n
      next[fuel \in Nat, n \in {e.node : e \in edges}] ==
        LET e == EdgeAt(n) IN
        IF e.point # Silent THEN e.point
        ELSE IF fuel = 0 THEN <<"diverges", <<"mem", 0>>>>
        ELSE next[fuel - 1, e.arms[1]]
      Next(n) == next[Cardinality(edges), n]
  IN  {<<<<"entry", <<"mem", 0>>>>, 1, Next(In(1))>>} \cup
      UNION {{<<e.point, k, Next(e.arms[k])>> : k \in DOMAIN e.arms} :
               e \in {x \in edges : x.point # Silent}}
=============================================================================
