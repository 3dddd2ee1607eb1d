------------------------------ MODULE SirFunc ------------------------------
(***************************************************************************)
(* The body of one SIR function: sir_block, sir_basic_block and the        *)
(* statements the control-flow code looks at (bootstrap/sir/sir.h and      *)
(* src/sir/sir.colgm), and the control flow graph that control_flow.cpp    *)
(* and control_flow.colgm derive from them.                                *)
(*                                                                         *)
(* A statement is [op, val, to]: op is its kind, val what it computes or   *)
(* tests, to the labels it may jump to in the order build_cfg visits them  *)
(* (br: one; br_cond: true, false; switch: default, case 1, case 2, ...).  *)
(* A value is a pair: <<"lit", 0 or 1>> is an i1 literal, <<"var", n>> an  *)
(* ssa value, <<"inst", n>> an instruction whose execution can be          *)
(* observed, Mem the loads and stores of compiler temporaries.             *)
(***************************************************************************)
EXTENDS Naturals, Sequences, FiniteSets, Functions

CONSTANT Labels     \* the labels a function's blocks can have

ASSUME LabelsAssumption == Labels \subseteq Nat

VARIABLES
  order,            \* sir_block.basic_block: labels of the blocks, in order
  stmts             \* the statements of each block

Ops == {"inst", "ret", "br", "br_cond", "switch"}
Terminators == {"ret", "br", "br_cond", "switch"}

Values == {"lit", "var", "inst", "mem"} \X Nat
Mem == <<"mem", 0>>
Lit(n) == <<"lit", n>>

\* inst and ret have no target, br has one, br_cond two, switch any number.
Stmts ==
  {s \in [op: Ops, val: Values, to: Seq(Labels)] :
     /\ s.op \in {"inst", "ret"} => s.to = <<>>
     /\ s.op = "br" => Len(s.to) = 1
     /\ s.op = "br_cond" => Len(s.to) = 2}

Inst(v) == [op |-> "inst", val |-> v, to |-> <<>>]
Ret(v) == [op |-> "ret", val |-> v, to |-> <<>>]
Br(l) == [op |-> "br", val |-> Mem, to |-> <<l>>]
BrCond(v, t, f) == [op |-> "br_cond", val |-> v, to |-> <<t, f>>]
Switch(v, to) == [op |-> "switch", val |-> v, to |-> to]

FuncTypeOK ==
  /\ order \in Seq(Labels)
  /\ stmts \in [Labels -> Seq(Stmts)]

(***************************************************************************)
(* The blocks of a function, its entry (the first block, which is where    *)
(* the emitted LLVM function starts) and a block's last statement.         *)
(***************************************************************************)
Live == Range(order)
Entry == order[1]
Back(b) == stmts[b][Len(stmts[b])]

\* sir_basic_block.back_is_ret_stmt
BackIsRet(b) == Len(stmts[b]) > 0 /\ Back(b).op = "ret"

(***************************************************************************)
(* control_flow_analysis: one edge per target of every statement, kept     *)
(* when find_bb_by_label finds the target.  The edges into a block are its *)
(* preds vector, the edges out of it its succs vector.                     *)
(***************************************************************************)
StmtEdges(b, i) ==
  {[from |-> b, at |-> i, arm |-> k, to |-> stmts[b][i].to[k]] :
     k \in DOMAIN stmts[b][i].to}

BlockEdges(b) == UNION {StmtEdges(b, i) : i \in DOMAIN stmts[b]}

ControlFlow == {e \in UNION {BlockEdges(b) : b \in Live} : e.to \in Live}

Preds(cfg, b) == {e \in cfg : e.to = b}
Succs(cfg, b) == {e \in cfg : e.from = b}
HasOne(S) == \E x \in S : S = {x}

(***************************************************************************)
(* What makes a function well formed.                                      *)
(***************************************************************************)
\* No two blocks carry the same label.
LabelsDistinct == \A i, j \in DOMAIN order : order[i] = order[j] => i = j

\* Nothing follows a terminator inside a block.
TerminatorsLast(b) ==
  \A i \in DOMAIN stmts[b] :
    stmts[b][i].op \in Terminators => i = Len(stmts[b])

\* The block ends with its only terminator.
Terminated(b) ==
  /\ Len(stmts[b]) > 0
  /\ Back(b).op \in Terminators
  /\ TerminatorsLast(b)

\* Every branch of block b leads to a block of the function.
TargetsLive(b) ==
  \A i \in DOMAIN stmts[b] : Range(stmts[b][i].to) \subseteq Live

(***************************************************************************)
(* What a function does, seen from outside: from each observable point     *)
(* (an instruction, a ret, a branch on a run-time value) and each arm of   *)
(* it, the observable point reached next.  Branches on literals and br     *)
(* are silent.  A missing block, a block without a terminator and a silent *)
(* cycle have an outcome of their own.                                     *)
(***************************************************************************)
Observable(s) == s.val[1] \in {"inst", "var"}
Point(s) == <<s.op, s.val>>
Dangling == <<"dangling", Mem>>
FallsThrough == <<"falls_through", Mem>>
Diverges == <<"diverges", Mem>>

Size == Len(order) + 1
NextPoint(b0, i0) ==
  LET next[fuel \in Nat, b \in Labels, i \in Nat] ==
        IF b \notin Live THEN Dangling
        ELSE IF i > Len(stmts[b]) THEN FallsThrough
        ELSE LET s == stmts[b][i] IN
          IF Observable(s) THEN Point(s)
          ELSE IF s.to = <<>> THEN next[fuel, b, i + 1]
          ELSE IF fuel = 0 THEN Diverges
          ELSE IF s.val = Lit(0) THEN next[fuel - 1, s.to[2], 1]
          ELSE next[fuel - 1, s.to[1], 1]
  IN  next[Size, b0, i0]

\* The outcomes of the statement, one per arm it can take.
Arms(b, i) ==
  LET s == stmts[b][i] IN
    CASE s.op = "ret" -> {}
      [] s.op = "inst" -> {<<Point(s), 1, NextPoint(b, i + 1)>>}
      [] OTHER -> {<<Point(s), k, NextPoint(s.to[k], 1)>> : k \in DOMAIN s.to}

Flow ==
  {<<<<"entry", Mem>>, 1, NextPoint(Entry, 1)>>} \cup
  UNION {UNION {Arms(b, i) : i \in {j \in DOMAIN stmts[b] : Observable(stmts[b][j])}}
           : b \in Live}

\* The part of a flow that an execution of the function can reach.
ReachableFlow(flow) ==
  LET reach[n \in Nat] ==
        IF n = 0 THEN {<<"entry", Mem>>}
        ELSE LET r == reach[n - 1]
             IN  r \cup {f[3] : f \in {g \in flow : g[1] \in r}}
      reached == reach[Cardinality(flow)]
  IN  {f \in flow : f[1] \in reached}
=============================================================================
