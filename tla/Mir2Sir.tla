------------------------------ MODULE Mir2Sir ------------------------------
(***************************************************************************)
(* The basic-block generator: the visitors that turn the statements of one *)
(* MIR function into SIR basic blocks, in bootstrap/sir/mir2sir.cpp and,   *)
(* with the same control, in src/sir/mir2sir.colgm.  One Inst(Mem) stands  *)
(* for a run of loads, stores and computations between two calls.  The     *)
(* recursion of the visitors is the stack todo: its head is the visitor    *)
(* that runs next, and a visitor that has to wait for a child leaves the   *)
(* rest of its work below the child.  The function is chosen on the fly,   *)
(* among those semantic analysis accepts: the tokens of the statements     *)
(* visited so far, in order, are in mir; the value an expression yields    *)
(* and the instruction a statement emits are named after their token.      *)
(***************************************************************************)
EXTENDS SirFunc

CONSTANTS
  Params,       \* number of parameters of the function
  Conds,        \* the kinds of expression a condition can be
  Inits,        \* the kinds an initial value or a returned value can be
  Exits,        \* the statements that leave a block: break, continue, ret
  MaxNodes,     \* bound: statements and operators && || of the function,
                \* break, continue and ret not counted
  MaxArms       \* bound: conditional arms of an if, cases of a match

ExprKinds == {"true", "false", "load", "cmp", "call", "and", "or"}

ASSUME GenAssumption ==
  /\ Params \in Nat
  /\ Conds \subseteq ExprKinds /\ Inits \subseteq ExprKinds
  /\ Exits \subseteq {"break", "continue"}
  /\ MaxNodes \in Nat
  /\ MaxArms \in Nat \ {0}

VARIABLES
  todo,         \* the visitors still to run, the running one first
  mir,          \* the MIR visited so far, as tokens
  block,        \* self.block: the block statements are added to
  nextLabel,    \* label_gen
  value,        \* the top of value_stack
  jumpOut,      \* branch_jump_out
  breaks,       \* break_inst
  continues     \* continue_inst

genVars == <<order, stmts, todo, mir, block, nextLabel, value,
             jumpOut, breaks, continues>>

(***************************************************************************)
(* Helpers.  A br inst the visitors keep a pointer to is a place: the      *)
(* block it is in and its index there.                                     *)
(***************************************************************************)
ALLOCA == 0
MOVEREG == 1
ENTRY == 2
UNSET == 0      \* the label a br is created with before its target exists

Add(f, b, s) == [f EXCEPT ![b] = Append(@, s)]
Place(b) == <<b, Len(stmts[b]) + 1>>

\* Set arm k of the branch at each of the places to label l.
Patch(f, places, k, l) ==
  [b \in Labels |-> [i \in DOMAIN f[b] |->
     IF <<b, i>> \in places THEN [f[b][i] EXCEPT !.to[k] = l] ELSE f[b][i]]]

\* The visitor at the head of the stack is of this kind; it is replaced.
Runs(kind) == todo # <<>> /\ Head(todo).do = kind
Then(visitors) == todo' = visitors \o Tail(todo)

Expr(kinds) == [do |-> "expr", kinds |-> kinds]
Body == [do |-> "block", top |-> FALSE]

\* The number of the next token, and the tokens that do not count against
\* MaxNodes: the marks of arms and cases, the operands, and what a block has
\* at most one of.
Here == Len(mir) + 1
Visited(tokens) == mir' = mir \o tokens
Marks == {"end", "arm", "else", "fi", "case", "default", "hctam",
          "true", "false", "load", "cmp", "call", "break", "continue", "ret"}
Room == Len(SelectSeq(mir, LAMBDA t : t \notin Marks)) < MaxNodes

\* Create a basic block with label l and make it the current one.
NewBlock(l) ==
  /\ order' = Append(order, l)
  /\ block' = l
  /\ nextLabel' = nextLabel + 1

Top(tables) == tables[Len(tables)]
\* Mutant: the table of the outermost construct is taken away.
PopFirst(tables) == Tail(tables)
Pop(tables) == SubSeq(tables, 1, Len(tables) - 1)

\* Mutant: the jump goes to the outermost table.
PushBackOutermost(tables, place) == [tables EXCEPT ![1] = @ \cup {place}]
PushBack(tables, place) ==
  [tables EXCEPT ![Len(tables)] = @ \cup {place}]

(***************************************************************************)
(* emit_func_impl up to the visit of the body: the three first blocks, and *)
(* generate_func_impl_from_mir_func's alloca and store for each parameter. *)
(***************************************************************************)
GenInit ==
  /\ order = <<ALLOCA, MOVEREG, ENTRY>>
  /\ stmts = [b \in Labels |->
                IF b \in {ALLOCA, ENTRY} THEN [p \in 1..Params |-> Inst(Mem)]
                ELSE <<>>]
  /\ todo = <<[do |-> "block", top |-> TRUE], [do |-> "finish"]>>
  /\ mir = <<>>
  /\ block = ENTRY
  /\ nextLabel = ENTRY + 1
  /\ value = Mem
  /\ jumpOut = <<>> /\ breaks = <<>> /\ continues = <<>>

\* The end of emit_func_impl: close the alloca and move_reg blocks.
Finish ==
  /\ Runs("finish")
  /\ stmts' = Add(Add(stmts, ALLOCA, Br(MOVEREG)), MOVEREG, Br(ENTRY))
  /\ Then(<<>>)
  /\ UNCHANGED <<order, mir, block, nextLabel, value, jumpOut, breaks, continues>>

(***************************************************************************)
(* Expressions: they leave their value in value.                           *)
(***************************************************************************)
VisitLiteral ==
  /\ Runs("expr")
  /\ \E b \in {"true", "false"} \cap Head(todo).kinds :
       /\ value' = Lit(IF b = "true" THEN 1 ELSE 0)
       /\ Visited(<<b>>)
  /\ Then(<<>>)
  /\ UNCHANGED <<order, stmts, block, nextLabel, jumpOut, breaks, continues>>

\* a parameter (a load from its stack slot) or a comparison of literals (what
\* visit_for_stmt makes of a missing condition): one instruction
VisitSimpleExpr ==
  /\ Runs("expr")
  /\ \E kind \in {"load", "cmp"} \cap Head(todo).kinds :
       /\ kind = "load" => Params > 0
       /\ Visited(<<kind>>)
  /\ stmts' = Add(stmts, block, Inst(Mem))
  /\ value' = <<"var", Here>>
  /\ Then(<<>>)
  /\ UNCHANGED <<order, block, nextLabel, jumpOut, breaks, continues>>

\* a call that returns a value: its result is stored in a slot of its own
VisitCallValue ==
  /\ Runs("expr")
  /\ "call" \in Head(todo).kinds
  /\ stmts' = Add(Add(Add(stmts, block, Inst(<<"inst", Here>>)),
                      MOVEREG, Inst(Mem)), block, Inst(Mem))
  /\ value' = <<"var", Here>>
  /\ Visited(<<"call">>)
  /\ Then(<<>>)
  /\ UNCHANGED <<order, block, nextLabel, jumpOut, breaks, continues>>

\* generate_and, generate_or: the slot of the result, then the left operand
VisitShortCircuit ==
  /\ Runs("expr")
  /\ \E opr \in {"and", "or"} \cap Head(todo).kinds :
       /\ Room
       /\ Then(<<Expr(Head(todo).kinds),
                 [do |-> "left", opr |-> opr, node |-> Here, kinds |-> Head(todo).kinds]>>)
       /\ Visited(<<opr>>)
  /\ stmts' = Add(stmts, MOVEREG, Inst(Mem))
  /\ UNCHANGED <<order, block, nextLabel, value, jumpOut, breaks, continues>>

\* store the left value, branch on it, continue in the right operand's block
ShortCircuitLeft ==
  /\ Runs("left")
  /\ LET v == Head(todo)
         f == Add(stmts, block, Inst(Mem))
         arm == IF v.opr = "and" THEN 2 ELSE 1
     IN  /\ stmts' = Add(f, block,
                         IF v.opr = "and" THEN BrCond(value, nextLabel, UNSET)
                                          ELSE BrCond(value, UNSET, nextLabel))
         /\ Then(<<Expr(v.kinds), [do |-> "right", node |-> v.node, arm |-> arm,
                                 at |-> <<block, Len(f[block]) + 1>>]>>)
  /\ NewBlock(nextLabel)
  /\ UNCHANGED <<mir, value, jumpOut, breaks, continues>>

\* store the right value, join in a new block, load the result there
ShortCircuitRight ==
  /\ Runs("right")
  /\ LET v == Head(todo)
         f == Add(Add(stmts, block, Inst(Mem)), block, Br(nextLabel))
     IN  /\ stmts' = Add(Patch(f, {v.at}, v.arm, nextLabel), nextLabel, Inst(Mem))
         /\ value' = <<"var", v.node>>
  /\ NewBlock(nextLabel)
  /\ Then(<<>>)
  /\ UNCHANGED <<mir, jumpOut, breaks, continues>>

(***************************************************************************)
(* The statements of a block.  A block goes on until its statements end or *)
(* until break, continue or ret (generate_code_block of ast2mir.colgm      *)
(* drops what follows); the body of the function ends with a ret           *)
(* (report_top_level_block_has_no_return of sema.colgm).                   *)
(***************************************************************************)
EndBlock ==
  /\ Runs("block") /\ ~Head(todo).top
  /\ Visited(<<"end">>)
  /\ Then(<<>>)
  /\ UNCHANGED <<order, stmts, block, nextLabel, value, jumpOut, breaks, continues>>

\* a call without a result
VisitCall ==
  /\ Runs("block") /\ Room
  /\ stmts' = Add(stmts, block, Inst(<<"inst", Here>>))
  /\ Visited(<<"do">>)
  /\ UNCHANGED <<order, todo, block, nextLabel, value, jumpOut, breaks, continues>>

\* visit_mir_define: the slot, the initial value, the store
VisitDefine ==
  /\ Runs("block") /\ Room
  /\ stmts' = Add(stmts, ALLOCA, Inst(Mem))
  /\ Visited(<<"define">>)
  /\ todo' = <<Expr(Inits), [do |-> "init"]>> \o todo
  /\ UNCHANGED <<order, block, nextLabel, value, jumpOut, breaks, continues>>

StoreInitialValue ==
  /\ Runs("init")
  /\ stmts' = Add(stmts, block, Inst(Mem))
  /\ Then(<<>>)
  /\ UNCHANGED <<order, mir, block, nextLabel, value, jumpOut, breaks, continues>>

VisitReturn ==
  /\ Runs("block")
  /\ stmts' = Add(stmts, block, Ret(<<"inst", Here>>))
  /\ Visited(<<"ret", "end">>)
  /\ Then(<<>>)
  /\ UNCHANGED <<order, block, nextLabel, value, jumpOut, breaks, continues>>

VisitReturnValue ==
  /\ Runs("block") /\ Room
  /\ Visited(<<"retv">>)
  /\ Then(<<Expr(Inits), [do |-> "retv", node |-> Here]>>)
  /\ UNCHANGED <<order, stmts, block, nextLabel, value, jumpOut, breaks, continues>>

ReturnValue ==
  /\ Runs("retv")
  /\ stmts' = Add(stmts, block, Ret(<<"inst", Head(todo).node>>))
  /\ Visited(<<"end">>)
  /\ Then(<<>>)
  /\ UNCHANGED <<order, block, nextLabel, value, jumpOut, breaks, continues>>

\* visit_mir_break, visit_mir_continue: a br to patch, and a fresh block
VisitBreak ==
  /\ Runs("block") /\ "break" \in Exits /\ breaks # <<>>
  /\ breaks' = PushBack(breaks, Place(block))
  /\ stmts' = Add(stmts, block, Br(UNSET))
  /\ NewBlock(nextLabel)
  /\ Visited(<<"break", "end">>)
  /\ Then(<<>>)
  /\ UNCHANGED <<value, jumpOut, continues>>

VisitContinue ==
  /\ Runs("block") /\ "continue" \in Exits /\ continues # <<>>
  /\ continues' = PushBack(continues, Place(block))
  /\ stmts' = Add(stmts, block, Br(UNSET))
  /\ NewBlock(nextLabel)
  /\ Visited(<<"continue", "end">>)
  /\ Then(<<>>)
  /\ UNCHANGED <<value, jumpOut, breaks>>

(***************************************************************************)
(* visit_mir_branch and visit_mir_if: if, elsif, else.                     *)
(***************************************************************************)
VisitBranch ==
  /\ Runs("block") /\ Room
  /\ jumpOut' = Append(jumpOut, {})
  /\ nextLabel' = nextLabel + 1
  /\ Visited(<<"if">>)
  /\ \E arms \in 1..MaxArms, els \in BOOLEAN :
       todo' = <<[do |-> "arms", end |-> nextLabel, left |-> arms, els |-> els]>> \o todo
  /\ UNCHANGED <<order, stmts, block, value, breaks, continues>>

VisitArm ==
  /\ Runs("arms") /\ Head(todo).left > 0
  /\ LET v == Head(todo)
         last == v.left = 1 /\ ~v.els
     IN  Then(<<Expr(Conds), [do |-> "cond", last |-> last, end |-> v.end],
                [v EXCEPT !.left = @ - 1]>>)
  /\ Visited(<<"arm">>)
  /\ UNCHANGED <<order, stmts, block, nextLabel, value, jumpOut, breaks, continues>>

ArmCond ==
  /\ Runs("cond")
  /\ stmts' = Add(stmts, block, BrCond(value, nextLabel, UNSET))
  /\ NewBlock(nextLabel)
  /\ LET v == Head(todo)
     IN  Then(<<Body, [do |-> "leave", cond |-> {Place(block)},
                       last |-> v.last, end |-> v.end]>>)
  /\ UNCHANGED <<mir, value, jumpOut, breaks, continues>>

VisitElse ==
  /\ Runs("arms") /\ Head(todo).left = 0 /\ Head(todo).els
  /\ LET v == Head(todo)
     IN  Then(<<Body, [do |-> "leave", cond |-> {}, last |-> FALSE, end |-> v.end],
                [v EXCEPT !.els = FALSE]>>)
  /\ Visited(<<"else">>)
  /\ UNCHANGED <<order, stmts, block, nextLabel, value, jumpOut, breaks, continues>>

\* After the content of an arm: a block of its own for the jump when the
\* content ends with ret, the jump out of the if, then the false block.
\* Mutant: the ret at the end of an arm or a loop body is not seen.
RetNeverNeedsBlock(b) == FALSE
RetNeedsBlock(b) == BackIsRet(b)
LeaveArm ==
  /\ Runs("leave")
  /\ LET v == Head(todo)
         fresh == IF RetNeedsBlock(block) THEN <<nextLabel>> ELSE <<>>
         from == IF fresh = <<>> THEN block ELSE nextLabel
         false == nextLabel + Len(fresh)
         f == Add(stmts, from, Br(UNSET))
         g == IF v.last THEN Add(f, false, Br(v.end)) ELSE f
     IN  /\ jumpOut' = PushBack(jumpOut, Place(from))
         /\ IF v.cond = {}
            THEN /\ stmts' = f
                 /\ order' = order \o fresh
                 /\ block' = from
                 /\ nextLabel' = false
            ELSE /\ stmts' = Patch(g, v.cond, 2, false)
                 /\ order' = order \o fresh \o <<false>>
                 /\ block' = false
                 /\ nextLabel' = false + 1
  /\ Then(<<>>)
  /\ UNCHANGED <<mir, value, breaks, continues>>

EndBranch ==
  /\ Runs("arms") /\ Head(todo).left = 0 /\ ~Head(todo).els
  /\ LET end == Head(todo).end
     IN  /\ stmts' = Patch(stmts, Top(jumpOut), 1, end)
         /\ order' = Append(order, end)
         /\ block' = end
  /\ jumpOut' = Pop(jumpOut)
  /\ Visited(<<"fi">>)
  /\ Then(<<>>)
  /\ UNCHANGED <<nextLabel, value, breaks, continues>>

(***************************************************************************)
(* visit_mir_switch.  The exits of the cases that do not end with ret are  *)
(* collected in the visitor's frame (jmp_exits).                           *)
(***************************************************************************)
VisitSwitch ==
  /\ Runs("block") /\ Room
  /\ Visited(<<"match">>)
  /\ \E cases \in 1..MaxArms, dflt \in BOOLEAN :
       todo' = <<Expr({"load", "call"}),
                 [do |-> "switch", left |-> cases, dflt |-> dflt]>> \o todo
  /\ UNCHANGED <<order, stmts, block, nextLabel, value, jumpOut, breaks, continues>>

SwitchOn ==
  /\ Runs("switch")
  /\ stmts' = Add(stmts, block, Switch(value, <<UNSET>>))
  /\ Then(<<[do |-> "cases", at |-> Place(block), left |-> Head(todo).left,
             dflt |-> Head(todo).dflt, exits |-> {}]>>)
  /\ UNCHANGED <<order, mir, block, nextLabel, value, jumpOut, breaks, continues>>

VisitCase ==
  /\ Runs("cases") /\ Head(todo).left > 0
  /\ LET v == Head(todo)
     IN  /\ stmts' = [stmts EXCEPT ![v.at[1]][v.at[2]].to = Append(@, nextLabel)]
         /\ Then(<<Body, [do |-> "leavecase"], [v EXCEPT !.left = @ - 1]>>)
  /\ NewBlock(nextLabel)
  /\ Visited(<<"case">>)
  /\ UNCHANGED <<value, jumpOut, breaks, continues>>

\* The jump behind a case, unless the case ends with ret.
LeaveCase ==
  /\ Runs("leavecase")
  /\ IF BackIsRet(block)
     THEN Then(<<>>) /\ UNCHANGED stmts
     ELSE /\ stmts' = Add(stmts, block, Br(UNSET))
          /\ todo' = <<[todo[2] EXCEPT !.exits = @ \cup {Place(block)}]>>
                       \o Tail(Tail(todo))
  /\ UNCHANGED <<order, mir, block, nextLabel, value, jumpOut, breaks, continues>>

VisitDefault ==
  /\ Runs("cases") /\ Head(todo).left = 0
  /\ LET v == Head(todo)
         f == Patch(stmts, {v.at}, 1, nextLabel)
     IN  IF v.dflt
         THEN /\ stmts' = f
              /\ Then(<<Body, [do |-> "leavecase"],
                        [do |-> "endswitch", exits |-> v.exits]>>)
              /\ Visited(<<"default">>)
         ELSE /\ stmts' = Patch(f, v.exits, 1, nextLabel)
              /\ Then(<<>>)
              /\ Visited(<<"hctam">>)
  /\ NewBlock(nextLabel)
  /\ UNCHANGED <<value, jumpOut, breaks, continues>>

EndSwitch ==
  /\ Runs("endswitch")
  /\ stmts' = Patch(stmts, Head(todo).exits, 1, nextLabel)
  /\ NewBlock(nextLabel)
  /\ Visited(<<"hctam">>)
  /\ Then(<<>>)
  /\ UNCHANGED <<value, jumpOut, breaks, continues>>

(***************************************************************************)
(* visit_mir_loop: while, and for with an update (visit_while_stmt and     *)
(* visit_for_stmt of ast2mir.colgm).                                       *)
(***************************************************************************)
VisitLoop ==
  /\ Runs("block") /\ Room
  /\ breaks' = Append(breaks, {})
  /\ continues' = Append(continues, {})
  /\ stmts' = Add(stmts, block, Br(nextLabel))
  /\ NewBlock(nextLabel)
  /\ \E kind \in {"while", "for"} :
       /\ Visited(<<kind>>)
       /\ todo' = <<Expr(Conds), [do |-> "loop", entry |-> nextLabel, kind |-> kind,
                                  node |-> Here]>> \o todo
  /\ UNCHANGED <<value, jumpOut>>

LoopCond ==
  /\ Runs("loop")
  /\ stmts' = Add(stmts, block, BrCond(value, nextLabel, UNSET))
  /\ NewBlock(nextLabel)
  /\ LET v == Head(todo)
     IN  Then(<<Body, [do |-> "again", at |-> Place(block), entry |-> v.entry,
                       kind |-> v.kind, node |-> v.node]>>)
  /\ UNCHANGED <<mir, value, jumpOut, breaks, continues>>

\* After the content: a block of its own for the jump when the content ends
\* with ret (loop.ret_end_avoid_error), the loop.continue block with the
\* update, the way back to the entry, and the loop.exit block; the
\* continues and breaks of this loop get their targets.
LoopAgain ==
  /\ Runs("again")
  /\ LET v == Head(todo)
         fresh == IF RetNeedsBlock(block) THEN <<nextLabel>> ELSE <<>>
         from == IF fresh = <<>> THEN block ELSE nextLabel
         continue == nextLabel + Len(fresh)
         exit == continue + 1
         update == IF v.kind = "for" THEN <<Inst(<<"inst", v.node>>)>> ELSE <<>>
         f == Add(stmts, from, Br(continue))
         g == [f EXCEPT ![continue] = @ \o update \o <<Br(v.entry)>>]
         h == Patch(Patch(g, Top(continues), 1, continue), {v.at}, 2, exit)
     IN  /\ stmts' = Patch(h, Top(breaks), 1, exit)
         /\ order' = order \o fresh \o <<continue, exit>>
         /\ block' = exit
         /\ nextLabel' = exit + 1
  /\ breaks' = Pop(breaks)
  /\ continues' = Pop(continues)
  /\ Then(<<>>)
  /\ UNCHANGED <<mir, value, jumpOut>>

-----------------------------------------------------------------------------
VisitExpr == VisitLiteral \/ VisitSimpleExpr \/ VisitCallValue \/ VisitShortCircuit
             \/ ShortCircuitLeft \/ ShortCircuitRight
VisitSimple == EndBlock \/ VisitCall \/ VisitDefine \/ StoreInitialValue
               \/ VisitReturn \/ VisitReturnValue \/ ReturnValue
               \/ VisitBreak \/ VisitContinue
VisitIf == VisitBranch \/ VisitArm \/ ArmCond \/ VisitElse \/ LeaveArm \/ EndBranch
VisitMatch == VisitSwitch \/ SwitchOn \/ VisitCase \/ LeaveCase \/ VisitDefault
              \/ EndSwitch
VisitWhile == VisitLoop \/ LoopCond \/ LoopAgain

Generate == VisitExpr \/ VisitSimple \/ VisitIf \/ VisitMatch \/ VisitWhile \/ Finish

Generated == todo = <<>>
Terminating == Generated /\ UNCHANGED genVars

GenNext == Generate \/ Terminating
GenSpec == GenInit /\ [][GenNext]_genVars

-----------------------------------------------------------------------------
(***************************************************************************)
(* Properties.                                                             *)
(***************************************************************************)
\* "ret instruction is the terminator instruction" (visit_mir_if): whatever
\* statement a visitor adds, it never lands behind a terminator.
NothingAfterTerminator == \A b \in Live : TerminatorsLast(b)

\* The finished function: every block closed, every branch to a block of the
\* function, never back into the alloca block (the label of a br not patched),
\* and the entry block reached by no branch.
FinishedWellFormed ==
  Generated => /\ \A b \in Live : Terminated(b) /\ TargetsLive(b)
               /\ Preds(ControlFlow, Entry) = {}
=============================================================================
