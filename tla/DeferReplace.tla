---------------------------- MODULE DeferReplace ----------------------------
(***************************************************************************)
(* replace_defer (bootstrap/ast/replace_defer.cpp and, with the same       *)
(* control, src/parse/replace_defer.colgm): one pass over the body of a    *)
(* function that copies deferred blocks in front of every exit and drops   *)
(* the defer statements.  It keeps a stack of top scopes, one per    *)
(* function, loop or deferred block being visited, each a stack of sub     *)
(* scopes, one per code block, each the defer statements met in it.        *)
(*                                                                         *)
(* The body is chosen while it is visited.  A definition, an assignment,   *)
(* an expression or an empty statement is plain; an arm of an if or match  *)
(* statement is cond, all four loops are loop.  A return statement is ret, *)
(* or retexpr with an expression; the pass turns the latter into value,    *)
(* the definition of a temporary, and retvalue.                            *)
(***************************************************************************)
EXTENDS Naturals, Sequences, SequencesExt

CONSTANTS
  Ops,              \* the kinds of statements in the program
  MaxStmts,         \* bound: statements of a function
  MaxInDefer,       \* bound: statements of a block inside a deferred one
  MaxDepth          \* bound: blocks inside one another

Leaves == {"plain", "ret", "retexpr", "break", "continue"}
Kinds == {"func", "loop", "cond", "defer"}
Exits == {"ret", "retexpr", "break", "continue"}

ASSUME DeferAssumption ==
  Ops \subseteq Leaves \cup Kinds /\ {MaxStmts, MaxInDefer, MaxDepth} \subseteq Nat

VARIABLES
  frames,           \* running calls of visit_code_block, innermost last
  topScopes,        \* top_scopes, each with its scopes
  inDeferBlock,     \* in_defer_block
  failed,           \* err->error was called
  count,            \* statements so far
  result            \* the function's body as written, and as it is now

vars == <<frames, topScopes, inDeferBlock, failed, count, result>>

NotYet == [src |-> <<>>, new |-> <<>>, done |-> FALSE]

(* A statement, told from others by its place in the source; copies keep it. *)
Stmt(op, at, body) == [op |-> op, at |-> at, body |-> body]

(* A block being visited: n->stmts so far, as written, and new_stmts. *)
Frame(kind, at) == [kind |-> kind, at |-> at, src |-> <<>>, new |-> <<>>]

Block == Last(frames)
IsDefer(s) == s.op = "defer"
IsNoDefer(s) == s.op # "defer"

(* The statement s and what replaces it go to the block that holds it. *)
Added(fs, s, new) ==
  LET back == Last(fs)
  IN  [fs EXCEPT ![Len(fs)] = [back EXCEPT !.src = Append(@, s), !.new = @ \o new]]

(* visit_code_block opens the first scope of a top scope itself. *)
AddTopScope == topScopes' = Append(topScopes, <<<<>>>>)
AddSubScope == topScopes' = [topScopes EXCEPT ![Len(topScopes)] = Append(@, <<>>)]
PopTopScope == Front(topScopes)
PopSubScope == [topScopes EXCEPT ![Len(topScopes)] = Front(@)]

RegisteredFirst(scopes, s) ==
  LET back == Last(scopes)
  IN  [scopes EXCEPT ![Len(scopes)] = [back EXCEPT ![Len(back)] = <<s>> \o @]]

(* add_defer_stmt: s joins the innermost scope of scopes. *)
Registered(scopes, s) ==
  LET back == Last(scopes)
  IN  [scopes EXCEPT ![Len(scopes)] = [back EXCEPT ![Len(back)] = Append(@, s)]]

(* insert_defer for a list of defer statements. *)
Copies(defers) == FlattenSeq([i \in DOMAIN defers |-> defers[i].body])

OnSubscopeExit == Copies(Last(Last(topScopes)))
OnBlockExit == Copies(FlattenSeq(Last(topScopes)))
OnReturn == Copies(FlattenSeq(FlattenSeq(topScopes)))

(* should_insert_on_return: some pending block has statements. *)
ShouldInsertOnReturn ==
  \E i \in DOMAIN topScopes : \E j \in DOMAIN topScopes[i] :
    \E k \in DOMAIN topScopes[i][j] : topScopes[i][j][k].body # <<>>

InTopScope == Len(Last(topScopes)) = 1

(* What is inserted at the end of the current block. *)
AtEnd == IF InTopScope THEN OnBlockExit ELSE OnSubscopeExit

(* A statement that leaves a block is an error in a deferred block. *)
ExitFails == failed \/ inDeferBlock

BackIsNotBlockExit(stmts) == stmts = <<>> \/ Last(stmts).op \notin Exits

(* The block when its statements have been visited: the deferred blocks of
   its own scope run at the end, unless it ends with an exit. *)
Rewritten ==
  SelectSeq(Block.new \o (IF BackIsNotBlockExit(Block.src) THEN AtEnd ELSE <<>>),
            IsNoDefer)
-----------------------------------------------------------------------------
(* visit_func_decl enters the body. *)
Init ==
  /\ frames = <<Frame("func", 0)>>
  /\ topScopes = << << <<>> >> >>
  /\ inDeferBlock = FALSE
  /\ failed = FALSE
  /\ count = 0
  /\ result = NotYet

NextStmt(op) ==
  /\ frames # <<>> /\ op \in Ops
  /\ count < MaxStmts /\ count' = count + 1
  /\ inDeferBlock => Len(Block.src) < MaxInDefer
Opens(op) == NextStmt(op) /\ Len(frames) <= MaxDepth

VisitPlain ==
  /\ NextStmt("plain")
  /\ LET s == Stmt("plain", count', <<>>) IN frames' = Added(frames, s, <<s>>)
  /\ UNCHANGED <<topScopes, inDeferBlock, failed, result>>

VisitBreakOrContinue(op) ==
  /\ NextStmt(op)
  /\ failed' = ExitFails
  /\ LET s == Stmt(op, count', <<>>) IN frames' = Added(frames, s, Append(OnBlockExit, s))
  /\ UNCHANGED <<topScopes, inDeferBlock, result>>

(* The value of a return is computed before anything deferred runs. *)
VisitRet(op) ==
  /\ NextStmt(op)
  /\ failed' = ExitFails
  /\ LET s == Stmt(op, count', <<>>)
         value == Stmt("value", count', <<>>)
         ret == Stmt("retvalue", count', <<>>)
     IN  frames' = Added(frames, s,
                         IF op = "retexpr" /\ ShouldInsertOnReturn
                         THEN <<value>> \o OnReturn \o <<ret>>
                         ELSE Append(OnReturn, s))
  /\ UNCHANGED <<topScopes, inDeferBlock, result>>

VisitLoop ==
  /\ Opens("loop")
  /\ AddTopScope
  /\ frames' = Append(frames, Frame("loop", count'))
  /\ UNCHANGED <<inDeferBlock, failed, result>>

VisitCond ==
  /\ Opens("cond")
  /\ AddSubScope
  /\ frames' = Append(frames, Frame("cond", count'))
  /\ UNCHANGED <<inDeferBlock, failed, result>>

VisitDefer ==
  /\ Opens("defer")
  /\ ~inDeferBlock
  /\ inDeferBlock' = TRUE
  /\ AddTopScope
  /\ frames' = Append(frames, Frame("defer", count'))
  /\ UNCHANGED <<failed, result>>

(* A defer inside a deferred block is an error; its block is not visited. *)
VisitNestedDefer ==
  /\ NextStmt("defer")
  /\ inDeferBlock
  /\ failed' = TRUE
  /\ LET s == Stmt("defer", count', <<>>)
     IN  frames' = Added(frames, s, <<s>>) /\ topScopes' = Registered(topScopes, s)
  /\ UNCHANGED <<inDeferBlock, result>>

(* The end of visit_code_block, back in the visitor of the statement. *)
Leave(kind) ==
  /\ frames # <<>> /\ Block.kind = kind
  /\ UNCHANGED <<failed, count>>

Return(op) ==
  frames' = Added(Front(frames), Stmt(op, Block.at, Block.src), <<Stmt(op, Block.at, Rewritten)>>)

LeaveLoop ==
  /\ Leave("loop") /\ Return("loop")
  /\ topScopes' = PopTopScope
  /\ UNCHANGED <<inDeferBlock, result>>

LeaveCond ==
  /\ Leave("cond") /\ Return("cond")
  /\ topScopes' = PopSubScope
  /\ UNCHANGED <<inDeferBlock, result>>

(* The deferred block is registered when it has been visited. *)
LeaveDefer ==
  /\ Leave("defer") /\ Return("defer")
  /\ topScopes' = Registered(PopTopScope, Stmt("defer", Block.at, Rewritten))
  /\ inDeferBlock' = FALSE
  /\ UNCHANGED result

LeaveFunc ==
  /\ Leave("func")
  /\ frames' = <<>>
  /\ topScopes' = <<>>
  /\ result' = [src |-> Block.src, new |-> Rewritten, done |-> TRUE]
  /\ UNCHANGED inDeferBlock

Next ==
  \/ VisitPlain \/ VisitLoop \/ VisitCond \/ VisitDefer \/ VisitNestedDefer
  \/ \E op \in {"break", "continue"} : VisitBreakOrContinue(op)
  \/ \E op \in {"ret", "retexpr"} : VisitRet(op)
  \/ LeaveLoop \/ LeaveCond \/ LeaveDefer \/ LeaveFunc

Spec == Init /\ [][Next]_vars
-----------------------------------------------------------------------------
(* The scope of a block: the last top scope that is not inside it, and the
   blocks between the two. *)
Tops(i) == {j \in 1 .. i : frames[j].kind # "cond"}
TopOf(i) == Cardinality(Tops(i))
SubOf(i) == i - Max(Tops(i)) + 1

Places(stmts) == {stmts[k].at : k \in DOMAIN stmts}
Defers(stmts) == {stmts[k].at : k \in {k \in DOMAIN stmts : IsDefer(stmts[k])}}

(* Places grow along a block: the scope has its deferred blocks, in order. *)
Registers(scope, stmts) ==
  /\ Places(scope) = Defers(stmts)
  /\ \A k, l \in DOMAIN scope : k < l => scope[k].at < scope[l].at

(* The stacks of scopes mirror the blocks being visited: every block has its
   scope with the deferred blocks it registered so far, in their order, and no
   other scopes are left, whatever loops, arms and deferred blocks were entered
   and left before (replace_defer.colgm:89-124). *)
ScopesMirrorBlocks ==
  /\ \A i \in DOMAIN frames :
       /\ TopOf(i) \in DOMAIN topScopes /\ SubOf(i) \in DOMAIN topScopes[TopOf(i)]
       /\ Registers(topScopes[TopOf(i)][SubOf(i)], frames[i].src)
  /\ \A t \in DOMAIN topScopes : \A k \in DOMAIN topScopes[t] :
       \E i \in DOMAIN frames : t = TopOf(i) /\ k = SubOf(i)
=============================================================================
