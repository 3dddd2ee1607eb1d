----------------------------- MODULE Statements -----------------------------
(***************************************************************************)
(* Function bodies from semantic analysis to SIR, in the C++ compiler:     *)
(* semantic.cpp resolves the statements of a body, ast2mir.cpp translates  *)
(* them, mir2sir.cpp looks the local variables up again by name and keeps  *)
(* its own record of the open loops.  Each pass walks the same tree and    *)
(* knows only what the tree says, the scopes it opened itself and the      *)
(* notes the analysis left in the nodes, so this module walks all three    *)
(* over the body in step, choosing the next statement as it goes.          *)
(*                                                                         *)
(* An expression is a name it uses, or a literal, or an expression of a    *)
(* type that is not wanted where it stands.  Analysis goes on behind an    *)
(* error, generation is not begun then.                                    *)
(***************************************************************************)
EXTENDS Integers, Sequences, SequencesExt, FiniteSetsExt

CONSTANTS
  Names,        \* the names a body uses
  Globals,      \* those that are global symbols
  Labels,       \* the members of the enum or union that is matched
  MaxOpen,      \* bound: statements open at a time
  MaxTokens     \* bound: statements and arms of a function

ASSUME StatementsAssumption ==
  Globals \subseteq Names /\ MaxOpen \in Nat /\ MaxTokens \in Nat

VARIABLES
  open,         \* the open statements and blocks, innermost last
  scopes,       \* sema_context.local_scope: name to the definition
  inLoop,       \* semantic.in_loop_level
  errors,       \* an error was reported
  locals,       \* mir2sir's local_table.elem: name to the definition
  loops,        \* the size of mir2sir's break_inst and continue_inst
  tokens,       \* statements of this function so far
  wrong,        \* what is wrong with the code generated last
  gaps          \* the known reason, if there is one
vars == <<open, scopes, inLoop, errors, locals, loops, tokens, wrong, gaps>>

Exprs == Names \cup {"literal", "mistyped"}

Frame(kind, sema, mir) ==
  [kind |-> kind, sema |-> sema, mir |-> mir, over |-> FALSE, shut |-> FALSE,
   ret |-> FALSE, void |-> FALSE, cases |-> << >>]

Init ==
  /\ open = << >> /\ scopes = << >> /\ inLoop = 0 /\ errors = FALSE
  /\ locals = << >> /\ loops = 0 /\ tokens = 0 /\ wrong = {} /\ gaps = {}
-----------------------------------------------------------------------------
(***************************************************************************)
(* Names.                                                                  *)
(***************************************************************************)
None == -1
Found(table, x) == \E i \in DOMAIN table : x \in DOMAIN table[i]
Local(table, x) ==
  IF Found(table, x) THEN table[Max({i \in DOMAIN table : x \in DOMAIN table[i]})][x] ELSE None
\* insert keeps the entry a name already has.
Add(table, x, d) ==
  [table EXCEPT ![Len(table)] = [y \in DOMAIN @ \cup {x} |-> IF y \in DOMAIN @ THEN @[y] ELSE d]]
Empty == [x \in {} |-> None]
PushLevel(table) == Append(table, Empty)

\* resolve_identifier: a local variable before a global symbol.
Undefined(table, e) == e \in Names /\ ~Found(table, e) /\ e \notin Globals
Reported(table, e) == e = "mistyped" \/ Undefined(table, e)

\* visit_mir_call_id: unless the analysis found a global symbol the name is
\* looked up once more.
Misread(sema, gen, e) ==
  IF e \in Names /\ Found(sema, e) /\ Local(gen, e) # Local(sema, e)
  THEN {"other variable"} ELSE {}
-----------------------------------------------------------------------------
(***************************************************************************)
(* A statement in the innermost block.  Analysis and translation leave a   *)
(* block behind its first ret, break or continue; the bodies of forindex   *)
(* and foreach are translated to the end.                                  *)
(***************************************************************************)
Here == Last(open)
Resolved == Here.sema /\ ~Here.over
StopsAtJump(kind) == kind \notin {"forindex", "foreach"}
Translated == ~errors /\ Here.mir /\ ~(Here.over /\ StopsAtJump(Here.kind))

\* What no pass walks is left out.
InBlock ==
  /\ open # << >> /\ Here.kind \notin {"impl", "cond", "match"} /\ (Resolved \/ Translated)
  /\ wrong = {} /\ tokens < MaxTokens
Fits == Len(open) < MaxOpen

\* What is wrong with a statement's code: the expressions es are read in the
\* scopes sema and gen, and stand behind a ret if the block has one.
Bad(sema, gen, es) ==
  IF Translated
  THEN (IF Resolved THEN UNION {Misread(sema, gen, e) : e \in es}
                    ELSE {"unresolved" : e \in es})
       \cup (IF Here.shut THEN {"behind a ret"} ELSE {})
  ELSE {}

\* The statement is walked: err is whether the analysis reports something in
\* it.  Generation ends at wrong code.
Walk(err, bad) ==
  /\ errors' = (errors \/ (Resolved /\ err))
  /\ wrong' = IF errors' THEN {} ELSE bad
  /\ gaps' = IF ~errors' /\ Translated /\ ~Resolved THEN {"ignored"} ELSE {}
  /\ tokens' = tokens + 1

\* The passes that walk the statement, walk its blocks.
Inner(kind) == Frame(kind, Resolved, Translated)

SemaPush(n) == IF Resolved THEN scopes \o [i \in 1..n |-> Empty] ELSE scopes
GenPush(n) == IF Translated THEN locals \o [i \in 1..n |-> Empty] ELSE locals
-----------------------------------------------------------------------------
(***************************************************************************)
(* Functions and the methods of an impl.  Parameters and top-level         *)
(* statements share a scope of the analysis, the generator has one for     *)
(* each.  Generic ones are walked by neither pass.                         *)
(***************************************************************************)
\* The struct or union of an impl must be one of the same file.
BeginImpl(known) ==
  /\ open = << >> /\ wrong = {}
  /\ errors' = (errors \/ ~known)
  /\ open' = <<Frame("impl", known, ~errors')>>
  /\ UNCHANGED <<scopes, inLoop, locals, loops, tokens, wrong, gaps>>

EndImpl ==
  /\ open # << >> /\ Here.kind = "impl" /\ open' = << >>
  /\ UNCHANGED <<scopes, inLoop, errors, locals, loops, tokens, wrong, gaps>>

AtFunctions == wrong = {} /\ (open # << >> => Here.kind = "impl" /\ Here.sema)
Params(xs) == [x \in xs |-> 0]

BeginFunc(xs, void) ==
  /\ AtFunctions
  /\ open' = Append(open, [Frame("func", TRUE, ~errors) EXCEPT !.void = void])
  /\ scopes' = Append(scopes, Params(xs))
  /\ locals' = IF errors THEN locals ELSE locals \o <<Params(xs), Empty>>
  /\ tokens' = 0 /\ gaps' = {}
  /\ UNCHANGED <<inLoop, errors, loops, wrong>>

\* A function without a body is declared, a method has to have one.
Declare ==
  /\ AtFunctions /\ errors' = (errors \/ open # << >>)
  /\ UNCHANGED <<open, scopes, inLoop, locals, loops, tokens, wrong, gaps>>

\* report_top_level_block_has_no_return: a void function without ret gets one.
\* Mutant: no ret is asked for.
NeverMissing(f) == FALSE
ReturnMissing(f) == ~f.ret /\ ~f.void
EndFunc ==
  /\ open # << >> /\ Here.kind = "func" /\ wrong = {}
  /\ errors' = (errors \/ ReturnMissing(Here))
  /\ wrong' = IF ~errors' /\ ~(Here.shut \/ (Here.void /\ ~Here.ret)) THEN {"no return"} ELSE {}
  /\ open' = Front(open) /\ scopes' = Front(scopes)
  /\ locals' = IF Here.mir THEN SubSeq(locals, 1, Len(locals) - 2) ELSE locals
  /\ gaps' = {} /\ tokens' = 0
  /\ UNCHANGED <<inLoop, loops>>

\* The function a statement is in.
Func == LET F == {i \in DOMAIN open : open[i].kind = "func"} IN open[Max(F)]
-----------------------------------------------------------------------------
(***************************************************************************)
(* Simple statements.                                                      *)
(***************************************************************************)
\* resolve_definition: every scope is searched, so nothing is ever hidden.
\* Mutant: the innermost scope only.
TakenHere(table, x) == x \in DOMAIN Last(table) \/ x \in Globals
Taken(table, x) == Found(table, x) \/ x \in Globals

\* The scopes behind a definition.  An initial value with an error still
\* leaves the variable defined.
Defined(table, x) == IF Taken(table, x) THEN table ELSE Add(table, x, tokens + 1)
DefineReports(table, x, e) == Taken(table, x) \/ Reported(table, e)

\* The generator enters the name before it evaluates the initial value.
Define(x, e) ==
  /\ InBlock
  /\ Walk(DefineReports(scopes, x, e), Bad(scopes, Add(locals, x, tokens + 1), {e}))
  /\ scopes' = IF Resolved THEN Defined(scopes, x) ELSE scopes
  /\ locals' = IF Translated THEN Add(locals, x, tokens + 1) ELSE locals
  /\ UNCHANGED <<open, inLoop, loops>>

InStmtExpr(e) ==
  /\ InBlock /\ Walk(Undefined(scopes, e), Bad(scopes, locals, {e}))
  /\ UNCHANGED <<open, scopes, inLoop, locals, loops>>

\* A ret behind a jump counts as a ret of the block, too.
Ret(es) ==
  /\ InBlock
  /\ Walk(\/ es = {} /\ ~Func.void
          \/ \E e \in es : Func.void \/ Reported(scopes, e),
          Bad(scopes, locals, es))
  /\ open' = [open EXCEPT ![Len(open)].over = TRUE, ![Len(open)].ret = TRUE,
                          ![Len(open)].shut = @ \/ Translated]
  /\ UNCHANGED <<scopes, inLoop, locals, loops>>

\* break and continue; mir2sir opens a block behind them.
\* Mutant: allowed everywhere.
AnywhereJump == TRUE
MayJump == inLoop > 0
Jump ==
  /\ InBlock
  /\ Walk(~MayJump,
          Bad(scopes, locals, {}) \cup (IF Translated /\ loops = 0 THEN {"no loop"} ELSE {}))
  /\ open' = [open EXCEPT ![Len(open)].over = TRUE]
  /\ UNCHANGED <<scopes, inLoop, locals, loops>>
-----------------------------------------------------------------------------
(***************************************************************************)
(* if, else if and else.                                                   *)
(***************************************************************************)
BeginCond(e) ==
  /\ InBlock /\ Fits
  /\ Walk(Reported(scopes, e), Bad(scopes, locals, {e}))
  /\ open' = open \o <<Inner("cond"), Inner("arm")>>
  /\ scopes' = SemaPush(1) /\ locals' = GenPush(1)
  /\ UNCHANGED <<inLoop, loops>>

\* The walk of a block is over: what it opened is closed.
Leave(n) ==
  /\ scopes' = IF Here.sema THEN SubSeq(scopes, 1, Len(scopes) - n) ELSE scopes
  /\ locals' = IF Here.mir THEN SubSeq(locals, 1, Len(locals) - n) ELSE locals

EndArm ==
  /\ open # << >> /\ Here.kind \in {"arm", "else"} /\ wrong = {}
  /\ Leave(1)
  /\ open' = IF Here.kind = "else" THEN Front(Front(open)) ELSE Front(open)
  /\ UNCHANGED <<inLoop, errors, loops, tokens, wrong, gaps>>

AtArms(kind) == open # << >> /\ Here.kind = kind /\ wrong = {} /\ tokens < MaxTokens

ElseIf(e) ==
  /\ AtArms("cond")
  /\ Walk(Reported(scopes, e), Bad(scopes, locals, {e}))
  /\ open' = Append(open, Inner("arm"))
  /\ scopes' = SemaPush(1) /\ locals' = GenPush(1)
  /\ UNCHANGED <<inLoop, loops>>

Else ==
  /\ AtArms("cond") /\ Walk(FALSE, {})
  /\ open' = Append(open, Inner("else"))
  /\ scopes' = SemaPush(1) /\ locals' = GenPush(1)
  /\ UNCHANGED <<inLoop, loops>>

EndCond ==
  /\ open # << >> /\ Here.kind = "cond" /\ wrong = {}
  /\ open' = Front(open)
  /\ UNCHANGED <<scopes, inLoop, errors, locals, loops, tokens, wrong, gaps>>
-----------------------------------------------------------------------------
(***************************************************************************)
(* match.  The blocks are not resolved when the value is none that can be  *)
(* matched; a wrong label does not keep them from being.                   *)
(***************************************************************************)
BeginMatch(e) ==
  /\ InBlock /\ Fits
  /\ Walk(Reported(scopes, e), Bad(scopes, locals, {e}))
  /\ open' = Append(open, [Inner("match") EXCEPT !.sema = @ /\ ~Reported(scopes, e)])
  /\ UNCHANGED <<scopes, inLoop, locals, loops>>

Default == "_"
Unknown == "unknown"
\* Mutant: a label may be used again.
IsUnknown(l, used) == l = Unknown
LabelReported(l, used) == l # Default /\ (l = Unknown \/ \E i \in DOMAIN used : used[i] = l)

Case(l) ==
  /\ AtArms("match")
  /\ Walk(LabelReported(l, Here.cases), {})
  /\ open' = Append([open EXCEPT ![Len(open)].cases = Append(@, l)], Inner("case"))
  /\ scopes' = SemaPush(1) /\ locals' = GenPush(1)
  /\ UNCHANGED <<inLoop, loops>>

EndCase ==
  /\ open # << >> /\ Here.kind = "case" /\ wrong = {}
  /\ Leave(1) /\ open' = Front(open)
  /\ UNCHANGED <<inLoop, errors, loops, tokens, wrong, gaps>>

Positions(cases, l) == {i \in DOMAIN cases : cases[i] = l}

\* The case the source selects for the value l: its own, else the default.
Selected(cases, l) ==
  IF Positions(cases, l) # {} THEN Min(Positions(cases, l))
  ELSE IF Positions(cases, Default) # {} THEN Min(Positions(cases, Default)) ELSE 0

\* The switch visit_match_stmt makes: the last default is the default.
SwitchTo(cases, l) ==
  IF Positions(cases, l) # {} THEN Positions(cases, l)
  ELSE IF Positions(cases, Default) # {} THEN {Max(Positions(cases, Default))} ELSE {0}

OtherCase(cases) == \E l \in Labels : SwitchTo(cases, l) # {Selected(cases, l)}

EndMatch ==
  /\ open # << >> /\ Here.kind = "match" /\ wrong = {}
  /\ errors' = (errors \/ (Resolved /\ Here.cases = << >>))
  /\ wrong' = IF ~errors' /\ Here.mir /\ OtherCase(Here.cases) THEN {"other case"} ELSE {}
  /\ gaps' = IF ~errors' /\ Cardinality(Positions(Here.cases, Default)) > 1
             THEN {"repeated default"} ELSE {}
  /\ open' = Front(open)
  /\ UNCHANGED <<scopes, inLoop, locals, loops, tokens>>
-----------------------------------------------------------------------------
(***************************************************************************)
(* Loops.  for has a scope for its variable around that of its block.      *)
(***************************************************************************)
EnterLoop ==
  /\ inLoop' = IF Resolved THEN inLoop + 1 ELSE inLoop
  /\ loops' = IF Translated THEN loops + 1 ELSE loops

While(e) ==
  /\ InBlock /\ Fits
  /\ Walk(Reported(scopes, e), Bad(scopes, locals, {e}))
  /\ open' = Append(open, Inner("while"))
  /\ scopes' = SemaPush(1) /\ locals' = GenPush(1) /\ EnterLoop

\* The parts of the head of a for: the definition of x, if there is one, and the
\* expressions of condition and update, which read the scope with x.
LoopHead(kind, xs, init, es) ==
  LET sema == IF xs = {} THEN PushLevel(scopes)
              ELSE Defined(PushLevel(scopes), CHOOSE x \in xs : TRUE)
      gen == IF xs = {} THEN PushLevel(locals)
             ELSE Add(PushLevel(locals), CHOOSE x \in xs : TRUE, tokens + 1)
  IN  /\ Walk(\/ \E x \in xs : DefineReports(PushLevel(scopes), x, init)
              \/ \E e \in es : Reported(sema, e),
              Bad(sema, gen, es \cup (IF xs = {} THEN {} ELSE {init})))
      /\ open' = Append(open, Inner(kind))
      /\ scopes' = IF Resolved THEN PushLevel(sema) ELSE scopes
      /\ locals' = IF Translated THEN PushLevel(gen) ELSE locals
      /\ EnterLoop

For(xs, init, es) == InBlock /\ Fits /\ LoopHead("for", xs, init, es)

\* A container with an error leaves the loop unresolved.
Skipped(kind) ==
  /\ errors' = TRUE /\ tokens' = tokens + 1 /\ wrong' = {} /\ gaps' = {}
  /\ open' = Append(open, Frame(kind, FALSE, FALSE))
  /\ UNCHANGED <<scopes, inLoop, locals, loops>>

\* for (x; c): x is a u64 that starts with 0, c.iter_size() is asked each time.
Forindex(x, c) ==
  /\ InBlock /\ Fits
  /\ IF Resolved /\ Undefined(scopes, c) THEN Skipped("forindex")
     ELSE LoopHead("forindex", {x}, "literal", {x, c})

\* for (x in c): x is c.iter(), and x.is_end() and x.next() are asked.
Foreach(x, c) ==
  /\ InBlock /\ Fits
  /\ IF Resolved /\ Undefined(scopes, c) THEN Skipped("foreach")
     ELSE LoopHead("foreach", {x}, c, {x})

\* Mutant: only the scope of the block.
LevelsOne(kind) == 1
Levels(kind) == IF kind = "while" THEN 1 ELSE 2
EndLoop ==
  /\ open # << >> /\ Here.kind \in {"while", "for", "forindex", "foreach"} /\ wrong = {}
  /\ Leave(Levels(Here.kind)) /\ open' = Front(open)
  /\ inLoop' = IF Here.sema THEN inLoop - 1 ELSE inLoop
  /\ loops' = IF Here.mir THEN loops - 1 ELSE loops
  /\ UNCHANGED <<errors, tokens, wrong, gaps>>
-----------------------------------------------------------------------------
Next ==
  \/ \E xs \in SUBSET (Names \ Globals), void \in BOOLEAN : BeginFunc(xs, void)
  \/ \E known \in BOOLEAN : BeginImpl(known)
  \/ EndImpl \/ Declare \/ EndFunc \/ EndArm \/ Else \/ EndCond \/ EndCase \/ EndMatch \/ EndLoop \/ Jump \/ Ret({})
  \/ \E e \in Exprs :
       InStmtExpr(e) \/ Ret({e}) \/ BeginCond(e) \/ ElseIf(e) \/ BeginMatch(e) \/ While(e)
  \/ \E x \in Names, e \in Exprs :
       Define(x, e) \/ For({x}, e, {x}) \/ Forindex(x, e) \/ Foreach(x, e)
  \/ \E es \in {{}} \cup {{e} : e \in Exprs} : For({}, "literal", es)
  \/ \E l \in Labels \cup {Default, Unknown} : Case(l)

Spec == Init /\ [][Next]_vars
-----------------------------------------------------------------------------
\* Between functions nothing is left: each pass closed the scopes and loops it
\* opened, whatever errors the bodies had, so that no variable and no
\* permission to jump reaches the next function.
NothingLeft ==
  /\ open = << >> => scopes = << >> /\ inLoop = 0
  /\ open = << >> /\ ~errors => locals = << >> /\ loops = 0

\* The generator finds a variable by name in tables of its own, where a
\* definition is entered before its initial value is evaluated: it is the
\* variable the analysis found.
SameVariable == gaps = {} => wrong \cap {"other variable", "unresolved"} = {}

\* A break or continue that is translated has a loop to leave, also one the
\* analysis never looked at (mir2sir takes the last of its loops unasked).
JumpsHaveLoops == "no loop" \notin wrong

\* Every function ends with a ret, and nothing is written behind a ret into the
\* same block.
ReturnsLast == gaps = {} => wrong \cap {"no return", "behind a ret"} = {}

\* The switch selects the case the match statement selects.
SwitchIsMatch == gaps = {} => "other case" \notin wrong

\* "unreachable statements, ignored" (semantic.cpp:41-42).
UnreachableIgnored == "ignored" \notin gaps
=============================================================================
