--------------------------- MODULE MCSimplifyCfg ---------------------------
(***************************************************************************)
(* The control-flow passes on every function with a few blocks, whether or *)
(* not the generator can produce it.  The first block holds a parameter's  *)
(* slot and leads to the second; the others are arbitrary.                 *)
(***************************************************************************)
EXTENDS SimplifyCfg

CONSTANTS
  Blocks,       \* number of blocks
  Kinds         \* what the blocks can be: "jump", "do" (an instruction, then
                \* a jump), "test" (a run-time branch), "const", "switch", "ret"

MCLabels == 0..Blocks - 1
Targets == 1..Blocks - 1

Shapes == [kind: Kinds \cap {"jump", "do", "const"}, to: Targets \X {1}]
          \cup [kind: Kinds \cap {"test", "switch"}, to: Targets \X Targets]
          \cup [kind: Kinds \cap {"ret"}, to: {<<1, 1>>}]

Content(b, shape) ==
  LET t == shape.to[1]
      f == shape.to[2]
  IN  CASE shape.kind = "jump" -> <<Br(t)>>
        [] shape.kind = "do" -> <<Inst(<<"inst", b>>), Br(t)>>
        [] shape.kind = "const" -> <<BrCond(Lit(t % 2), t, f)>>
        [] shape.kind = "test" -> <<BrCond(<<"var", b>>, t, f)>>
        [] shape.kind = "switch" -> <<Switch(<<"var", b>>, <<t, f, t>>)>>
        [] shape.kind = "ret" -> <<Ret(<<"inst", b>>)>>

MCFuncs ==
  {[order |-> [i \in 1..Blocks |-> i - 1],
    stmts |-> [b \in Labels |-> IF b = 0 THEN <<Inst(Mem), Br(1)>>
                                ELSE Content(b, shape[b])]] :
     shape \in [Targets -> Shapes]}

VARIABLE flow   \* history: the reachable flow of the function at the start

MCInit == Init /\ flow = ReachableFlow(Flow)
MCNext == Next /\ UNCHANGED flow
MCSpec == MCInit /\ [][MCNext]_<<vars, flow>>

\* Folding literal branches, removing blocks without predecessors and merging
\* blocks never change what an execution of the function does.
FlowPreserved ==
  AtRest /\ ~emptyCycle /\ pass # "copying" => ReachableFlow(Flow) = flow
=============================================================================
