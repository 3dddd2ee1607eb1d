--------------------------- MODULE MCCfgPipeline ---------------------------
(***************************************************************************)
(* Model checking of the back end for one function, against MirFlow.       *)
(***************************************************************************)
EXTENDS CfgPipeline

CONSTANT MaxLabel
MCLabels == 0..MaxLabel

Source == INSTANCE MirFlow

\* Compiled code does what the source says: after all the passes the blocks
\* still have the flow of the MIR function.
CompiledFlowIsSourceFlow ==
  pass = "done" /\ (emptyCycle => bootstrap)
    => ReachableFlow(Flow) = ReachableFlow(Source!MirFlow(mir))
=============================================================================
