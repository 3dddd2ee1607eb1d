----------------------------- MODULE MCMir2Sir -----------------------------
(***************************************************************************)
(* Model checking of the basic-block generator alone, against MirFlow.     *)
(***************************************************************************)
EXTENDS Mir2Sir

CONSTANT MaxLabel
MCLabels == 0..MaxLabel

Source == INSTANCE MirFlow

\* The generated blocks do what the MIR function does: from every observable
\* point, along every arm, control reaches the same next point.  Any wrong
\* patch, swapped target, lost jump or break of the wrong loop shows here.
GeneratedFlowIsSourceFlow ==
  Generated => ReachableFlow(Flow) = ReachableFlow(Source!MirFlow(mir))
=============================================================================
