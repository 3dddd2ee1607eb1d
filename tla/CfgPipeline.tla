---------------------------- MODULE CfgPipeline ----------------------------
(***************************************************************************)
(* The path of one function through the back end: the generator of         *)
(* Mir2Sir, then the passes of SimplifyCfg on the blocks it produced, as   *)
(* mir2sir.generate runs them with optimisation on (emit_func_impl, then   *)
(* run_sir_pass), or as the C++ compiler runs its own (mir2sir::generate,  *)
(* then sir_pass_manager::execute).                                        *)
(***************************************************************************)
EXTENDS Mir2Sir

VARIABLES pass, cfg, idx, kept, locked, deleted, progress, emptyCycle, bootstrap
passVars == <<pass, cfg, idx, kept, locked, deleted, progress, emptyCycle, bootstrap>>
pipeVars == <<genVars, passVars>>

S == INSTANCE SimplifyCfg WITH Funcs <- {}

Init == GenInit /\ S!Idle

\* The generator runs; the passes wait for it.
GenerateFunc == Generate /\ UNCHANGED passVars

\* The passes run; nothing of the generator is used any more.
RunPasses ==
  /\ Generated
  /\ S!Simplify
  /\ UNCHANGED <<todo, mir, block, nextLabel, value, jumpOut, breaks, continues>>

Stop == Generated /\ S!Stopped /\ UNCHANGED pipeVars

Next == GenerateFunc \/ RunPasses \/ Stop
Spec == Init /\ [][Next]_pipeVars
FairSpec == Spec /\ WF_pipeVars(GenerateFunc) /\ WF_pipeVars(RunPasses)

-----------------------------------------------------------------------------
BranchesLead == S!BranchesLead
EntryHasNoPreds == S!EntryHasNoPreds

\* Every function is compiled in the end.
Terminates == <>(pass = "done")

\* The rounds of simplify_cfg come to an end: the passes finish, unless one of
\* them stops inside an iteration (on an assertion, on a block that is its own
\* only predecessor).
Stops == <>S!Stopped
=============================================================================
